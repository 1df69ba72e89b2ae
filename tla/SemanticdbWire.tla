---------------------------- MODULE SemanticdbWire ----------------------------
(***************************************************************************)
(* The reader of .semanticdb files (ls-semanticdb: wire.rs, parser.rs).     *)
(*                                                                          *)
(* A byte is a number below 2^(LowBits + 1): its low bits and, on top, the  *)
(* continuation bit of a varint.  LowBits, WordBits and IntBits are 7, 64   *)
(* and 32 in the code.  A reader is the sequence of the bytes it still may  *)
(* read, so the reader of an embedded message cannot look past its end.     *)
(* A message is read by a schema: the fields the code matches on, each with *)
(* its number and with how its value is read.                               *)
(***************************************************************************)
EXTENDS Integers, Sequences, SequencesExt

CONSTANTS LowBits, WordBits, IntBits

Fail == [ok |-> FALSE]
Got(v, rest) == [ok |-> TRUE, val |-> v, rest |-> rest]

-----------------------------------------------------------------------------
(* The wire                                                                *)

RECURSIVE read_varint_at(_, _, _)
read_varint_at(bytes, shift, result) ==
    IF shift >= WordBits \/ bytes = <<>> THEN Fail
    ELSE LET low == Head(bytes) % 2^LowBits
             sum == (result + low * 2^shift) % 2^WordBits
         IN  IF Head(bytes) < 2^LowBits THEN Got(sum, Tail(bytes))
             ELSE read_varint_at(Tail(bytes), shift + LowBits, sum)

read_varint(bytes) == read_varint_at(bytes, 0, 0)

Truncated(n) ==
    LET low == n % 2^IntBits
    IN  IF low < 2^(IntBits - 1) THEN low ELSE low - 2^IntBits

read_int32(bytes) ==
    LET v == read_varint(bytes)
    IN  IF v.ok THEN Got(Truncated(v.val), v.rest) ELSE Fail

read_tag(bytes) ==
    LET raw == read_varint(bytes)
    IN  IF ~ raw.ok THEN Fail
        ELSE IF raw.val >= 2^(IntBits - 1) \/ raw.val \div 8 = 0 THEN Fail
        ELSE Got([field |-> raw.val \div 8, wire |-> raw.val % 8], raw.rest)

skip_bytes(bytes, n) ==
    IF n > Len(bytes) THEN Fail ELSE Got(SubSeq(bytes, 1, n), SubSeq(bytes, n + 1, Len(bytes)))

\* What is there is taken for the whole field
read_length_delimited_clamped(bytes) ==
    LET len == read_varint(bytes)
    IN  IF ~ len.ok THEN Fail
        ELSE skip_bytes(len.rest, IF len.val > Len(len.rest) THEN Len(len.rest) ELSE len.val)

read_length_delimited(bytes) ==
    LET len == read_varint(bytes)
    IN  IF len.ok THEN skip_bytes(len.rest, len.val) ELSE Fail

\* A byte that is no character reads as the replacement character
Replacement == -1
from_utf8_lossy(bytes) ==
    [i \in DOMAIN bytes |-> IF bytes[i] < 2^LowBits THEN bytes[i] ELSE Replacement]

read_string(bytes) ==
    LET slice == read_length_delimited(bytes)
    IN  IF slice.ok THEN Got(from_utf8_lossy(slice.val), slice.rest) ELSE Fail

RECURSIVE skip_field(_, _), skip_group(_, _)

\* Nested fields up to the end-group tag of the same field
skip_group(bytes, field) ==
    LET tag == read_tag(bytes)
    IN  IF ~ tag.ok THEN Fail
        ELSE IF tag.val.wire = 4
             THEN IF tag.val.field = field THEN Got(<<>>, tag.rest) ELSE Fail
        ELSE LET inner == skip_field(tag.rest, tag.val)
             IN  IF inner.ok THEN skip_group(inner.rest, field) ELSE Fail

skip_field(bytes, tag) ==
    CASE tag.wire = 0 -> read_varint(bytes)
      [] tag.wire = 1 -> skip_bytes(bytes, 8)
      [] tag.wire = 2 -> read_length_delimited(bytes)
      [] tag.wire = 3 -> skip_group(bytes, tag.field)
      [] tag.wire = 5 -> skip_bytes(bytes, 4)
      [] OTHER -> Fail

-----------------------------------------------------------------------------
(* The messages                                                            *)

Number(number) == [number |-> number, wire |-> 0, is |-> "int", of |-> <<>>]
Text(number) == [number |-> number, wire |-> 2, is |-> "string", of |-> <<>>]
Texts(number) == [number |-> number, wire |-> 2, is |-> "strings", of |-> <<>>]
Message(number, schema) == [number |-> number, wire |-> 2, is |-> "message", of |-> schema]
Messages(number, schema) == [number |-> number, wire |-> 2, is |-> "messages", of |-> schema]

SdbRange ==
    [start_line |-> Number(1), start_character |-> Number(2), end_line |-> Number(3), end_character |-> Number(4)]

SdbOccurrence == [range |-> Message(1, SdbRange), symbol |-> Text(2), role |-> Number(3)]

SdbSymbolInfo ==
    [symbol |-> Text(1), kind |-> Number(3), properties |-> Number(4), display_name |-> Text(5),
     overridden_symbols |-> Texts(19)]

SdbDocument ==
    [schema |-> Number(1), uri |-> Text(2), text |-> Text(3), symbols |-> Messages(5, SdbSymbolInfo),
     occurrences |-> Messages(6, SdbOccurrence), language |-> Number(10), md5 |-> Text(11)]

SdbDocuments == [documents |-> Messages(1, SdbDocument)]

\* The value of a field that does not occur; an optional message is <<>> or <<m>>
Default(field) == IF field.is = "int" THEN 0 ELSE <<>>

Matching(schema, tag) ==
    {name \in DOMAIN schema : schema[name].number = tag.field /\ schema[name].wire = tag.wire}

\* A scalar is overwritten, a repeated field grows
Stored(field, old, v) ==
    CASE field.is \in {"strings", "messages"} -> Append(old, v)
      [] field.is = "message" -> <<v>>
      [] OTHER -> v

RECURSIVE parse_fields(_, _, _)
parse(schema, bytes) ==
    parse_fields(schema, bytes, [name \in DOMAIN schema |-> Default(schema[name])])

read_message(schema, bytes) ==
    LET slice == read_length_delimited(bytes)
    IN  IF ~ slice.ok THEN Fail
        ELSE LET inner == parse(schema, slice.val)
             IN  IF inner.ok THEN Got(inner.val, slice.rest) ELSE Fail

read_field(field, bytes) ==
    CASE field.is = "int" -> read_int32(bytes)
      [] field.is \in {"string", "strings"} -> read_string(bytes)
      [] OTHER -> read_message(field.of, bytes)

\* One field after another to the end of the reader; an unknown field, or a
\* known one of another wire type, is skipped
parse_fields(schema, bytes, message) ==
    IF bytes = <<>> THEN Got(message, <<>>)
    ELSE LET tag == read_tag(bytes)
         IN  IF ~ tag.ok THEN Fail
             ELSE IF Matching(schema, tag.val) = {}
                  THEN LET skipped == skip_field(tag.rest, tag.val)
                       IN  IF skipped.ok THEN parse_fields(schema, skipped.rest, message) ELSE Fail
             ELSE LET name == CHOOSE n \in Matching(schema, tag.val) : TRUE
                      v == read_field(schema[name], tag.rest)
                  IN  IF ~ v.ok THEN Fail
                      ELSE parse_fields(schema, v.rest,
                               [message EXCEPT ![name] = Stored(schema[name], @, v.val)])

parse_text_documents(bytes) == parse(SdbDocuments, bytes)

=============================================================================
