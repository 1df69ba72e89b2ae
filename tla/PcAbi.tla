-------------------------------- MODULE PcAbi --------------------------------
(***************************************************************************)
(* The payloads that cross between the server and the presentation-compiler *)
(* island (ls-pc-abi: codec.rs, payloads.rs, memory.rs): a flat body of     *)
(* fixed-width words, a blob the strings lie in, and an envelope with the   *)
(* kind and both lengths.  A payload type is given by its layout, the order *)
(* in which its encode writes and its decode reads.                         *)
(*                                                                          *)
(* A buffer is a sequence of cells: a word of the body is one cell, a byte  *)
(* of the blob is one cell, and lengths count cells.  The 2^32 values of a  *)
(* word are cut to WordSize values, so that lengths can exceed a word.      *)
(***************************************************************************)
EXTENDS Integers, Sequences, FiniteSets, SequencesExt, FiniteSetsExt

CONSTANT WordSize    \* how many values a word has (2^32 in the code), even

-----------------------------------------------------------------------------
(* Layouts                                                                 *)

U32 == [is |-> "u32"]
I32 == [is |-> "i32"]
Bool32 == [is |-> "bool"]
Str == [is |-> "str"]                                   \* UTF-8
Bytes == [is |-> "bytes"]                               \* anything
Struct(fields) == [is |-> "struct", of |-> fields]
ListOf(s) == [is |-> "list", of |-> s]
Either(alternatives) == [is |-> "either", of |-> alternatives]
\* An optional that is just a flag when absent
Opt(s) == [is |-> "opt", of |-> s]
\* An optional that always takes the space of its value
OptSlot(s) == [is |-> "slot", of |-> s]

Nothing == Struct(<<>>)
opt_str == OptSlot(Str)
opt_bytes == OptSlot(Bytes)
opt_i32 == OptSlot(I32)
opt_bool == OptSlot(Bool32)
StrList == ListOf(Str)
OptStrList == Opt(StrList)

Rng == Struct(<<U32, U32, U32, U32>>)
Pos == Struct(<<U32, U32>>)
TextEdit == Struct(<<Rng, Str>>)
TextEditList == ListOf(TextEdit)
InsertReplaceEdit == Struct(<<Str, Rng, Rng>>)
CompletionEdit == Either(<<TextEdit, InsertReplaceEdit>>)
MarkupContent == Struct(<<Str, Str>>)
Documentation == Either(<<Nothing, Str, MarkupContent>>)
Location == Struct(<<Str, Rng, U32>>)

TargetConfig == Struct(<<Str, Str, StrList, StrList, StrList>>)
DidOpenParams == Struct(<<Str, Str, Str>>)
DidChangeParams == Struct(<<Str, Str>>)
PositionParams == Struct(<<Str, U32, U32>>)
LabelDetails == Struct(<<opt_str, opt_str>>)
Command == Struct(<<Str, opt_str, Str, opt_bytes>>)
CompletionItem == Struct(
    <<Str, Opt(LabelDetails), opt_i32, Opt(ListOf(I32)), opt_str, Documentation,
      opt_bool, opt_bool, opt_str, opt_str, opt_str, opt_i32, opt_i32, Opt(CompletionEdit),
      opt_str, Opt(TextEditList), OptStrList, Opt(Command), opt_bytes>>)
ResolveParams == Struct(<<Str, Str, CompletionItem>>)
EditRange == Either(<<Nothing, Rng, Struct(<<Rng, Rng>>)>>)
CompletionItemDefaults == Struct(<<OptStrList, EditRange, opt_i32, opt_i32, opt_bytes>>)
CompletionApplyKind == Struct(<<opt_i32, opt_i32>>)
CompletionList ==
    Struct(<<Bool32, Opt(CompletionItemDefaults), Opt(CompletionApplyKind), ListOf(CompletionItem)>>)
MarkedStringItem == Either(<<Str, Struct(<<Str, Str>>)>>)
HoverContents == Either(<<MarkupContent, ListOf(MarkedStringItem)>>)
HoverResult == Opt(Struct(<<HoverContents, OptSlot(Rng)>>))
ParameterLabel == Either(<<Str, Struct(<<U32, U32>>)>>)
ParameterInfo == Struct(<<ParameterLabel, Documentation>>)
SignatureInfo == Struct(<<Str, Documentation, Opt(ListOf(ParameterInfo)), opt_i32>>)
SignatureHelp == Struct(<<ListOf(SignatureInfo), opt_i32, opt_i32>>)
DefinitionResult == Struct(<<Str, ListOf(Location)>>)
LocationsResult == ListOf(Location)
MethodHit == Struct(<<Str, Str, I32, Rng>>)
MethodHitsResult == ListOf(MethodHit)
PrepareRenameResult == OptSlot(Rng)
PluginStatus == Struct(
    <<ListOf(Struct(<<StrList, StrList, Bool32, Str>>)),
      ListOf(Struct(<<Str, Str, Bool32, Bool32, Str>>)),
      ListOf(Struct(<<Str, Str>>))>>)
InlayHintParams == Struct(<<Str, Rng, U32>>)
InlayLabelPart == Struct(<<Str, Opt(Struct(<<Str, Rng>>)), opt_str>>)
InlayHint ==
    Struct(<<Pos, ListOf(InlayLabelPart), I32, Bool32, Bool32, Opt(TextEditList), opt_bytes>>)
InlayHintsResult == ListOf(InlayHint)
UriParams == Str
SemanticTokensResult == ListOf(Struct(<<U32, U32, I32, I32>>))
SelectionRangeParams == Struct(<<Str, ListOf(Pos)>>)
SelectionRangesResult == ListOf(ListOf(Rng))
CodeActionParams == Struct(<<Str, I32, Pos, OptSlot(Pos), Opt(ListOf(I32))>>)
CodeActionResult == Struct(<<TextEditList, opt_str>>)
AutoImportParams == Struct(<<Str, Pos, Str, Bool32>>)
AutoImportsResult == ListOf(Struct(<<Str, TextEditList, opt_str>>))
PcDiagnosticsResult == ListOf(Struct(<<Rng, I32, Str, Str>>))
FoldingRangesResult == ListOf(Struct(<<Rng, I32>>))
ToplevelsResult == StrList

\* KIND_TARGET_CONFIG and the others: the number of a payload is its place here
Payloads ==
    <<TargetConfig, DidOpenParams, DidChangeParams, PositionParams, ResolveParams,
      CompletionList, CompletionItem, HoverResult, SignatureHelp, DefinitionResult,
      PrepareRenameResult, PluginStatus, LocationsResult, MethodHitsResult,
      InlayHintParams, InlayHintsResult, UriParams, SemanticTokensResult,
      SelectionRangeParams, SelectionRangesResult, CodeActionParams, CodeActionResult,
      AutoImportParams, AutoImportsResult, PcDiagnosticsResult, FoldingRangesResult,
      ToplevelsResult>>

-----------------------------------------------------------------------------
(* Writing.  A value is a number, a truth value, a sequence of bytes, a     *)
(* sequence of values, or [tag, value] for an Either; an absent optional is *)
(* the empty sequence.                                                      *)

\* A length as a word: too long a length is an error, never a shorter length
abi_len(n) == IF n < WordSize THEN [ok |-> TRUE, len |-> n] ELSE [ok |-> FALSE, len |-> 0]

\* The words a value of fixed size takes
Words(s) ==
    CASE s.is \in {"str", "bytes"} -> 2
      [] s.is = "struct" -> Len(s.of)
      [] OTHER -> 1

\* One word each: a number, a length to narrow, the offset of interned bytes
Word(n) == [put |-> "word", n |-> n]
Length(n) == [put |-> "length", n |-> n]
Intern(bytes) == [put |-> "intern", bytes |-> bytes]

\* An absent slot is its flag and as many words as the value would take
absent(s) == [i \in 1 .. 1 + Words(s) |-> Word(0)]

RECURSIVE write(_, _)
RECURSIVE write_fields(_, _)
RECURSIVE write_items(_, _)

write_fields(fields, v) ==
    IF fields = <<>> THEN <<>>
    ELSE write(Head(fields), Head(v)) \o write_fields(Tail(fields), Tail(v))

write_items(s, v) ==
    IF v = <<>> THEN <<>> ELSE write(s, Head(v)) \o write_items(s, Tail(v))

write(s, v) ==
    CASE s.is = "u32" -> <<Word(v)>>
      [] s.is = "i32" -> <<Word(v % WordSize)>>
      [] s.is = "bool" -> <<Word(IF v THEN 1 ELSE 0)>>
      [] s.is \in {"str", "bytes"} -> <<Intern(v), Length(Len(v))>>
      [] s.is = "struct" -> write_fields(s.of, v)
      [] s.is = "list" -> <<Length(Len(v))>> \o write_items(s.of, v)
      [] s.is = "either" -> <<Word(v.tag)>> \o write(s.of[v.tag + 1], v.value)
      [] s.is = "opt" -> IF v = <<>> THEN <<Word(0)>> ELSE <<Word(1)>> \o write(s.of, v[1])
      [] s.is = "slot" -> IF v = <<>> THEN absent(s.of) ELSE <<Word(1)>> \o write(s.of, v[1])

\* The blob when a word is written: the bytes interned before it
blob_len(items, i) ==
    MapThenSumSet(LAMBDA j : Len(items[j].bytes), {j \in 1 .. i - 1 : items[j].put = "intern"})

LengthAt(items, i) == IF items[i].put = "intern" THEN blob_len(items, i) ELSE items[i].n

\* The words, the bytes, and whether a length did not fit a word
Writer(items) ==
    LET interned == SelectSeq(items, LAMBDA item : item.put = "intern")
    IN  [body |-> [i \in DOMAIN items |-> IF items[i].put = "word" THEN items[i].n
                                          ELSE abi_len(LengthAt(items, i)).len],
         blob |-> FlattenSeq([i \in DOMAIN interned |-> interned[i].bytes]),
         overflow |-> \E i \in DOMAIN items : /\ items[i].put # "word"
                                               /\ ~ abi_len(LengthAt(items, i)).ok]

Magic == -1
Envelope == 4    \* magic, kind, length of the body, length of the blob

AbiError == [ok |-> FALSE]
Encoded(bytes) == [ok |-> TRUE, bytes |-> bytes]

finish(kind, w) ==
    LET body == abi_len(Len(w.body))
        blob == abi_len(Len(w.blob))
    IN  IF w.overflow \/ ~ body.ok \/ ~ blob.ok THEN AbiError
        ELSE Encoded(<<Magic, kind, body.len, blob.len>> \o w.body \o w.blob)

encode(kind, v) == finish(kind, Writer(write(Payloads[kind], v)))

-----------------------------------------------------------------------------
(* Reading                                                                 *)

Ascii == 1
Lead == 2
Cont == 3

\* Every byte pair that encodes one character is whole
from_utf8(bytes) ==
    \A i \in DOMAIN bytes :
        /\ bytes[i] = Lead => i < Len(bytes) /\ bytes[i + 1] = Cont
        /\ bytes[i] = Cont => i > 1 /\ bytes[i - 1] = Lead

\* A reader holds the two regions, the cursor, the value last read, and, for
\* the sake of a property, the largest space it reserved for a list
Refused(r) == [r EXCEPT !.ok = FALSE]
Gives(r, v) == [r EXCEPT !.val = v]

NewReader(body, blob) ==
    [ok |-> TRUE, body |-> body, blob |-> blob, pos |-> 0, val |-> <<>>, reserved |-> 0]

\* Reader::new, which splits a buffer whose envelope is right
Open(buf, kind) ==
    IF Len(buf) < Envelope \/ buf[1] # Magic \/ buf[2] # kind
       \/ Envelope + buf[3] + buf[4] # Len(buf)
    THEN Refused(NewReader(<<>>, <<>>))
    ELSE NewReader(SubSeq(buf, Envelope + 1, Envelope + buf[3]),
                   SubSeq(buf, Envelope + buf[3] + 1, Len(buf)))

take(r) ==
    IF ~ r.ok \/ r.pos = Len(r.body) THEN Refused(r)
    ELSE [r EXCEPT !.pos = @ + 1, !.val = r.body[r.pos + 1]]

Signed(v) == IF 2 * v >= WordSize THEN v - WordSize ELSE v

read_i32(r) == LET t == take(r) IN IF t.ok THEN Gives(t, Signed(t.val)) ELSE t
read_bool(r) == LET t == take(r) IN IF t.ok THEN Gives(t, t.val # 0) ELSE t

count_unguarded(r) == LET t == take(r) IN IF t.ok THEN [t EXCEPT !.reserved = Max({@, t.val})] ELSE t

\* Every element takes a word at least: a count the rest of the body cannot
\* hold is refused before the list is allocated
count(r) ==
    LET t == take(r)
    IN  IF t.ok /\ t.val <= Len(t.body) - t.pos
        THEN [t EXCEPT !.reserved = Max({@, t.val})]
        ELSE Refused(t)

blob_slice(r, offset, len) ==
    IF offset + len <= Len(r.blob) THEN Gives(r, SubSeq(r.blob, offset + 1, offset + len))
    ELSE Refused(r)

\* The two words of a string, and the bytes unless the optional is absent
read_bytes(r, present) ==
    LET o == take(r)
        l == take(o)
    IN  IF l.ok /\ present THEN blob_slice(l, o.val, l.val) ELSE l

read_str(r, present) ==
    LET t == read_bytes(r, present)
    IN  IF t.ok /\ present /\ ~ from_utf8(t.val) THEN Refused(t) ELSE t

RECURSIVE read(_, _)
RECURSIVE read_fields(_, _)
RECURSIVE read_items(_, _, _)

read_fields(fields, r) ==
    IF fields = <<>> THEN Gives(r, <<>>)
    ELSE LET first == read(Head(fields), r)
             others == read_fields(Tail(fields), first)
         IN  IF ~ first.ok THEN first
             ELSE IF others.ok THEN Gives(others, <<first.val>> \o others.val) ELSE others

read_items(s, n, r) ==
    IF n = 0 \/ ~ r.ok THEN Gives(r, <<>>)
    ELSE LET first == read(s, r)
             others == read_items(s, n - 1, first)
         IN  IF ~ first.ok THEN first
             ELSE IF others.ok THEN Gives(others, <<first.val>> \o others.val) ELSE others

\* A slot reads its words whether or not the flag is set
read_slot(s, r) ==
    LET flag == take(r)
        present == flag.ok /\ flag.val # 0
        t == CASE s.is = "str" -> read_str(flag, present)
               [] s.is = "bytes" -> read_bytes(flag, present)
               [] OTHER -> read(s, flag)
    IN  IF ~ t.ok THEN t ELSE Gives(t, IF present THEN <<t.val>> ELSE <<>>)

read(s, r) ==
    CASE s.is = "u32" -> take(r)
      [] s.is = "i32" -> read_i32(r)
      [] s.is = "bool" -> read_bool(r)
      [] s.is = "str" -> read_str(r, TRUE)
      [] s.is = "bytes" -> read_bytes(r, TRUE)
      [] s.is = "struct" -> read_fields(s.of, r)
      [] s.is = "list" -> LET n == count(r) IN IF n.ok THEN read_items(s.of, n.val, n) ELSE n
      [] s.is = "either" ->
            LET tag == take(r)
                t == read(s.of[tag.val + 1], tag)
            IN  IF ~ tag.ok \/ tag.val >= Len(s.of) THEN Refused(tag)
                ELSE IF t.ok THEN Gives(t, [tag |-> tag.val, value |-> t.val]) ELSE t
      [] s.is = "opt" ->
            LET flag == take(r)
                t == read(s.of, flag)
            IN  IF ~ flag.ok THEN flag
                ELSE IF flag.val = 0 THEN Gives(flag, <<>>)
                ELSE IF t.ok THEN Gives(t, <<t.val>>) ELSE t
      [] s.is = "slot" -> read_slot(s.of, r)

\* Reader::finish: nothing of the body may be left over
AllRead(r) == IF r.ok /\ r.pos = Len(r.body) THEN r ELSE Refused(r)

decode(kind, buf) == AllRead(read(Payloads[kind], Open(buf, kind)))

-----------------------------------------------------------------------------
(* A callback of the island into the index (ls-jvm lib.rs): what the        *)
(* resolver answers goes out as a buffer the island frees.                  *)

NullBuf == [ptr |-> FALSE, bytes |-> <<>>]

NoOut == [ptr |-> FALSE]       \* the island passed no place for an answer

\* granted: the allocation succeeds
write_response(bytes, granted) ==
    IF bytes = <<>> THEN [ok |-> TRUE, out |-> NullBuf]
    ELSE IF abi_len(Len(bytes)).ok /\ granted
    THEN [ok |-> TRUE, out |-> [ptr |-> TRUE, bytes |-> SubSeq(bytes, 1, abi_len(Len(bytes)).len)]]
    ELSE [ok |-> FALSE, out |-> NullBuf]

\* answer: the resolver's value, or no field val when there is no resolver
\* (its answer is the empty list) or the resolver panicked; only write_response
\* touches out
run_resolver(kind, resolver, granted, out) ==
    LET encoded == encode(kind, IF resolver.is = "none" THEN <<>> ELSE resolver.val)
        response == write_response(encoded.bytes, granted)
    IN  IF out = NoOut THEN [status |-> "bad_arg", out |-> out]
        ELSE IF resolver.is = "panics" THEN [status |-> "panic", out |-> out]
        ELSE IF ~ encoded.ok THEN [status |-> "internal", out |-> out]
        ELSE [status |-> IF response.ok THEN "ok" ELSE "alloc", out |-> response.out]

\* take_response: a buffer without a pointer or a length is an empty answer
take_response(out) == IF out.ptr /\ Len(out.bytes) > 0 THEN out.bytes ELSE <<>>
=============================================================================
