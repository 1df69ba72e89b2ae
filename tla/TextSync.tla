------------------------------ MODULE TextSync ------------------------------
(***************************************************************************)
(* The text arithmetic of the server: folding the edits of a didChange     *)
(* onto a buffer, turning a formatter's diff into edits, and encoding the  *)
(* compiler's semantic nodes as the token stream of the protocol and as    *)
(* the splice between two streams.                                         *)
(*                                                                         *)
(* A text is a sequence of characters.  Only four kinds of character are   *)
(* told apart: a line feed, a carriage return, one UTF-16 unit wide and    *)
(* two units wide.  A byte offset of the code is the number of characters  *)
(* before it (both name the same character boundaries); a protocol         *)
(* position and a node offset count UTF-16 units, as in the code.          *)
(***************************************************************************)
EXTENDS Integers, Sequences, FiniteSets, SequencesExt, FiniteSetsExt

LF == "lf"
CR == "cr"
Narrow == "narrow"
Wide == "wide"
Chars == {LF, CR, Narrow, Wide}

\* WideEncoding::Utf16.measure (external crate line-index)
Measure(s) == Len(s) + Cardinality({i \in DOMAIN s : s[i] = Wide})

Pos(l, c) == [line |-> l, character |-> c]
Before(p, q) == p.line < q.line \/ (p.line = q.line /\ p.character < q.character)

-----------------------------------------------------------------------------
(* line-index: lines end after each LF and the last one at the end of the  *)
(* text, so a text with n line feeds has lines 0..n.                       *)

LineBreaks(text) == SetToSortSeq({i \in DOMAIN text : text[i] = LF}, <)
LastLine(text) == Cardinality({i \in DOMAIN text : text[i] = LF})
LineStart(text, l) == IF l = 0 THEN 0 ELSE LineBreaks(text)[l]
LineEnd(text, l) ==
    IF l < LastLine(text) THEN LineBreaks(text)[l + 1] ELSE Len(text)

\* LineIndex::line_col and to_wide: the position of a character boundary
position(text, offset) ==
    LET l == Cardinality({i \in 1 .. offset : text[i] = LF})
    IN  Pos(l, Measure(SubSeq(text, LineStart(text, l) + 1, offset)))

-----------------------------------------------------------------------------
(* documents.rs: the incremental text-sync fold                            *)

\* The line without its terminator: columns never address past the break
StripTerminator(raw) ==
    IF raw = <<>> \/ Last(raw) # LF THEN raw
    ELSE IF Len(raw) > 1 /\ raw[Len(raw) - 1] = CR THEN SubSeq(raw, 1, Len(raw) - 2)
    ELSE Front(raw)

\* The boundary at column col of a line, rounded down inside a wide character
ColumnOffset(line, col) ==
    Max({k \in 0 .. Len(line) : Measure(SubSeq(line, 1, k)) <= col})

byte_offset(text, p) ==
    IF p.line > LastLine(text) THEN Len(text)
    ELSE LET from == LineStart(text, p.line)
             line == StripTerminator(SubSeq(text, from + 1, LineEnd(text, p.line)))
         IN  from + ColumnOffset(line, p.character)

WholeDocument == [start |-> Pos(0, 0), end |-> Pos(0, 0), whole |-> TRUE]
Ranged(p, q) == [start |-> p, end |-> q, whole |-> FALSE]

Splice(text, from, to, new) ==
    SubSeq(text, 1, from) \o new \o SubSeq(text, to + 1, Len(text))

apply_change(text, change) ==
    IF change.range.whole THEN change.text
    ELSE LET start == byte_offset(text, change.range.start)
             end == byte_offset(text, change.range.end)
         IN  Splice(text, Min({start, end}), Max({start, end}), change.text)

apply_content_changes(base, changes) == FoldLeft(apply_change, base, changes)

-----------------------------------------------------------------------------
(* formatting.rs: the diff of the formatter's output, folded into edits.   *)
(* The diff itself is an external crate: any chunk list may come back whose *)
(* equal and deleted runs make up the original text.                       *)

Chunk(kind, text) == [kind |-> kind, text |-> text]
Kept(chunks, kinds) ==
    FlattenSeq([i \in DOMAIN chunks |->
                  IF chunks[i].kind \in kinds THEN chunks[i].text ELSE <<>>])
Original(chunks) == Kept(chunks, {"equal", "delete"})
Formatted(chunks) == Kept(chunks, {"equal", "insert"})

TextEdit(original, from, to, new) ==
    [range |-> Ranged(position(original, from), position(original, to)),
     text |-> new]

\* Mutant: an insertion moves the cursor, which walks the original text
minimal_edits_drifting(chunks) ==
    LET original == Original(chunks)
        step(acc, c) ==
            LET to == Min({Len(original), acc.pos + Len(c.text)})
            IN  CASE c.kind = "equal"  -> [acc EXCEPT !.pos = to]
                  [] c.kind = "delete" -> [pos |-> to, edits |-> Append(acc.edits,
                                             TextEdit(original, acc.pos, to, <<>>))]
                  [] c.kind = "insert" -> [pos |-> to, edits |-> Append(acc.edits,
                                             TextEdit(original, acc.pos, acc.pos, c.text))]
    IN  FoldLeft(step, [pos |-> 0, edits |-> <<>>], chunks).edits

\* A deletion directly followed by an insertion is one replacement
minimal_edits(chunks) ==
    LET original == Original(chunks)
        joins(i) == chunks[i].kind = "insert" /\ i > 1 /\ chunks[i - 1].kind = "delete"
        step(acc, i) ==
            LET c == chunks[i]
                to == acc.pos + Len(c.text)
            IN  CASE joins(i) -> acc
                  [] c.kind = "equal" -> [acc EXCEPT !.pos = to]
                  [] c.kind = "delete" ->
                       [pos |-> to,
                        edits |-> Append(acc.edits, TextEdit(original, acc.pos, to,
                            IF i < Len(chunks) /\ joins(i + 1)
                            THEN chunks[i + 1].text ELSE <<>>))]
                  [] c.kind = "insert" /\ ~joins(i) ->
                       [acc EXCEPT !.edits = Append(@,
                            TextEdit(original, acc.pos, acc.pos, c.text))]
    IN  FoldLeft(step, [pos |-> 0, edits |-> <<>>], [i \in DOMAIN chunks |-> i]).edits

-----------------------------------------------------------------------------
(* pc_lsp.rs: semantic tokens                                              *)

\* Utf16Lines: the unit offset of each line's first unit, then the total
LineUnits(text) ==
    [l \in 1 .. LastLine(text) + 2 |->
        IF l = LastLine(text) + 2 THEN Measure(text)
        ELSE Measure(SubSeq(text, 1, LineStart(text, l - 1)))]

unit_position(text, offset) ==
    LET starts == LineUnits(text)
        clamped == Min({offset, Last(starts)})
        hit == Max({i \in DOMAIN starts : starts[i] <= clamped})
        l == Min({hit, Len(starts) - 1})
    IN  Pos(l - 1, clamped - starts[l])

Node(start, end, type, modifier) ==
    [start |-> start, end |-> end, type |-> type, modifier |-> modifier]

TokenBefore(a, b) ==
    \/ a.line < b.line
    \/ a.line = b.line /\ a.start < b.start
    \/ a.line = b.line /\ a.start = b.start /\ a.length < b.length

PositionedToken(text, node) ==
    LET from == unit_position(text, node.start)
        to == unit_position(text, node.end)
    IN  [line |-> from.line, start |-> from.character,
         length |-> to.character - from.character, type |-> node.type,
         modifiers |-> Max({node.modifier, 0})]

Encodable(text, node) ==
    /\ node.type >= 0
    /\ node.start < node.end
    /\ unit_position(text, node.end).line = unit_position(text, node.start).line

positioned(nodes, text) ==
    LET kept == SelectSeq(nodes, LAMBDA node : Encodable(text, node))
    IN  SortSeq([i \in DOMAIN kept |-> PositionedToken(text, kept[i])], TokenBefore)

\* Each token's place relative to the one before it (the first to the origin)
delta_encode(tokens) ==
    [i \in DOMAIN tokens |->
        LET prev == IF i = 1 THEN [line |-> 0, start |-> 0] ELSE tokens[i - 1]
            t == tokens[i]
        IN  [deltaLine |-> t.line - prev.line,
             deltaStart |-> IF t.line = prev.line THEN t.start - prev.start ELSE t.start,
             length |-> t.length, type |-> t.type, modifiers |-> t.modifiers]]

semantic_tokens(nodes, text) == delta_encode(positioned(nodes, text))

semantic_tokens_range(nodes, text, from, to) ==
    delta_encode(SelectSeq(positioned(nodes, text),
        LAMBDA t : /\ Before(Pos(t.line, t.start), to)
                   /\ Before(from, Pos(t.line, t.start + t.length))))

CommonPrefix(a, b) ==
    Max({k \in 0 .. Min({Len(a), Len(b)}) : \A i \in 1 .. k : a[i] = b[i]})

Drop(s, n) == SubSeq(s, n + 1, Len(s))

\* Mutant: the suffix is counted over the whole streams and may overlap the prefix
semantic_tokens_edits_overlapping(prev, next) ==
    LET prefix == CommonPrefix(prev, next)
        suffix == CommonPrefix(Reverse(prev), Reverse(next))
        deleted == Max({0, Len(prev) - prefix - suffix})
        inserted == SubSeq(next, prefix + 1, Len(next) - suffix)
    IN  IF deleted = 0 /\ inserted = <<>> THEN <<>>
        ELSE <<[start |-> 5 * prefix, deleteCount |-> 5 * deleted, data |-> inserted]>>

semantic_tokens_edits(prev, next) ==
    LET prefix == CommonPrefix(prev, next)
        prev_rest == Drop(prev, prefix)
        next_rest == Drop(next, prefix)
        suffix == CommonPrefix(Reverse(prev_rest), Reverse(next_rest))
        deleted == Len(prev_rest) - suffix
        inserted == SubSeq(next_rest, 1, Len(next_rest) - suffix)
    IN  IF deleted = 0 /\ inserted = <<>> THEN <<>>
        ELSE <<[start |-> 5 * prefix, deleteCount |-> 5 * deleted, data |-> inserted]>>
=============================================================================
