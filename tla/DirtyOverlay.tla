---------------------------- MODULE DirtyOverlay ----------------------------
(***************************************************************************)
(* The symbol under the cursor of a buffer with unsaved changes            *)
(* (ls-server/pc_overlay.rs): a top-level declaration the index has never  *)
(* seen is PC-only, and anything else is what the presentation compiler    *)
(* says.                                                                   *)
(*                                                                         *)
(* A line is [indented, words], its words one blank apart.  A word is      *)
(* [is, text, ascii, id, width]: a "modifier", a "keyword" or a "name";    *)
(* the UTF-16 lengths of its leading run of ASCII identifier characters,   *)
(* of its leading run of Unicode ones, and of all of it (a name may be     *)
(* followed by a bracket).  A name is <<text, length>>, since the scan may *)
(* stop short of the whole name.                                           *)
(***************************************************************************)
EXTENDS Integers, Sequences, FiniteSets, SequencesExt, FiniteSetsExt

NoSpan == [line |-> -1, from |-> 0, to |-> 0]
SpanAt(l, from, len) == [line |-> l, from |-> from, to |-> from + len]

Column(line, i) ==
    (IF line.indented THEN 2 ELSE 0)
    + ReduceSet(LAMBDA j, n : n + line.words[j].width + 1, 1 .. i - 1, 0)
LineWidth(line) ==
    IF line.words = <<>> THEN Column(line, 1) ELSE Column(line, Len(line.words) + 1) - 1

-----------------------------------------------------------------------------
(* The light scan for top-level declarations                               *)

NoDecl == [name |-> <<>>, span |-> NoSpan]

\* The longest leading identifier, in ASCII only
take_identifier(w) == IF w.ascii > 0 THEN <<w.text, w.ascii>> ELSE <<>>

\* modifier* keyword name, at column 0, each followed by white space
top_level_decl(l, line) ==
    LET ws == line.words
        k == SelectInSeq(ws, LAMBDA w : w.is # "modifier")
    IN  IF line.indented \/ k = 0 \/ k = Len(ws) THEN NoDecl
        ELSE IF ws[k].is # "keyword" \/ take_identifier(ws[k + 1]) = <<>> THEN NoDecl
        ELSE [name |-> take_identifier(ws[k + 1]),
              span |-> SpanAt(l, Column(line, k + 1), ws[k + 1].ascii)]

top_level_decls(text) ==
    SelectSeq([l \in DOMAIN text |-> top_level_decl(l, text[l])], LAMBDA d : d # NoDecl)

-----------------------------------------------------------------------------
(* A buffer b: its uri resolves to a file, it is dirty, the island mirrors *)
(* it, and its text.  The late installation gives the environment.         *)

is_dirty(b) == b.installed /\ b.resolves /\ b.dirty

\* The identifier around a column, or around the end of a line the column is
\* past: a boundary on either side counts
token_span_at(text, l, col) ==
    LET n == LineWidth(text[l])
        cursor == IF col < n THEN col ELSE n
        at == {i \in DOMAIN text[l].words :
                /\ text[l].words[i].id > 0
                /\ Column(text[l], i) <= cursor
                /\ cursor <= Column(text[l], i) + text[l].words[i].id}
    IN  IF at = {} THEN NoSpan
        ELSE LET i == CHOOSE i \in at : TRUE
             IN  SpanAt(l, Column(text[l], i), text[l].words[i].id)

NoHit == [symbol |-> "", span |-> NoSpan, role |-> "none", pc_only |-> FALSE]

pc_only_top_level_hit(b, l, col, indexed) ==
    LET decls == top_level_decls(b.text)
        on == SelectInSeq(decls, LAMBDA d : /\ d.span.line = l
                                            /\ d.span.from <= col /\ col <= d.span.to)
    IN  IF on = 0 THEN NoHit
        ELSE IF decls[on].name \in indexed THEN NoHit
        ELSE [symbol |-> "local", span |-> decls[on].span, role |-> "definition",
              pc_only |-> TRUE]

\* pc: the answers of the island at the cursor; a definition is [here, span]
\* or comes from a plugin's source
pc_hit(b, l, col, pc) ==
    LET span == IF pc.rename # NoSpan THEN pc.rename ELSE token_span_at(b.text, l, col)
        is_definition == \E d \in pc.definitions :
                            d.origin = "workspace" /\ d.here /\ d.span = span
    IN  IF span = NoSpan \/ pc.symbol = "" THEN NoHit
        ELSE [symbol |-> pc.symbol, span |-> span,
              role |-> IF is_definition THEN "definition" ELSE "reference",
              pc_only |-> /\ pc.definitions # {}
                          /\ \A d \in pc.definitions : d.origin # "workspace"]

symbol_at(b, l, col, pc, indexed) ==
    IF ~b.installed \/ ~b.resolves \/ ~b.mirrored THEN NoHit
    ELSE LET top == pc_only_top_level_hit(b, l, col, indexed)
         IN  IF top # NoHit THEN top ELSE pc_hit(b, l, col, pc)

\* What workspace/symbol adds for the empty query
pc_only_symbols(b, indexed) ==
    IF ~b.installed \/ ~b.dirty THEN {}
    ELSE {d \in ToSet(top_level_decls(b.text)) : d.name \notin indexed}

-----------------------------------------------------------------------------
(* QueryOrchestrator::symbol_at_cursor, references and rename, as far as a *)
(* dirty buffer takes them                                                 *)

\* Mutant: a dirty buffer the island cannot answer for falls back to the index
symbol_at_cursor_guesses(b, l, col, pc, indexed) ==
    IF ~is_dirty(b) \/ symbol_at(b, l, col, pc, indexed) = NoHit THEN "index"
    ELSE IF symbol_at(b, l, col, pc, indexed).pc_only THEN "PcOnlySymbol"
    ELSE "overlay"

symbol_at_cursor(b, l, col, pc, indexed) ==
    IF ~is_dirty(b) THEN "index"
    ELSE IF symbol_at(b, l, col, pc, indexed) = NoHit THEN "StaleIndex"
    ELSE IF symbol_at(b, l, col, pc, indexed).pc_only THEN "PcOnlySymbol"
    ELSE "overlay"
=============================================================================
