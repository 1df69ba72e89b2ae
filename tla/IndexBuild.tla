----------------------------- MODULE IndexBuild -----------------------------
(***************************************************************************)
(* One ingest (ls-engine ingest.rs): from the SemanticDB outputs of the    *)
(* build targets to the tables of a segment.                               *)
(*                                                                          *)
(* A workspace is the sequence of its targets in the order the build       *)
(* reports them: [deps, files, sources, facts].  files are the SemanticDB  *)
(* outputs, [ok, docs] each; sources and facts are keyed by document uri.  *)
(* A line of source is a sequence of characters and an identifier is one   *)
(* character long, so a span covers a name or a name between backquotes.   *)
(***************************************************************************)
EXTENDS SymbolGroups

NoSource == [md5 |-> 0, lines |-> <<>>, exists |-> FALSE]
Backquote == "bq"

-----------------------------------------------------------------------------
(* Which documents are indexed                                             *)

\* Every document of every output that decodes, in target and file order
Offers(ws) ==
    FlattenSeq([t \in DOMAIN ws |->
        FlattenSeq([f \in DOMAIN ws[t].files |->
            IF ~ws[t].files[f].ok THEN <<>>
            ELSE [d \in DOMAIN ws[t].files[f].docs |->
                    [target |-> t, doc |-> ws[t].files[f].docs[d]]]])])

SourceOf(ws, offer) == ws[offer.target].sources[offer.doc.uri]
Readable(ws) == SelectSeq(Offers(ws), LAMBDA o : SourceOf(ws, o).exists)

\* A document that several targets compile is indexed for the first of them
primaries(ws) ==
    LET all == Readable(ws)
        first == SelectSeq([i \in DOMAIN all |-> i],
                     LAMBDA i : \A j \in 1 .. i - 1 : all[j].doc.uri # all[i].doc.uri)
    IN  [n \in DOMAIN first |-> all[first[n]]]

FactsOf(ws, offer) == ws[offer.target].facts[offer.doc.uri]

\* prev maps the uris of the previous ingest to their epoch and digest
epoch(prev, doc) ==
    CASE doc.uri \notin DOMAIN prev -> 1
      [] doc.uri \in DOMAIN prev /\ prev[doc.uri].md5 = doc.md5 -> prev[doc.uri].epoch
      [] OTHER -> prev[doc.uri].epoch + 1

report(ws) ==
    LET all == Offers(ws)
        stale(o) == SourceOf(ws, o).exists /\ SourceOf(ws, o).md5 # o.doc.md5
        failed(t) == SelectSeq(ws[t].files, LAMBDA f : ~f.ok)
    IN  [indexed |-> Len(primaries(ws)),
         shared |-> Len(Readable(ws)) - Len(primaries(ws)),
         skipped |-> Len(all) - Len(Readable(ws)),
         stale |-> Len(SelectSeq(all, stale)),
         parse_errors |-> Len(FlattenSeq([t \in DOMAIN ws |-> failed(t)]))]

-----------------------------------------------------------------------------
(* The identifier a rename would rewrite                                   *)

NoToken == [found |-> FALSE, text |-> <<>>]
Token(text) == [found |-> TRUE, text |-> text]

\* The code indexes the characters of the line with the columns of the span
token_at(lines, span) ==
    IF span.sl >= Len(lines) THEN NoToken
    ELSE LET line == lines[span.sl + 1]
             raw == SubSeq(line, span.sc + 1, span.ec)
             quoted == Len(raw) >= 2 /\ Head(raw) = Backquote /\ Last(raw) = Backquote
         IN  IF span.ec > Len(line) \/ span.sc > span.ec THEN NoToken
             ELSE Token(IF quoted THEN SubSeq(raw, 2, Len(raw) - 1) ELSE raw)

DisplayOf(docs, key) ==
    LET shown == InfoOf(docs, key).display IN IF shown = "" THEN display_name(key.sym) ELSE shown

\* Mutant: an extractor is written by its own name whatever group it is in
expected_token_plain(docs, groups, key) ==
    LET own == owner(key.sym)
    IN  CASE is_constructor(key.sym) -> display_name(own)
          [] OTHER -> DisplayOf(docs, key)

\* What the source reads where a key occurs: a constructor is written as its
\* class, a setter as its variable, apply as the class it belongs to
expected_token(docs, groups, key) ==
    LET own == owner(key.sym)
    IN  CASE ~IsGlobal(key) -> InfoOf(docs, key).display
          [] IsGlobal(key) /\ is_constructor(key.sym) -> display_name(own)
          [] IsGlobal(key) /\ is_setter(key.sym) -> display_name(key.sym)
          [] IsGlobal(key) /\ Extractor(key.sym) ->
               IF companion(own) # None /\ SameGroup(groups, key, Global(companion(own)))
               THEN display_name(own) ELSE display_name(key.sym)
          [] IsGlobal(key) /\ Ends(key.sym, "method") /\ ~is_constructor(key.sym)
             /\ ~Extractor(key.sym) -> display_name(key.sym)
          [] OTHER -> DisplayOf(docs, key)

rename_token_matches(docs, groups, occ, lines) ==
    LET token == token_at(lines, occ.span)
        expected == expected_token(docs, groups, occ.key)
    IN  /\ occ.span.sl = occ.span.el
        /\ token.found
        /\ expected # "" => token.text = <<expected>>

-----------------------------------------------------------------------------
(* The tables of the segment                                               *)

occ_flags_for(occ, facts) ==
    (IF occ.role = "def" THEN {"def"} ELSE {})
    \cup (IF facts = {} THEN {"editable"} ELSE facts \cap {"generated", "readonly"})
    \cup (IF occ.synthetic THEN {"synthetic"} ELSE {})

workspace_symbol_kind(kind) ==
    kind \in {"class", "trait", "interface", "object", "package object", "method", "macro",
              "type", "field"}

\* The first definition of a key in document order; doc 0 when it has none
NoDef == [doc |-> 0, span |-> [sl |-> 0, sc |-> 0, el |-> 0, ec |-> 0]]
DefOf(docs, key) ==
    LET at(d) == SelectSeq(docs[d].occurrences, LAMBDA o : o.key = key /\ o.role = "def")
        in == {d \in DOMAIN docs : at(d) # <<>>}
    IN  IF in = {} THEN NoDef ELSE [doc |-> Min(in), span |-> Head(at(Min(in))).span]

\* Every document as the tables hold it
Batch(ps) ==
    [d \in DOMAIN ps |-> normalize([symbols |-> ps[d].doc.symbols,
                                    occurrences |-> ps[d].doc.occurrences], d)]

\* The postings of every group, in document order; kept is a sequence of [key, posting]
Postings(groups, kept) ==
    LET mine(g) == SelectSeq(kept, LAMBDA k : k.key \in groups[g])
        of(rows) == [i \in DOMAIN rows |-> rows[i].posting]
    IN  [g \in DOMAIN groups |-> of(mine(g))]

SymbolRowOf(ps, docs, groups, key, def) ==
    [key |-> key, group |-> GroupOf(groups, key),
     def_target |-> IF def.doc = 0 THEN 0 ELSE ps[def.doc].target,
     kind |-> InfoOf(docs, key).kind, display |-> InfoOf(docs, key).display, def |-> def]

Tables(ws, prev, ps, docs, keys, groups, facts) ==
    LET posting(d, o) == [doc |-> d, epoch |-> epoch(prev, ps[d].doc), target |-> ps[d].target,
                          span |-> o.span, flags |-> occ_flags_for(o, facts[d])]
        posted(d, occs) == [i \in DOMAIN occs |->
                               [key |-> occs[i].key, posting |-> posting(d, occs[i])]]
        with_role(role) == FlattenSeq([d \in DOMAIN docs |->
            posted(d, SelectSeq(docs[d].occurrences, LAMBDA o : o.role = role))])
        renamed(d, o) == /\ facts[d] = {} /\ ~o.synthetic
                         /\ rename_token_matches(docs, groups, o, SourceOf(ws, ps[d]).lines)
        editable == FlattenSeq([d \in DOMAIN docs |->
            posted(d, SelectSeq(docs[d].occurrences, LAMBDA o : renamed(d, o)))])
    IN  [docs |-> [d \in DOMAIN ps |-> [uri |-> ps[d].doc.uri, target |-> ps[d].target,
                                        epoch |-> epoch(prev, ps[d].doc)]],
         batch |-> docs,
         symbols |-> [i \in DOMAIN keys |->
             SymbolRowOf(ps, docs, groups, keys[i], DefOf(docs, keys[i]))],
         refs |-> Postings(groups, with_role("ref")),
         defs |-> Postings(groups, with_role("def")),
         renames |-> Postings(groups, editable),
         profiles |-> [g \in DOMAIN groups |-> build_profile(docs, facts, groups[g])],
         doc_occs |-> [d \in DOMAIN docs |-> docs[d].occurrences],
         search |-> {k \in ToSet(keys) :
             IsGlobal(k) /\ DefOf(docs, k).doc # 0 /\ workspace_symbol_kind(InfoOf(docs, k).kind)},
         state |-> [u \in {p.doc.uri : p \in ToSet(ps)} |->
             LET p == CHOOSE q \in ToSet(ps) : q.doc.uri = u
             IN  [epoch |-> epoch(prev, p.doc), md5 |-> p.doc.md5]]]

IngestBatch(ws, prev, ps, docs) ==
    Tables(ws, prev, ps, docs, Keys(docs), build(docs), [d \in DOMAIN ps |-> FactsOf(ws, ps[d])])

IngestPrimaries(ws, prev, ps) == IngestBatch(ws, prev, ps, Batch(ps))

ingest(ws, prev) == IngestPrimaries(ws, prev, primaries(ws))
=============================================================================
