------------------------------- MODULE Queries -------------------------------
(***************************************************************************)
(* The queries of ls-engine over one published index (the result of        *)
(* IndexBuild!ingest) and the target graph: references, highlights,        *)
(* rename edits, definitions, implementations, outlines, call hierarchy.   *)
(*                                                                         *)
(* A scan of a group gives the group's postings and a cursor lookup the    *)
(* innermost occurrence: that the segment serves both exactly is checked   *)
(* for SegmentFormat.                                                      *)
(***************************************************************************)
EXTENDS IndexBuild

-----------------------------------------------------------------------------
(* targets.rs                                                              *)

dependents_of(ws, t) == {u \in DOMAIN ws : t \in ws[u].deps}

\* Breadth first along next[u]: every target is queued once, so the walk ends
closure(ws, t, next) ==
    LET visit(acc, n) ==
            IF acc.queue = <<>> THEN acc
            ELSE LET new == next[Head(acc.queue)] \ acc.seen
                 IN  [seen |-> acc.seen \cup new,
                      queue |-> Tail(acc.queue) \o SetToSortSeq(new, <)]
    IN  IF t \notin DOMAIN ws THEN {}
        ELSE FoldLeft(visit, [seen |-> {t}, queue |-> <<t>>], [n \in DOMAIN ws |-> n]).seen

reverse_dependency_closure(ws, t) == closure(ws, t, [u \in DOMAIN ws |-> dependents_of(ws, u)])
forward_dependency_closure(ws, t) == closure(ws, t, [u \in DOMAIN ws |-> ws[u].deps \cap DOMAIN ws])

-----------------------------------------------------------------------------
(* What a snapshot answers                                                 *)

Knows(idx, key) == \E s \in ToSet(idx.symbols) : s.key = key
SymbolRow(idx, key) == CHOOSE s \in ToSet(idx.symbols) : s.key = key

Pos(line, char) == [line |-> line, char |-> char]
Start(span) == Pos(span.sl, span.sc)
End(span) == Pos(span.el, span.ec)
NotAfter(p, q) == p.line < q.line \/ (p.line = q.line /\ p.char <= q.char)
span_order(a, b) ==
    \/ Start(a) # Start(b) /\ NotAfter(Start(a), Start(b))
    \/ Start(a) = Start(b) /\ End(a) # End(b) /\ NotAfter(End(a), End(b))

\* Packed positions: a line is wider than any column
LineWidth == 4096
PackedSize(span) == (span.el - span.sl) * LineWidth + span.ec - span.sc

\* The records of a document in the order scan_doc gives them
scan_doc(idx, d) == SortSeq(idx.doc_occs[d], LAMBDA o, p : span_order(o.span, p.span))

\* The occurrence under a position, 0 when there is none: the smallest span,
\* then the earliest start, then the first
occurrence_at(occs, p) ==
    LET around == {i \in DOMAIN occs : NotAfter(Start(occs[i].span), p)
                                       /\ NotAfter(p, End(occs[i].span))}
        before(i, j) == LET a == occs[i].span b == occs[j].span IN
            \/ PackedSize(a) < PackedSize(b)
            \/ PackedSize(a) = PackedSize(b) /\ Start(a) # Start(b) /\ NotAfter(Start(a), Start(b))
            \/ PackedSize(a) = PackedSize(b) /\ Start(a) = Start(b) /\ i <= j
    IN  IF around = {} THEN 0 ELSE CHOOSE i \in around : \A j \in around : before(i, j)

NoKey == [sym |-> None, doc |-> 0]
symbol_at(idx, d, p) ==
    LET occs == scan_doc(idx, d)
        i == occurrence_at(occs, p)
    IN  IF i = 0 THEN NoKey ELSE occs[i].key

Hit(r) == [doc |-> r.doc, span |-> r.span]

-----------------------------------------------------------------------------
(* references.rs, highlight.rs                                             *)

\* Mutant: only the direct dependents of the defining target are scanned
allowed_targets_for_direct(ws, idx, key) ==
    LET def == SymbolRow(idx, key).def_target
    IN  IF def = 0 THEN DOMAIN ws ELSE {def} \cup dependents_of(ws, def)

\* The targets a reference to the key may be in; all when its target is unknown
allowed_targets_for(ws, idx, key) ==
    LET def == SymbolRow(idx, key).def_target
        users == reverse_dependency_closure(ws, def)
    IN  IF def = 0 \/ users = {} THEN DOMAIN ws ELSE {def} \cup users

\* Duplicates of one place keep the first hit: the reference before the definition
references(ws, idx, key, include_declaration) ==
    LET g == SymbolRow(idx, key).group
        allowed == allowed_targets_for(ws, idx, key)
        in(recs) == SelectSeq(recs, LAMBDA r : r.target \in allowed)
    IN  {Hit(r) : r \in ToSet(in(idx.refs[g]))
                        \cup (IF include_declaration THEN ToSet(in(idx.defs[g])) ELSE {})}

highlights(idx, d, key) ==
    LET g == SymbolRow(idx, key).group
        here(recs) == {r \in ToSet(recs) : r.doc = d}
    IN  {[span |-> r.span, kind |-> IF "def" \in r.flags THEN "write" ELSE "read"] :
            r \in here(idx.refs[g]) \cup here(idx.defs[g])}

-----------------------------------------------------------------------------
(* rename.rs                                                               *)

\* The places a rename of the key rewrites; none when its profile refuses it
collect_edits(idx, key) ==
    LET g == SymbolRow(idx, key).group
    IN  IF idx.profiles[g] # {} THEN {} ELSE {Hit(r) : r \in ToSet(idx.renames[g])}

-----------------------------------------------------------------------------
(* orchestrator.rs: definitions                                            *)

\* The definitions of exactly this key in its group, in visible targets
ExactDefs(idx, key, visible) ==
    {r \in ToSet(idx.defs[SymbolRow(idx, key).group]) :
        /\ symbol_at(idx, r.doc, Start(r.span)) = key
        /\ r.target \in visible}

DocOf(idx, uri) == {d \in DOMAIN idx.docs : idx.docs[d].uri = uri}

Outside == 0     \* a file under no sourceroot

\* What the target that owns a document can see; everything when none owns it.
\* All targets have one sourceroot, so a file the index does not hold is taken
\* for the last target's, which max_by_key prefers among equals.
requesting_forward_closure(ws, idx, uri) ==
    LET docs == DocOf(idx, uri)
        target == IF docs = {} THEN Max(DOMAIN ws) ELSE idx.docs[Min(docs)].target
    IN  IF uri = Outside THEN DOMAIN ws ELSE forward_dependency_closure(ws, target)

symbol_definition(ws, idx, key, uri) ==
    IF ~Knows(idx, key) THEN {}
    ELSE {Hit(r) : r \in ExactDefs(idx, key, requesting_forward_closure(ws, idx, uri))}

HasOverrideFamily(idx, key) == "override" \in idx.profiles[SymbolRow(idx, key).group]

\* raw[d] is document d as the outputs hold it now
implementations(ws, idx, raw, key, uri) ==
    LET visible == requesting_forward_closure(ws, idx, uri)
        method == Ends(key.sym, "method") /\ ~is_constructor(key.sym)
        candidates == {s \in ToSet(idx.symbols) :
            /\ s.key # key /\ IsGlobal(s.key) /\ Ends(s.key.sym, "method")
            /\ Last(s.key.sym).name = Last(key.sym).name
            /\ HasOverrideFamily(idx, s.key)
            /\ s.def.doc # 0}
        overriders == {s \in candidates : key.sym \in InfoOf(<<raw[s.def.doc]>>, s.key).overridden}
    IN  IF ~method \/ ~IsGlobal(key) \/ ~Knows(idx, key) \/ ~HasOverrideFamily(idx, key)
        THEN {}
        ELSE UNION {{Hit(r) : r \in ExactDefs(idx, s.key, visible)} : s \in overriders}

\* The toplevel symbols of the first visible source that defines a symbol
definition_source_toplevels(ws, idx, key, uri) ==
    LET defs == ExactDefs(idx, key, requesting_forward_closure(ws, idx, uri))
        target == Min({r.target : r \in defs})
        doc == Min({r.doc : r \in {q \in defs : q.target = target}})
        occs == scan_doc(idx, doc)
        tops == SelectSeq(occs, LAMBDA o : o.role = "def" /\ IsGlobal(o.key)
                                           /\ enclosing_top_level(o.key.sym) = o.key.sym)
        names == [i \in DOMAIN tops |-> tops[i].key]
    IN  IF defs = {} THEN <<>>
        ELSE FoldLeft(LAMBDA acc, k : IF Contains(acc, k) THEN acc ELSE Append(acc, k), <<>>, names)

\* Fuzzy.matchesName: upper case query letters skip ahead, a mismatch of another
\* goes back behind the last pair of upper case letters that matched
fuzzy_matches_name(query, name) ==
    LET step(at, n) ==
            LET q == query[at.q]
                s == name[at.s]
            IN  IF at.done THEN at
                ELSE IF at.q > Len(query) THEN [at EXCEPT !.done = TRUE, !.match = TRUE]
                ELSE IF at.s > Len(name) THEN [at EXCEPT !.done = TRUE]
                ELSE IF q = s
                     THEN [at EXCEPT !.q = @ + 1, !.s = @ + 1,
                                     !.ql = IF q.upper THEN at.q ELSE @,
                                     !.sl = IF q.upper THEN at.s ELSE @]
                ELSE IF q.upper THEN [at EXCEPT !.s = @ + 1]
                ELSE IF at.ql = 0 THEN [at EXCEPT !.done = TRUE]
                ELSE [at EXCEPT !.q = at.ql, !.s = at.sl + 1, !.ql = 0, !.sl = 0]
        fuel == (Len(query) + 2) * (Len(name) + 2)
        start == [q |-> 1, s |-> 1, ql |-> 0, sl |-> 0, done |-> FALSE, match |-> FALSE]
    IN  FoldLeft(step, start, [n \in 1 .. fuel |-> n])

\* The methods a target can see whose name matches, with their definitions;
\* names[k] is the name of the symbol k, letter by letter
search_methods(ws, idx, query, t, names) ==
    LET seen == forward_dependency_closure(ws, t)
        visible == IF seen = {} THEN DOMAIN ws ELSE seen
        methods == {s \in ToSet(idx.symbols) : /\ IsGlobal(s.key) /\ Ends(s.key.sym, "method")
                                               /\ fuzzy_matches_name(query, names[s.key]).match}
    IN  UNION {{[key |-> s.key, hit |-> Hit(r)] : r \in ExactDefs(idx, s.key, visible)} :
                  s \in methods}
=============================================================================
