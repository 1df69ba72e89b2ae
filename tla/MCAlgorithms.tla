---------------------------- MODULE MCAlgorithms ----------------------------
(***************************************************************************)
(* The pure algorithms of the server on every input of a bounded set: the  *)
(* ones of MCProtocols and, here, those behind the index: alias groups and *)
(* rename profiles, the layout of a segment, workspace search, queries.    *)
(* Each step draws one input, and the invariants compare what the code     *)
(* computes for it with a direct definition of what it should compute.     *)
(***************************************************************************)
EXTENDS MCEditor

CONSTANT SharedSources   \* a definition may be compiled by two targets

-----------------------------------------------------------------------------
(* Alias groups                                                            *)

D(kind, name) == [kind |-> kind, name |-> name, sig |-> 0]
Obj(name) == <<D("term", name)>>
Cls(name) == <<D("type", name)>>
Def(own, name) == Append(own, D("method", name))
GlobalKey(sym) == [sym |-> sym, doc |-> 0]
LocalKey(doc) == [sym |-> <<D("local", "x")>>, doc |-> doc]

\* A class with its companion and constructor, and another class and object
ClassKeys ==
    <<GlobalKey(Cls("C")), GlobalKey(Def(Cls("C"), "<init>")), GlobalKey(Obj("C")),
      GlobalKey(Def(Obj("C"), "apply")), GlobalKey(Cls("D")), GlobalKey(Obj("D")),
      GlobalKey(Def(Obj("D"), "apply"))>>

\* A variable with its setter, methods of one name elsewhere, and a local
MethodKeys ==
    <<GlobalKey(Cls("C")), GlobalKey(Def(Cls("C"), "m")),
      GlobalKey(Append(Cls("C"), D("setter", "m"))), GlobalKey(Append(Cls("C"), D("term", "m"))),
      GlobalKey(Def(Cls("D"), "m")), GlobalKey(Def(Obj("E"), "m")),
      LocalKey(1), LocalKey(2)>>

G == INSTANCE IndexBuild WITH KeyOrder <- ClassKeys \o Tail(MethodKeys)

KindOf(key) ==
    CASE Last(key.sym).kind \in {"method", "setter"} -> "method"
      [] Last(key.sym).kind = "type" -> "class"
      [] Last(key.sym).kind = "term" -> "object"
      [] OTHER -> "local"

\* How a key shows up in the batch: not at all, used, synthesized, or defined
Statuses == {"absent", "used", "info", "defined"}

InfoFor(key, flags) ==
    [kind |-> KindOf(key), display |-> Last(key.sym).name,
     overridden |-> IF "override" \in flags THEN {Def(Obj("E"), "m")} ELSE {},
     opaque |-> "opaque" \in flags]

SymbolFor(key, flags) == [key |-> key, info |-> InfoFor(key, flags)]
OccFor(key, role) == [key |-> key, role |-> role, ranged |-> TRUE]

\* Document 1 holds the definitions and document 2 the uses, but for its own local
RawBatch(keys, status, flags) ==
    LET where(i) == IF keys[i].doc = 2 THEN 2 ELSE 1
        of(d, in) == SelectSeq([i \in DOMAIN keys |-> i],
                               LAMBDA i : where(i) = d /\ status[i] \in in)
        flag(i) == IF KindOf(keys[i]) = "method" THEN flags ELSE {}
        uses == SelectSeq([i \in DOMAIN keys |-> i],
                    LAMBDA i : status[i] = "used" /\ keys[i].doc # 1)
        doc(d) == [symbols |-> LET s == of(d, {"info", "defined"})
                               IN  [n \in DOMAIN s |-> SymbolFor(keys[s[n]], flag(s[n]))],
                   occurrences |-> LET s == of(d, {"defined"})
                                   IN  [n \in DOMAIN s |-> OccFor(keys[s[n]], "def")]
                                       \o IF d = 1 THEN <<>>
                                          ELSE [n \in DOMAIN uses |-> OccFor(keys[uses[n]], "ref")]]
    IN  <<doc(1), doc(2)>>

\* A batch, the facts about its two documents and the groups the code makes of it
Grouped(docs, facts) ==
    sample' = [alg |-> "groups", docs |-> docs, facts |-> facts, groups |-> G!build(docs)]

Batch(raw) == [d \in DOMAIN raw |-> G!normalize(raw[d], d)]

SampleClasses ==
    \E status \in [DOMAIN ClassKeys -> Statuses] :
        /\ \A i \in {5, 6} : status[i] \in {"absent", "defined"}
        /\ Grouped(Batch(RawBatch(ClassKeys, status, {})), <<{}, {}>>)

SampleMethods ==
    \E status \in [DOMAIN MethodKeys -> Statuses], flags \in {{}, {"override"}, {"opaque"}} :
        /\ status[1] \in {"absent", "defined"}
        /\ flags # {} => status[4] = "absent" /\ status[5] = "used"
        /\ \A i \in {4, 7, 8} : status[i] \in {"absent", "defined"}
        /\ Grouped(Batch(RawBatch(MethodKeys, status, flags)), <<{}, {}>>)

FactSets == {{}, {"generated"}, {"readonly"}, {"dependency"}}

SampleFacts ==
    \E status \in [1 .. 4 -> Statuses], here, there \in FactSets :
        Grouped(Batch(RawBatch(SubSeq(ClassKeys, 1, 4), status, {})), <<here, there>>)

\* Two keys of the batch that denote one thing by the merge policy
SameThing(a, b) ==
    /\ a.doc = 0 /\ b.doc = 0
    /\ \/ G!is_constructor(a.sym) /\ b.sym = G!owner(a.sym)
       \/ G!Extractor(a.sym) /\ b.sym = G!companion(G!owner(a.sym))
       \/ G!Ends(a.sym, "type") /\ b.sym = G!companion(a.sym)
       \/ /\ G!is_setter(a.sym) /\ G!owner(b.sym) = G!owner(a.sym)
          /\ Last(b.sym).kind \in {"method", "term"} /\ Last(b.sym).name = Last(a.sym).name

\* A method without a body and the only method with one it can be an export of
ExportOf(bodies, a, b) ==
    /\ a.doc = 0 /\ G!Ends(a.sym, Last(b.sym).kind)
    /\ {k \in bodies : Last(k.sym) = Last(a.sym)} = {b}

\* The pairs of keys of the batch that the alias rules link directly
Linked(keys, methods, bodies) ==
    {p \in keys \X keys : \/ SameThing(p[1], p[2])
                          \/ p[1] \in methods \ bodies /\ p[2] \in bodies
                             /\ ExportOf(bodies, p[1], p[2])}

\* What a key is linked to in any number of steps
Class(keys, linked, k) ==
    LET grow(class, n) == class \cup
            {j \in keys : \E i \in class : <<i, j>> \in linked \/ <<j, i>> \in linked}
    IN  FoldLeft(grow, {k}, [n \in 1 .. Cardinality(keys) |-> n])

\* keys: in the order of the code; linked: the links among them
ClassesInOrder(groups, keys, linked) ==
    LET least(g) == Min({i \in DOMAIN keys : keys[i] \in groups[g]})
    IN  /\ \A g \in DOMAIN groups : \A k \in groups[g] : groups[g] = Class(ToSet(keys), linked, k)
        /\ UNION ToSet(groups) = ToSet(keys)
        /\ \A g, h \in DOMAIN groups : g < h => least(g) < least(h)

LinkedOf(docs, keys, methods) == Linked(ToSet(keys), methods, methods \cap G!Defined(docs))

(* The groups of a batch are exactly the classes of keys linked by the      *)
(* alias rules in any number of steps, each key is in one group, and the    *)
(* groups come in the order of their least keys (build and UnionFind,       *)
(* groups.rs).                                                              *)
GroupsExact ==
    sample.alg = "groups" =>
        \A keys \in {G!Keys(sample.docs)} :
        \A linked \in {LinkedOf(sample.docs, keys, G!GlobalMethods(sample.docs, keys))} :
            ClassesInOrder(sample.groups, keys, linked)

Safe(group) == G!build_profile(sample.docs, sample.facts, group) = {}

(* A group the profile calls safe to rename is defined in the batch, is     *)
(* written in documents the user may edit and nowhere else, joins no method *)
(* another one overrides, and holds no method whose body is found elsewhere; *)
(* and all its members are written by one name, so a rename never turns two *)
(* names into one (semantic_mask, groups.rs; build_profiles, profile.rs;    *)
(* expected_token, ingest.rs).                                              *)
SafeGroupsEditable ==
    sample.alg = "groups" =>
        \A defined \in {G!Defined(sample.docs)} :
        \A group \in {g \in ToSet(sample.groups) : Safe(g)} :
            /\ group \cap defined # {}
            /\ \A d \in DOMAIN sample.docs : \A o \in ToSet(sample.docs[d].occurrences) :
                 o.key \in group => sample.facts[d] = {}
            /\ \A k \in group : k \notin defined /\ G!IsMethod(sample.docs, k)
                 => ~ \E j \in group : G!owner(j.sym) # G!owner(k.sym)
                                       /\ Last(j.sym) = Last(k.sym)
            /\ \A k \in group : \A info \in {G!InfoOf(sample.docs, k)} :
                 info.overridden = {} /\ ~info.opaque
            /\ Cardinality({G!expected_token(sample.docs, sample.groups, k) : k \in group}) = 1

-----------------------------------------------------------------------------
(* Segments: three documents of two targets, blocks of two records         *)

F == INSTANCE SegmentFormat WITH BlockSize <- 2, CharMask <- 3, LineMax <- 3

DocTargets == <<1, 2, 1>>
Targets == 1 .. 2

Word(line, char) == [sl |-> line, sc |-> char, el |-> line, ec |-> char + 1]

Posting(doc, span, flags) ==
    [doc |-> doc, epoch |-> doc, target |-> DocTargets[doc], span |-> span, flags |-> flags]

PostingPool ==
    {Posting(d, Word(line, 0), flags) :
        d \in 1 .. 3, line \in {0, 1}, flags \in {{}, {"editable"}, {"def", "editable"}}}

\* The caller gives the records in any order: here the reverse of the final one
Backwards(set) == SortSeq(SetToSeq(set), LAMBDA p, q : F!RecordBefore(F!Record(q), F!Record(p)))

SpanPool ==
    {Word(0, 0), Word(0, 1), Word(1, 2), Word(2, 0),
     [sl |-> 0, sc |-> 0, el |-> 0, ec |-> 2], [sl |-> 0, sc |-> 1, el |-> 2, ec |-> 0],
     [sl |-> 1, sc |-> 0, el |-> 2, ec |-> 1], [sl |-> 0, sc |-> 0, el |-> 3, ec |-> 3]}

Symbols == <<[name |-> 3, ref_group |-> 2, rename_group |-> 0, def_target |-> 0],
             [name |-> 1, ref_group |-> 1, rename_group |-> 1, def_target |-> 2]>>

Data(group, other, spans) ==
    LET defs == {p \in group : "def" \in p.flags}
        occs == SetToSeq(spans)
    IN  [docs |-> [d \in 1 .. 3 |-> [epoch |-> d, target |-> DocTargets[d]]],
         targets |-> 2, symbols |-> Symbols,
         refs |-> <<Backwards(group), Backwards(other)>>, defs |-> <<Backwards(defs), <<>>>>,
         renames |-> <<Backwards({p \in group : "editable" \in p.flags})>>,
         doc_occs |-> <<[i \in DOMAIN occs |-> [sym |-> 1 + (i % 2), span |-> occs[i], flags |-> {}]],
                        <<>>, <<[sym |-> 2, span |-> Word(1, 1), flags |-> {"def"}]>>>>,
         search |-> <<[name |-> 5, sym |-> 2], [name |-> 4, sym |-> 1]>>]

SmallSets(pool, n) == UNION {kSubset(k, pool) : k \in 0 .. n}

\* What a caller gives the writer, and the segment it writes
WrittenFor(data) == sample' = [alg |-> "segment", data |-> data, segment |-> F!write(data)]

SamplePostings ==
    \E group \in SmallSets(PostingPool, 3), other \in {{}, {Posting(2, Word(2, 0), {})}} :
        WrittenFor(Data(group, other, {}))

SampleDocSpans ==
    \E spans \in SmallSets(SpanPool, 4) :
        WrittenFor(Data({}, {}, spans))

\* What a direct look at the records of a group gives
Matching(seg, postings, g, allowed, editable) ==
    LET e == postings.entries[g]
    IN  SelectSeq(SubSeq(postings.records, e.offset + 1, e.offset + e.count),
            LAMBDA r : /\ r.target \in allowed /\ r.epoch = seg.doc.docs[r.doc].epoch
                       /\ editable => "editable" \in r.flags)

ScansExact(seg) ==
    /\ \A g \in DOMAIN seg.refs.entries : \A allowed \in SUBSET Targets :
         F!scan_ref_group(seg, g, allowed) = Matching(seg, seg.refs, g, allowed, FALSE)
    /\ \A g \in DOMAIN seg.defs.entries :
         F!scan_def_group(seg, g) = Matching(seg, seg.defs, g, Targets, FALSE)
    /\ \A g \in DOMAIN seg.renames.entries :
         F!scan_rename_group(seg, g) = Matching(seg, seg.renames, g, Targets, TRUE)

\* The smallest of the spans around a position, 0 where there is none
Smallest(records, query) ==
    LET around == {i \in DOMAIN records : records[i].start <= query /\ query <= records[i].end}
        size(i) == records[i].end - records[i].start
    IN  IF around = {} THEN 0 ELSE Min({size(i) : i \in around})

CursorsExact(seg) ==
    \A d \in DOMAIN seg.doc.docs : \A line, char \in 0 .. 3 :
        LET r == F!symbol_at(seg, d, line, char)
            rec == seg.doc.records[r]
            query == F!pack(line, char)
        IN  IF r = 0 THEN \A i \in DOMAIN F!scan_doc(seg, d) :
                            LET o == F!scan_doc(seg, d)[i] IN ~(o.start <= query /\ query <= o.end)
            ELSE /\ rec \in ToSet(F!scan_doc(seg, d))
                 /\ rec.start <= query /\ query <= rec.end
                 /\ rec.end - rec.start = Smallest(F!scan_doc(seg, d), query)

SameRecords(records, occs) ==
    LET count(s, r) == Cardinality({i \in DOMAIN s : s[i] = r})
        wanted == [i \in DOMAIN occs |-> F!Record(occs[i])]
    IN  Len(records) = Len(wanted) /\ \A r \in ToSet(wanted) : count(records, r) = count(wanted, r)

(* A segment the writer lays out is one the reader opens; every posting     *)
(* given to the writer comes back from a scan of its group, filtered by     *)
(* target or not, and the cursor lookup finds the innermost occurrence,     *)
(* whatever block or interval it lies in (layout_groups and                 *)
(* build_doc_files, writer.rs; validate_structure, scan_group and           *)
(* symbol_at_counting, reader.rs).                                          *)
WrittenSegmentsServe ==
    sample.alg = "segment" =>
        LET data == sample.data
            seg == sample.segment
        IN  /\ F!Writable(data) /\ F!validate_structure(seg)
            /\ ScansExact(seg) /\ CursorsExact(seg)
            /\ \A g \in DOMAIN data.refs : SameRecords(F!scan_ref_group(seg, g, Targets), data.refs[g])
            /\ \A g \in DOMAIN data.renames : SameRecords(F!scan_rename_group(seg, g), data.renames[g])
            /\ \A s \in DOMAIN data.symbols :
                 LET p == F!find_symbol_ord(seg, data.symbols[s].name)
                 IN  p > 0 /\ seg.symbols[p] = data.symbols[s]
            /\ F!find_symbol_ord(seg, 2) = 0

\* One value of the files changed, the checksums made to match again
Damaged(seg) ==
    {[seg EXCEPT !.blocks[b].targets = t] : b \in DOMAIN seg.blocks, t \in SUBSET Targets}
    \cup {[seg EXCEPT !.blocks[b].editable = n] : b \in DOMAIN seg.blocks, n \in 0 .. 2}
    \cup {[seg EXCEPT !.blocks[b].first = n] : b \in DOMAIN seg.blocks, n \in 1 .. 3}
    \cup {[seg EXCEPT !.blocks[b].count = n] : b \in DOMAIN seg.blocks, n \in 1 .. 3}
    \cup {[seg EXCEPT !.refs.entries[g] = [@ EXCEPT !.count = n]] :
            g \in DOMAIN seg.refs.entries, n \in 0 .. 4}
    \cup {[seg EXCEPT !.refs.entries[g] = [@ EXCEPT !.block = n]] :
            g \in DOMAIN seg.refs.entries, n \in 0 .. 3}
    \cup {[seg EXCEPT !.refs.records[r] = [@ EXCEPT !.target = t]] :
            r \in DOMAIN seg.refs.records, t \in 1 .. 3}
    \cup {[seg EXCEPT !.refs.records[r] = [@ EXCEPT !.doc = d]] :
            r \in DOMAIN seg.refs.records, d \in 1 .. 4}
    \cup {[seg EXCEPT !.renames.records[r] = [@ EXCEPT !.flags = {}]] : r \in DOMAIN seg.renames.records}
    \cup {[seg EXCEPT !.doc.intervals[k] = [@ EXCEPT !.last_line = n]] :
            k \in DOMAIN seg.doc.intervals, n \in 0 .. 3}
    \cup {[seg EXCEPT !.doc.intervals[k] = [@ EXCEPT !.first_line = n]] :
            k \in DOMAIN seg.doc.intervals, n \in 0 .. 3}
    \cup {[seg EXCEPT !.doc.records[r] = [@ EXCEPT !.start = n]] :
            r \in DOMAIN seg.doc.records, n \in {0, 5, 12}}
    \cup {[seg EXCEPT !.doc.docs[d] = [@ EXCEPT !.count = n]] : d \in DOMAIN seg.doc.docs, n \in 0 .. 4}

SampleDamage ==
    \E flags \in [1 .. 3 -> {{}, {"editable"}}], spans \in SmallSets(SpanPool, 3) :
        LET group == {Posting(d, Word(0, 0), flags[d]) : d \in 1 .. 3}
            seg == F!write(Data(group, {}, spans))
        IN  \E bad \in Damaged(seg) : sample' = [alg |-> "damaged_segment", segment |-> bad]

(* A segment that differs from what was written, even where checksums       *)
(* agree, is either refused or still served exactly: no scan loses          *)
(* a record to skip metadata that does not describe the records             *)
(* (validate_structure and validate_block, reader.rs).                      *)
OpenedSegmentsExact ==
    sample.alg = "damaged_segment" =>
        (F!validate_structure(sample.segment) =>
            ScansExact(sample.segment) /\ CursorsExact(sample.segment))

-----------------------------------------------------------------------------
(* Workspace search                                                        *)

S == INSTANCE SymbolSearch WITH FuzzyCandidateCap <- 1

Ch(low, cls) == [low |-> low, cls |-> cls]
a == Ch(1, "lower")
A == Ch(1, "upper")
b == Ch(2, "lower")
B == Ch(2, "upper")
Dot == Ch(0, "sep")

SampleScore ==
    \E query \in BoundedSeq({a, b}, 3), name \in BoundedSeq({a, A, b, Dot}, 4) :
        sample' = [alg |-> "score", query |-> query, name |-> name]

\* The places of name a query may be embedded at, in order
Embeddings(query, name) ==
    {e \in [DOMAIN query -> DOMAIN name] :
        /\ \A i, j \in DOMAIN query : i < j => e[i] < e[j]
        /\ \A i \in DOMAIN query : name[e[i]].low = query[i]}

(* The score of a fuzzy match counts the camel humps of the best way to     *)
(* place the query in the name, and there is no score exactly when there is *)
(* no way at all (score and max_hump_hits, search.rs).                      *)
ScoreIsBestMatch ==
    sample.alg = "score" =>
        LET nq == S!normalize(sample.query)
            nn == S!normalized_with_humps(sample.name)
            found == S!max_hump_hits(nq, nn)
            hits(e) == Cardinality({i \in DOMAIN nq : nn[e[i]].hump})
        IN  IF Embeddings(nq, nn) = {} THEN found = S!NoMatch
            ELSE found = Max({hits(e) : e \in Embeddings(nq, nn)})

Displays == {<<a>>, <<A>>, <<a, b>>, <<a, B>>, <<b, A>>, <<a, Dot, b>>, <<b>>}

SampleSearch ==
    \E names \in [1 .. 3 -> Displays], own \in [1 .. 3 -> {<<>>, <<a>>}],
       query \in {<<a>>, <<b>>, <<a, b>>, <<a, Dot, b>>, <<Dot>>}, limit \in {0, 1, 3} :
        sample' = [alg |-> "search", query |-> query, limit |-> limit,
                   rows |-> [r \in 1 .. 3 |->
                       [display |-> names[r], owner |-> own[r], package |-> <<>>, sym |-> r]]]

(* A search answers only rows it matches, best first, and the cap on fuzzy  *)
(* candidates never costs an exact answer: when a one-word name equals the  *)
(* query, an exact match comes first (workspace_symbol_search, search.rs).  *)
ExactNameFirst ==
    sample.alg = "search" =>
        LET name(r) == sample.rows[r].display
        IN  \A hits \in {S!workspace_symbol_search(sample.rows, sample.query, sample.limit)},
               points \in {[r \in DOMAIN sample.rows |-> S!score(sample.query, name(r))]},
               words \in {S!field_tokens(sample.query)} :
            LET exact == {r \in DOMAIN sample.rows :
                             Len(words) = 1 /\ S!field_tokens(name(r)) = words}
            IN
            /\ Len(hits) <= sample.limit
            /\ IsInjective(hits)
            /\ \A i \in DOMAIN hits :
                 points[hits[i]] # S!NoScore \/ hits[i] \in S!PrefixAnd(sample.rows, words)
            /\ \A i, j \in DOMAIN hits : i < j => points[hits[i]] >= points[hits[j]]
            /\ exact # {} /\ sample.limit > 0 => hits # <<>> /\ S!normalize(name(hits[1])) = S!normalize(sample.query)

-----------------------------------------------------------------------------
(* Queries: three targets, one document each, over every acyclic graph     *)

Graphs3 ==
    {<<{}, x, y>> : x \in SUBSET {1}, y \in SUBSET {1, 2}}
    \cup {<<x, y, {}>> : x \in SUBSET {2, 3}, y \in SUBSET {3}}

ClassC == GlobalKey(Cls("C"))
MakeC == GlobalKey(Def(Cls("C"), "<init>"))
MethodOf(name) == GlobalKey(Def(Cls(name), "m"))
InnerI == GlobalKey(Append(Cls("C"), D("term", "i")))
InnerM == GlobalKey(Append(InnerI.sym, D("method", "m")))
UseOf(t) == GlobalKey(Def(Obj("U"), <<"f", "g", "h">>[t]))

QueryKeys == <<ClassC, MakeC, GlobalKey(Obj("C")), GlobalKey(Def(Obj("C"), "k")), MethodOf("A"),
               MethodOf("B"), MethodOf("C"), GlobalKey(Def(Cls("C"), "n")), InnerI, InnerM, GlobalKey(Cls("D")),
               GlobalKey(Obj("U")), UseOf(1), UseOf(2), UseOf(3)>>

Q == INSTANCE Outline WITH KeyOrder <- QueryKeys

Sees(deps, t) ==
    LET grow(seen, n) == seen \cup UNION {deps[u] : u \in seen} IN FoldLeft(grow, {t}, <<1, 2, 3>>)

At(line, from, to) == [sl |-> line, sc |-> from, el |-> line, ec |-> to]
Occ(key, role, span) ==
    [key |-> key, role |-> role, ranged |-> TRUE, synthetic |-> FALSE, span |-> span]
SymbolOf(key, overridden) ==
    [key |-> key, info |-> [kind |-> KindOf(key), display |-> Last(key.sym).name,
                            overridden |-> overridden, opaque |-> FALSE]]

\* class C / def m: the constructor is written nowhere, after the class name
Definer(uri) ==
    [uri |-> uri, md5 |-> uri,
     symbols |-> <<SymbolOf(ClassC, {}), SymbolOf(MakeC, {}), SymbolOf(MethodOf("C"), {})>>,
     occurrences |-> <<Occ(ClassC, "def", At(0, 2, 3)), Occ(MakeC, "def", At(0, 3, 3)),
                       Occ(MethodOf("C"), "def", At(1, 2, 3))>>]
DefinerLines == <<<<"class", " ", "C">>, <<"def", " ", "m">>>>

\* import C / def f = new C().m
User(t) ==
    [uri |-> t, md5 |-> t, symbols |-> <<SymbolOf(UseOf(t), {})>>,
     occurrences |-> <<Occ(ClassC, "ref", At(0, 2, 3)), Occ(UseOf(t), "def", At(1, 2, 3)),
                       Occ(MakeC, "ref", At(1, 4, 5)), Occ(MethodOf("C"), "ref", At(1, 6, 9))>>]
UserLines(t) ==
    <<<<"import", " ", "C">>,
      <<"def", " ", Last(UseOf(t).sym).name, " ", "C", ".", "bq", "m", "bq">>>>

Quiet(uri) == [uri |-> uri, md5 |-> uri, symbols |-> <<>>, occurrences |-> <<>>]

\* Every target has all sources; the owners define C, in one document or each
WorkspaceOf(deps, owners, shared) ==
    LET sees(t) == Sees(deps, t) \cap owners # {}
        doc(t) == IF t \in owners THEN Definer(IF shared THEN 9 ELSE t)
                  ELSE IF sees(t) THEN User(t) ELSE Quiet(t)
        lines(u) == IF u = 9 \/ u \in owners THEN DefinerLines
                    ELSE IF sees(u) THEN UserLines(u) ELSE <<>>
    IN  [t \in 1 .. 3 |->
            [deps |-> deps[t], files |-> <<[ok |-> TRUE, docs |-> <<doc(t)>>]>>,
             sources |-> [u \in {1, 2, 3, 9} |-> [md5 |-> u, lines |-> lines(u), exists |-> TRUE]],
             facts |-> [u \in {1, 2, 3, 9} |-> {}]]]

NoHistory == [u \in {} |-> 0]

\* A workspace and its index; about: what the workspace was made from
Ingested(alg, about, ws) ==
    sample' = [alg |-> alg, about |-> about, ws |-> ws, idx |-> Q!ingest(ws, NoHistory)]

SampleWorkspace ==
    \E deps \in Graphs3, owners \in SmallSets(1 .. 3, IF SharedSources THEN 2 ELSE 1) :
        Ingested("workspace", deps, WorkspaceOf(deps, owners, TRUE))

SampleDuplicates ==
    \E deps \in Graphs3, owners \in SmallSets(1 .. 3, 3) :
        Ingested("duplicates", deps, WorkspaceOf(deps, owners, FALSE))

\* Every place a key of the group is written, as the documents say
UsesOf(idx, g) ==
    UNION {{[doc |-> d, span |-> o.span] : o \in
              {p \in ToSet(idx.batch[d].occurrences) : Q!SymbolRow(idx, p.key).group = g}} :
              d \in DOMAIN idx.docs}

(* From any place a symbol is written, references finds every place it is   *)
(* written in the workspace: no target outside the reverse dependency       *)
(* closure of the defining one holds a use of it; and highlighting finds    *)
(* the ones of its document (snapshot_hits, references.rs;                  *)
(* allowed_targets_for, orchestrator.rs; snapshot_highlights, highlight.rs). *)
ReferencesComplete ==
    sample.alg = "workspace" =>
        LET idx == sample.idx
        IN  \A d \in DOMAIN idx.docs : \A o \in ToSet(idx.batch[d].occurrences) :
                LET all == UsesOf(idx, Q!SymbolRow(idx, o.key).group)
                    marked == {h.span : h \in Q!highlights(idx, d, o.key)}
                IN  /\ Q!references(sample.ws, idx, o.key, TRUE) = all
                    /\ marked = {w.span : w \in {v \in all : v.doc = d}}

\* The source text of a place, a backquoted name without its quotes
TextAt(ws, idx, w) ==
    LET line == ws[idx.docs[w.doc].target].sources[idx.docs[w.doc].uri].lines[w.span.sl + 1]
        raw == SubSeq(line, w.span.sc + 1, w.span.ec)
    IN  SelectSeq(raw, LAMBDA c : c # "bq")

(* A rename of a symbol rewrites every place of its group where the source  *)
(* shows its name, and no other place: constructors are written as their    *)
(* class, and a name between backquotes is the name (rename_token_matches   *)
(* and expected_token, ingest.rs; collect_edits, rename.rs).                *)
RenameComplete ==
    sample.alg = "workspace" =>
        LET idx == sample.idx
            name(k) == IF Q!is_constructor(k.sym) THEN "C" ELSE Last(k.sym).name
        IN  \A k \in {s.key : s \in ToSet(idx.symbols)} :
                LET g == Q!SymbolRow(idx, k).group
                IN  idx.profiles[g] = {} =>
                        Q!collect_edits(idx, k) =
                            {w \in UsesOf(idx, g) : TextAt(sample.ws, idx, w) = <<name(k)>>}

(* Going to the definition of a symbol from a document gives exactly the    *)
(* definitions of that symbol, not of the others of its group, that the     *)
(* document's target can see, however many targets define it, and all of    *)
(* them from a file outside the workspace; and a search for methods finds   *)
(* the same ones (symbol_definition, search_methods and                     *)
(* requesting_forward_closure, orchestrator.rs).                            *)
DefinitionExact ==
    sample.alg = "duplicates" =>
        LET idx == sample.idx
            visible(d, e) == idx.docs[e].target \in Sees(sample.about, idx.docs[d].target)
            written(k, docs) == UNION {{[doc |-> e, span |-> o.span] : o \in
                {p \in ToSet(idx.batch[e].occurrences) : p.key = k /\ p.role = "def"}} :
                    e \in docs}
            defs(k, d) == written(k, {f \in DOMAIN idx.docs : visible(d, f)})
            letters == [k \in {s.key : s \in ToSet(idx.symbols)} |->
                           <<[name |-> Last(k.sym).name, upper |-> FALSE]>>]
            methods(d) == Q!search_methods(sample.ws, idx, <<[name |-> "m", upper |-> FALSE]>>,
                                           idx.docs[d].target, letters)
        IN  /\ \A d \in DOMAIN idx.docs :
                /\ \A s \in ToSet(idx.symbols) :
                     Q!symbol_definition(sample.ws, idx, s.key, idx.docs[d].uri) = defs(s.key, d)
                /\ {h.hit : h \in methods(d)} = defs(MethodOf("C"), d)
                /\ defs(ClassC, d) # {} =>
                     Q!definition_source_toplevels(sample.ws, idx, MakeC, idx.docs[d].uri) = <<ClassC>>
            /\ \A s \in ToSet(idx.symbols) :
                 Q!symbol_definition(sample.ws, idx, s.key, Q!Outside) =
                     written(s.key, DOMAIN idx.docs)

-----------------------------------------------------------------------------
(* Override families: A, B and C each have a method m in a target of their *)
(* own, and a class may extend others its target can see                   *)

SampleFamily ==
    \E deps \in Graphs3, extends \in [1 .. 3 -> SUBSET (1 .. 3)] :
        LET name(t) == <<"A", "B", "C">>[t]
            over(t) == {MethodOf(name(u)).sym : u \in extends[t]}
            doc(t) == [uri |-> t, md5 |-> t, symbols |-> <<SymbolOf(MethodOf(name(t)), over(t))>>,
                       occurrences |-> <<Occ(MethodOf(name(t)), "def", At(0, 0, 1))>>]
        IN  /\ \A t \in 1 .. 3 : extends[t] \subseteq Sees(deps, t) \ {t}
            /\ \A t \in 1 .. 3 : \A u \in extends[t] : extends[u] \subseteq extends[t]
            /\ Ingested("family", [deps |-> deps, extends |-> extends],
                   [t \in 1 .. 3 |->
                        [deps |-> deps[t], files |-> <<[ok |-> TRUE, docs |-> <<doc(t)>>]>>,
                         sources |-> [u \in 1 .. 3 |->
                             [md5 |-> u, lines |-> <<<<"m">>>>, exists |-> TRUE]],
                         facts |-> [u \in 1 .. 3 |-> {}]]])

(* The implementations of a method are the definitions of the methods that  *)
(* list it as overridden, in the targets the asking document can see: the   *)
(* flag that keeps the index from reading every output loses none of them   *)
(* (implementations and group_has_override_family, orchestrator.rs;         *)
(* semantic_mask, groups.rs).                                               *)
ImplementationsExact ==
    sample.alg = "family" =>
        LET idx == sample.idx
            key(t) == MethodOf(<<"A", "B", "C">>[t])
        IN  \A t, from \in 1 .. 3 :
                Q!implementations(sample.ws, idx, idx.batch, key(t), from) =
                    {[doc |-> u, span |-> At(0, 0, 1)] :
                        u \in {v \in Sees(sample.about.deps, from) : t \in sample.about.extends[v]}}

-----------------------------------------------------------------------------
(* Outlines and calls: the definitions of one document in several layouts,  *)
(* each item on a new line or not, and a use of another document's method   *)

DefC == GlobalKey(Obj("C"))
DefK == GlobalKey(Def(Obj("C"), "k"))
DefM == MethodOf("C")
DefN == GlobalKey(Def(Cls("C"), "n"))
DefD == GlobalKey(Cls("D"))
Used == UseOf(1)

Layouts == {<<ClassC, DefM, DefN>>, <<ClassC, DefM, DefD>>, <<ClassC, DefM, DefC, DefK>>,
            <<DefC, DefK, ClassC, DefM>>, <<ClassC, DefK, DefD>>, <<DefD, ClassC, DefM, DefM>>,
            <<ClassC, InnerI, InnerM, DefM>>, <<DefK, DefM>>}

\* Two uses anywhere among the definitions; breaks: the items that start a line
Items(layout, p, q) ==
    LET defs == [i \in DOMAIN layout |-> [key |-> layout[i], role |-> "def"]]
        use == <<[key |-> Used, role |-> "ref"]>>
    IN  SubSeq(defs, 1, p) \o use \o SubSeq(defs, p + 1, q) \o use
            \o SubSeq(defs, q + 1, Len(defs))

SampleLayout ==
    \E layout \in Layouts : \E p, q \in 0 .. Len(layout) :
        \E breaks \in SUBSET (2 .. Len(layout) + 2) :
            LET items == Items(layout, p, q)
                line(i) == Cardinality({br \in breaks : br <= i})
                col(i) == 2 * Cardinality({j \in 1 .. i - 1 : line(j) = line(i)})
                doc == [uri |-> 1, md5 |-> 1,
                        symbols |-> [i \in DOMAIN layout |-> SymbolOf(layout[i], {})],
                        occurrences |-> [i \in DOMAIN items |->
                            Occ(items[i].key, items[i].role, At(line(i), col(i), col(i) + 1))]]
                other == [uri |-> 2, md5 |-> 2, symbols |-> <<SymbolOf(Used, {})>>,
                          occurrences |-> <<Occ(Used, "def", At(0, 0, 1))>>]
            IN  /\ p <= q
                /\ Ingested("layout", layout,
                       <<[deps |-> {}, files |-> <<[ok |-> TRUE, docs |-> <<doc, other>>]>>,
                          sources |-> [u \in 1 .. 2 |->
                              [md5 |-> u, lines |-> <<>>, exists |-> TRUE]],
                          facts |-> [u \in 1 .. 2 |-> {}]]>>)

Source == <<<<>>, <<>>>>

(* The two directions of the usage hierarchy agree: when a definition is    *)
(* listed as the caller at some place, its own outgoing calls list the      *)
(* called symbol at that place; and every use outside imports has a caller  *)
(* (enclosing_entry_index, incoming_calls and outgoing_calls,               *)
(* call_hierarchy.rs).                                                      *)
CallEdgesAgree ==
    sample.alg = "layout" =>
        LET idx == sample.idx
        IN  \A callers \in {Q!incoming_calls(idx, Source, Used)} :
            /\ UNION {e.sites : e \in callers} = {r.span : r \in ToSet(idx.refs[Q!SymbolRow(idx, Used).group])}
            /\ \A e \in callers : e.item.key # Q!NoKey =>
                 \E out \in Q!outgoing_calls(idx, Source, e.item.key) :
                     out.item.key = Used /\ e.sites \subseteq out.sites

\* The keys of an outline, parents first
OutlineKeys(idx, d) ==
    LET flatten(trees, n) == FlattenSeq([i \in DOMAIN trees |->
                                 <<[trees[i] EXCEPT !.children = <<>>]>> \o trees[i].children])
        leveled == FoldLeft(flatten, Q!document_symbols(idx, d), <<1, 2, 3, 4>>)
    IN  [i \in DOMAIN leveled |-> leveled[i].key]

(* The outline of a document holds every definition it should show exactly  *)
(* once, and nothing else (document_symbols, orchestrator.rs).              *)
OutlineComplete ==
    sample.alg = "layout" =>
        \A keys \in {OutlineKeys(sample.idx, 1)} :
            IsInjective(keys) /\ ToSet(keys) = ToSet(sample.about)

-----------------------------------------------------------------------------
(* Method search by name                                                   *)

Letter(name, upper) == [name |-> name, upper |-> upper]
Letters == {Letter("a", FALSE), Letter("b", FALSE), Letter("A", TRUE)}

SampleFuzzy ==
    \E query \in BoundedSeq(Letters, 3), name \in BoundedSeq(Letters, 5) :
        query # <<>> /\ sample' = [alg |-> "fuzzy", query |-> query, name |-> name]

\* A query is its humps one after the other: each starts at an upper case
\* letter of the name, the first one at its beginning when it is lower case
Placements(query, name) ==
    {e \in [DOMAIN query -> DOMAIN name] :
        \A i \in DOMAIN query :
            /\ name[e[i]] = query[i]
            /\ i > 1 => e[i] > e[i - 1]
            /\ ~query[i].upper => e[i] = IF i = 1 THEN 1 ELSE e[i - 1] + 1}

(* A method name matches a query exactly when the humps of the query can be *)
(* placed in the name in order, and the scan always ends                    *)
(* (fuzzy_matches_name, orchestrator.rs).                                   *)
FuzzyFindsHumps ==
    sample.alg = "fuzzy" =>
        LET result == Q!fuzzy_matches_name(sample.query, sample.name)
        IN  result.done /\ (result.match <=> Placements(sample.query, sample.name) # {})

-----------------------------------------------------------------------------
\* Before an input is drawn alg says of which part of the server it will be
Init == sample \in {[alg |-> part] : part \in {"protocols", "editor", "ingest", "store", "queries"}}

SampleIngest == SampleClasses \/ SampleMethods \/ SampleFacts

SampleStore == SamplePostings \/ SampleDocSpans \/ SampleDamage \/ SampleScore \/ SampleSearch

SampleQueries ==
    SampleWorkspace \/ SampleDuplicates \/ SampleFamily \/ SampleLayout \/ SampleFuzzy

Next ==
    \/ sample.alg = "protocols" /\ SampleProtocols
    \/ sample.alg = "editor" /\ SampleEditor
    \/ sample.alg = "ingest" /\ SampleIngest
    \/ sample.alg = "store" /\ SampleStore
    \/ sample.alg = "queries" /\ SampleQueries

Spec == Init /\ [][Next]_sample

-----------------------------------------------------------------------------
(* What the parts promise together                                         *)

(* Edits mean the same text on both sides of the connection: those the      *)
(* editor sends (documents.rs) and those formatting answers (formatting.rs). *)
EditsAgree == BuffersAgree /\ FormattingRestores

(* The editor ends up with the tokens of the nodes the compiler reported,   *)
(* whether it is sent all of them, a range or a delta (pc_lsp.rs).          *)
TokensReachEditor == TokensDecode /\ TokenDeltaApplies

(* Across the boundary to the island each side reads what the other wrote,  *)
(* or refuses it (codec.rs, payloads.rs, memory.rs, lib.rs of ls-jvm).      *)
AbiExact == AbiRoundTrip /\ AbiDecodeExact /\ CallbackAnswers

(* What the compiler wrote about a source is found and read: the directory  *)
(* its options name, the file under it, the documents in that file          *)
(* (semanticdb.rs, locator.rs, wire.rs and parser.rs).                      *)
SemanticdbFound == OptionsRead /\ LocatorInverse /\ SemanticdbRead

(* A rename the server agrees to is of one name, in files the user may      *)
(* edit, and rewrites all the places of that name and no other (groups.rs,  *)
(* profile.rs, ingest.rs, rename.rs).                                       *)
RenameSafe == SafeGroupsEditable /\ RenameComplete

(* A segment that opens serves exactly what it holds, whether the writer    *)
(* laid it out or it was damaged since (writer.rs, reader.rs).              *)
SegmentsExact == WrittenSegmentsServe /\ OpenedSegmentsExact

(* A search by a fragment of a name finds the names that have it, the best  *)
(* first (search.rs; fuzzy_matches_name, orchestrator.rs).                  *)
SearchBestFirst == ScoreIsBestMatch /\ ExactNameFirst /\ FuzzyFindsHumps

(* Going from a symbol to its definition, its implementations, its callers  *)
(* or its place in the outline loses nothing and invents nothing            *)
(* (orchestrator.rs, call_hierarchy.rs).                                    *)
NavigationExact == DefinitionExact /\ ImplementationsExact /\ CallEdgesAgree /\ OutlineComplete

(* Every code action offered does something the client asked for, once, and *)
(* none that would is missing (services.rs).                                *)
CodeActionsExact == MenuExact /\ NamedOnce

(* A file is one document under all its names (workspace_uris.rs).          *)
FilesKeepIdentity == KeysCanonical /\ FileKeepsIdentity
=============================================================================
