---------------------------- MODULE SymbolGroups ----------------------------
(***************************************************************************)
(* Symbols, alias groups and rename profiles of one ingest batch           *)
(* (ls-semanticdb).  A global symbol is the sequence of its descriptors,   *)
(* outermost first; a key is a symbol and the document that owns it when   *)
(* it is local (0 when it is global).                                      *)
(***************************************************************************)
EXTENDS Integers, Sequences, FiniteSets, SequencesExt, FiniteSetsExt

CONSTANT KeyOrder   \* every key that may occur, in the order the code sorts keys

-----------------------------------------------------------------------------
(* symbols.rs.  A setter is a method whose name ends in _=; its name here  *)
(* is the name it sets.  sig is the disambiguator of an overload.          *)

Descriptor(kind, name) == [kind |-> kind, name |-> name, sig |-> 0]
Package(name) == Descriptor("package", name)
Type(name) == Descriptor("type", name)
Term(name) == Descriptor("term", name)
Method(name) == Descriptor("method", name)
Setter(name) == Descriptor("setter", name)
Parameter(name) == Descriptor("parameter", name)
Local(name) == Descriptor("local", name)

None == <<>>     \* an absent symbol: no symbol has no descriptor

Ends(sym, kind) == sym # None /\ Last(sym).kind = kind
is_local(sym) == Ends(sym, "local")
is_package(sym) == Ends(sym, "package")
is_setter(sym) == Ends(sym, "setter")
is_constructor(sym) == Ends(sym, "method") /\ Last(sym).name = "<init>"
Extractor(sym) == Ends(sym, "method") /\ Last(sym).name \in {"apply", "unapply"}

\* split_last keeps the owner; a local symbol has none
owner(sym) == IF is_local(sym) THEN None ELSE Front(sym)
display_name(sym) == Last(sym).name
owner_chain(sym) == [i \in DOMAIN sym |-> SubSeq(sym, 1, i)]
Enclosing(sym) == [i \in 1 .. Len(sym) - 1 |-> SubSeq(sym, 1, i)]

companion(sym) ==
    CASE Ends(sym, "type") -> Append(Front(sym), Term(Last(sym).name))
      [] Ends(sym, "term") -> Append(Front(sym), Type(Last(sym).name))
      [] OTHER -> None

\* The names of the packages around a symbol, and its nearest other encloser
package_name(sym) ==
    LET pkgs == SelectSeq(Enclosing(sym), is_package)
    IN  [i \in DOMAIN pkgs |-> display_name(pkgs[i])]
owner_name(sym) ==
    LET outer == SelectSeq(Enclosing(sym), LAMBDA s : ~is_package(s))
    IN  IF outer = <<>> THEN "" ELSE display_name(Last(outer))
enclosing_top_level(sym) ==
    LET outer == SelectSeq(owner_chain(sym), LAMBDA s : ~is_package(s) /\ ~is_local(s))
    IN  IF outer = <<>> THEN None ELSE Head(outer)

-----------------------------------------------------------------------------
(* normalize.rs.  A raw occurrence without a range, without a symbol or    *)
(* with an unknown role is dropped; a local is keyed by its document.      *)

Key(sym, doc) == [sym |-> sym, doc |-> IF is_local(sym) THEN doc ELSE 0]
Global(sym) == [sym |-> sym, doc |-> 0]
IsGlobal(key) == key.doc = 0

normalize(raw, doc) ==
    [symbols |-> [i \in DOMAIN raw.symbols |->
                    [raw.symbols[i] EXCEPT !.key = Key(@.sym, doc)]],
     occurrences |->
        LET kept == SelectSeq(raw.occurrences,
                        LAMBDA o : o.ranged /\ o.key.sym # None /\ o.role \in {"def", "ref"})
        IN  [i \in DOMAIN kept |-> [kept[i] EXCEPT !.key = Key(@.sym, doc)]]]

AllSymbols(docs) == FlattenSeq([d \in DOMAIN docs |-> docs[d].symbols])
AllOccurrences(docs) == FlattenSeq([d \in DOMAIN docs |-> docs[d].occurrences])

\* The first information given for a key wins; kind "" when there is none
NoInfo == [kind |-> "", display |-> "", overridden |-> {}, opaque |-> FALSE]
InfoOf(docs, key) ==
    LET of == SelectSeq(AllSymbols(docs), LAMBDA s : s.key = key)
    IN  IF of = <<>> THEN NoInfo ELSE Head(of).info

Defined(docs) ==
    {o.key : o \in {p \in ToSet(AllOccurrences(docs)) : p.role = "def"}}

-----------------------------------------------------------------------------
(* groups.rs                                                               *)

Seen(docs) == {s.key : s \in ToSet(AllSymbols(docs))}
              \cup {o.key : o \in ToSet(AllOccurrences(docs))}

\* A constructor implies the class it constructs
Implied(keys) == {Global(owner(k.sym)) : k \in {c \in keys :
                    IsGlobal(c) /\ is_constructor(c.sym) /\ Ends(owner(c.sym), "type")}}

Keys(docs) ==
    LET all == Seen(docs) \cup Implied(Seen(docs))
    IN  SelectSeq(KeyOrder, LAMBDA k : k \in all)

\* The symbols the merge policy puts into the group of a key, when they occur
MergeTargets(sym) ==
    LET own == owner(sym)
    IN  CASE is_constructor(sym) -> IF Ends(own, "type") THEN <<own>> ELSE <<>>
          [] Extractor(sym) -> IF Ends(own, "term") THEN <<companion(own)>> ELSE <<>>
          [] is_setter(sym) -> <<Append(own, Method(Last(sym).name)),
                                 Append(own, Term(Last(sym).name))>>
          [] Ends(sym, "type") -> <<companion(sym)>>
          [] OTHER -> <<>>

Positions(keys, sym) == {j \in DOMAIN keys : keys[j] = Global(sym)}

\* The pairs the merge policy unites, in the order it visits the keys
Merges(keys) ==
    FlattenSeq([i \in DOMAIN keys |->
        IF ~IsGlobal(keys[i]) THEN <<>>
        ELSE LET to == SelectSeq(MergeTargets(keys[i].sym),
                                 LAMBDA s : Positions(keys, s) # {})
             IN  [n \in DOMAIN to |-> <<i, CHOOSE j \in Positions(keys, to[n]) : TRUE>>]])

IsMethod(docs, key) == InfoOf(docs, key).kind = "method"

\* The methods with a definition that an export of a key without one may forward to
Originals(defined, keys, i) ==
    {j \in DOMAIN keys : /\ keys[j] \in defined
                         /\ Last(keys[j].sym) = Last(keys[i].sym)
                         /\ owner(keys[j].sym) # owner(keys[i].sym)}

GlobalMethods(docs, keys) == {k \in ToSet(keys) : IsGlobal(k) /\ IsMethod(docs, k)}

Unambiguous(originals) == Cardinality(originals) = 1

\* The original each definition-less method forwards to, by key index
Forwards(docs, keys) ==
    LET methods == GlobalMethods(docs, keys)
        defined == methods \cap Defined(docs)
        from == {i \in DOMAIN keys : /\ keys[i] \in methods \ defined
                                     /\ Unambiguous(Originals(defined, keys, i))}
    IN  [i \in from |-> Min(Originals(defined, keys, i))]

ForwardPairs(docs, keys) ==
    LET to == Forwards(docs, keys)
        from == SetToSortSeq(DOMAIN to, <)
    IN  [n \in DOMAIN from |-> <<from[n], to[from[n]]>>]

\* Union-find: parent and rank of every key index
NewUnionFind(n) == [parent |-> [i \in 1 .. n |-> i], rank |-> [i \in 1 .. n |-> 0]]

\* The indices from i up to its root
Climb(uf, i) ==
    LET up[n \in 0 .. Len(uf.parent)] == IF n = 0 THEN i ELSE uf.parent[up[n - 1]]
    IN  up
Root(uf, i) == Climb(uf, i)[Len(uf.parent)]

\* find leaves every index it passed pointing at the root
Compress(uf, i) ==
    LET path == {Climb(uf, i)[n] : n \in 0 .. Len(uf.parent)}
        root == Root(uf, i)
    IN  [uf EXCEPT !.parent = FoldSet(LAMBDA j, p : [p EXCEPT ![j] = root], @, path)]

Link(uf, ra, rb) ==
    CASE uf.rank[ra] < uf.rank[rb] -> [uf EXCEPT !.parent[ra] = rb]
      [] uf.rank[ra] > uf.rank[rb] -> [uf EXCEPT !.parent[rb] = ra]
      [] OTHER -> [uf EXCEPT !.parent[rb] = ra, !.rank[ra] = @ + 1]

\* Mutant: the elements are linked instead of the roots of their trees
union_elements(uf, pair) ==
    IF Root(uf, pair[1]) = Root(uf, pair[2]) THEN uf ELSE Link(uf, pair[1], pair[2])

union(uf, pair) ==
    LET found == Compress(Compress(uf, pair[1]), pair[2])
        ra == Root(uf, pair[1])
        rb == Root(uf, pair[2])
    IN  IF ra = rb THEN found ELSE Link(found, ra, rb)

UniteAll(docs, keys) ==
    FoldLeft(union, NewUnionFind(Len(keys)), Merges(keys) \o ForwardPairs(docs, keys))
Roots(uf) == [i \in DOMAIN uf.parent |-> Root(uf, i)]

\* The keys with one root, in the order of the least of them
ByRoot(keys, root) ==
    LET first == SelectSeq([i \in DOMAIN keys |-> i],
                     LAMBDA i : \A j \in 1 .. i - 1 : root[j] # root[i])
    IN  [g \in DOMAIN first |->
            {keys[j] : j \in {m \in DOMAIN keys : root[m] = root[first[g]]}}]

\* The groups, each a set of keys
GroupsAmong(docs, keys) == ByRoot(keys, Roots(UniteAll(docs, keys)))
build(docs) == GroupsAmong(docs, Keys(docs))

GroupOf(groups, key) == CHOOSE g \in DOMAIN groups : key \in groups[g]
SameGroup(groups, a, b) == \E g \in DOMAIN groups : {a, b} \subseteq groups[g]

ForwarderKeys(docs) ==
    LET keys == Keys(docs) IN {keys[i] : i \in DOMAIN Forwards(docs, keys)}
Overridden(docs) ==
    {Global(s) : s \in UNION {InfoOf(docs, k).overridden : k \in ToSet(Keys(docs))}}

\* The reasons against a rename that need no facts about documents
semantic_mask(docs, group) ==
    LET overridden == Overridden(docs)
        forwarders == ForwarderKeys(docs)
    IN  {r \in {"override", "unsupported", "opaque"} : \E k \in group :
            \/ r = "override" /\ (InfoOf(docs, k).overridden # {} \/ k \in overridden)
            \/ r = "unsupported" /\ k \in forwarders
            \/ r = "opaque" /\ InfoOf(docs, k).opaque}

-----------------------------------------------------------------------------
(* profile.rs: facts is, per document, the subset of {"generated",         *)
(* "readonly", "dependency"} the build reports for it.                     *)

Editable(facts) == facts = {}

build_profile(docs, facts, group) ==
    LET mine(d) == \E o \in ToSet(docs[d].occurrences) : o.key \in group
        local == \A k \in group : ~IsGlobal(k)
        defined == group \cap Defined(docs) # {}
        member == \E k \in group : IsGlobal(k) /\ Global(owner(k.sym)) \in Defined(docs)
    IN  semantic_mask(docs, group)
        \cup (IF ~defined /\ (local \/ ~member) THEN {"external"} ELSE {})
        \cup (IF ~defined /\ ~local /\ member THEN {"synthetic"} ELSE {})
        \cup UNION {facts[d] : d \in {e \in DOMAIN docs : mine(e)}}
=============================================================================
