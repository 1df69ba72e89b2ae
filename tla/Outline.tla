------------------------------- MODULE Outline -------------------------------
(***************************************************************************)
(* The structure queries of ls-engine over one document: the nested        *)
(* outline (document_symbols) and the usage hierarchy (call_hierarchy.rs). *)
(* SemanticDB knows only where a name is written, so both rebuild what     *)
(* encloses what from owner chains and the order of the definitions.       *)
(***************************************************************************)
EXTENDS Queries

-----------------------------------------------------------------------------
(* document_symbols                                                        *)

Worthy(key) ==
    IsGlobal(key) /\ Last(key.sym).kind \in {"term", "type", "method"} /\ ~is_constructor(key.sym)

Before(p, q) == p # q /\ NotAfter(p, q)

\* The first definition of every worthy key, in source order
doc_def_entries(idx, d) ==
    LET defs == SelectSeq(scan_doc(idx, d), LAMBDA o : o.role = "def" /\ Worthy(o.key))
        first == SelectSeq([i \in DOMAIN defs |-> i],
                     LAMBDA i : \A j \in 1 .. i - 1 : defs[j].key # defs[i].key)
    IN  [n \in DOMAIN first |-> [key |-> defs[first[n]].key, span |-> defs[first[n]].span]]

\* The entry of a symbol among the first n, 0 when it has none
EntryOf(entries, n, sym) ==
    LET at == {i \in 1 .. n : entries[i].key.sym = sym} IN IF at = {} THEN 0 ELSE Min(at)

\* The innermost encloser of a symbol with an entry of its own or, failing that,
\* with an entry for its companion
NearestOwner(entries, n, sym) ==
    LET entry(a) == IF EntryOf(entries, n, a) # 0 THEN EntryOf(entries, n, a)
                    ELSE IF companion(a) = None THEN 0 ELSE EntryOf(entries, n, companion(a))
        up == SelectSeq(Reverse(Enclosing(sym)), LAMBDA a : entry(a) # 0)
    IN  IF up = <<>> THEN 0 ELSE entry(Head(up))

Leaf(entry) == [key |-> entry.key, span |-> entry.span, children |-> <<>>]
Taken == [key |-> NoKey, span |-> NoDef.span, children |-> <<>>]

\* Children of node i in source order; a parent always has a lower index
ChildrenOf(parent, i) == SetToSortSeq({c \in DOMAIN parent : parent[c] = i}, <)

\* Node i takes the finished trees of its children
TakeChildren(parent, trees, i) ==
    LET kids == ChildrenOf(parent, i)
        full == [trees EXCEPT ![i].children = [n \in DOMAIN kids |-> trees[kids[n]]]]
    IN  FoldSet(LAMBDA c, t : [t EXCEPT ![c] = Taken], full, ToSet(kids))

Parents(entries) ==
    [i \in DOMAIN entries |-> NearestOwner(entries, i - 1, entries[i].key.sym)]

\* The trees of the entries, the nodes completed in the given order
Forest(entries, parent, order) ==
    LET trees == FoldLeft(LAMBDA t, i : TakeChildren(parent, t, i),
                          [i \in DOMAIN entries |-> Leaf(entries[i])], order)
        roots == ChildrenOf(parent, 0)
    IN  [n \in DOMAIN roots |-> trees[roots[n]]]

InOrder(entries) == [i \in DOMAIN entries |-> i]

\* Every entry below its nearest owner: the last node is completed first
Nest(entries) == Forest(entries, Parents(entries), Reverse(InOrder(entries)))

document_symbols(idx, d) == Nest(doc_def_entries(idx, d))

-----------------------------------------------------------------------------
(* call_hierarchy.rs                                                       *)

is_callable(idx, key) ==
    \/ Ends(key.sym, "method") /\ ~is_constructor(key.sym)
    \/ Ends(key.sym, "term") /\ SymbolRow(idx, key).kind \in {"method", "macro"}

is_descendant(entry, sym) ==
    \/ Contains(Enclosing(entry.key.sym), sym)
    \/ companion(sym) # None /\ Contains(Enclosing(entry.key.sym), companion(sym))

\* The first later entry that is not a descendant, 0 when the extent of the
\* entry runs to the end of the document
Successor(entries, i) ==
    LET later == {j \in i + 1 .. Len(entries) : ~is_descendant(entries[j], entries[i].key.sym)}
    IN  IF later = {} THEN 0 ELSE Min(later)

owner_entry_index(entries, i) == NearestOwner(entries, Len(entries), entries[i].key.sym)

\* The extent of an entry is over before the line its successor starts on
ClosedOn(entries, i, line) ==
    Successor(entries, i) # 0 /\ entries[Successor(entries, i)].span.sl <= line

\* Mutant: the walk starts from the last entry of the line, even one after p
enclosing_entry_index_lines(entries, p) ==
    LET starts == {i \in DOMAIN entries : entries[i].span.sl <= p.line}
        up(i, n) == IF i = 0 THEN 0
                    ELSE IF ClosedOn(entries, i, p.line) THEN owner_entry_index(entries, i) ELSE i
    IN  IF starts = {} THEN 0
        ELSE FoldLeft(up, Max(starts), [n \in DOMAIN entries |-> n])

\* From the last entry at or before p up to the first whose extent is open
enclosing_entry_index(entries, p) ==
    LET starts == {i \in DOMAIN entries : NotAfter(Start(entries[i].span), p)}
        up(i, n) == IF i = 0 THEN 0
                    ELSE IF ClosedOn(entries, i, p.line) THEN owner_entry_index(entries, i) ELSE i
    IN  IF starts = {} THEN 0
        ELSE FoldLeft(up, Max(starts), [n \in DOMAIN entries |-> n])

\* lines[d] is the source of document d now; a missing line is no import
is_import_line(lines, d, line) ==
    /\ line < Len(lines[d])
    /\ lines[d][line + 1] # <<>> /\ Head(lines[d][line + 1]) = "import"

FileItem(d) == [key |-> NoKey, doc |-> d, span |-> NoDef.span]
entry_item(d, entry) == [key |-> entry.key, doc |-> d, span |-> entry.span]
definition_item(idx, key) ==
    [key |-> key, doc |-> SymbolRow(idx, key).def.doc, span |-> SymbolRow(idx, key).def.span]

\* The callable a cursor that resolved to key asks about; FileItem(0) for none
prepare_call_hierarchy(idx, d, key, p) ==
    LET entries == doc_def_entries(idx, d)
        up(i, n) == IF i = 0 \/ is_callable(idx, entries[i].key) THEN i
                    ELSE owner_entry_index(entries, i)
        at == FoldLeft(up, enclosing_entry_index(entries, p), [n \in DOMAIN entries |-> n])
    IN  IF IsGlobal(key) /\ ~Knows(idx, key) THEN FileItem(0)
        ELSE IF IsGlobal(key) /\ is_callable(idx, key)
        THEN IF SymbolRow(idx, key).def.doc = 0 THEN FileItem(0) ELSE definition_item(idx, key)
        ELSE IF at = 0 THEN FileItem(0) ELSE entry_item(d, entries[at])

\* The definition around a reference in a document with these entries
CallerIn(entries, r) ==
    LET i == enclosing_entry_index(entries, Start(r.span))
    IN  IF i = 0 THEN FileItem(r.doc) ELSE entry_item(r.doc, entries[i])

\* The references to a symbol's group by the definition around them
incoming_calls(idx, lines, key) ==
    LET sites == {r \in ToSet(idx.refs[SymbolRow(idx, key).group]) :
                     ~is_import_line(lines, r.doc, r.span.sl)}
        caller(r) == CallerIn(doc_def_entries(idx, r.doc), r)
    IN  IF ~Knows(idx, key) \/ ~IsGlobal(key) THEN {}
        ELSE {[item |-> item, sites |-> {r.span : r \in {s \in sites : caller(s) = item}}] :
                 item \in {caller(r) : r \in sites}}

\* The references between an entry and its successor by what they refer to
CallsFrom(idx, lines, key, d, entries, i, succ) ==
    LET inside(o) == /\ NotAfter(Start(entries[i].span), Start(o.span))
                     /\ succ # 0 => Before(Start(o.span), Start(entries[succ].span))
        sites == {o \in ToSet(scan_doc(idx, d)) : /\ o.role = "ref" /\ inside(o) /\ Worthy(o.key)
                                                 /\ ~is_import_line(lines, d, o.span.sl)
                                                 /\ SymbolRow(idx, o.key).def.doc # 0}
    IN  {[item |-> definition_item(idx, k), sites |-> {o.span : o \in {s \in sites : s.key = k}}] :
            k \in {o.key : o \in sites}}

CallsOf(idx, lines, key, d, entries) ==
    LET i == EntryOf(entries, Len(entries), key.sym)
    IN  IF i = 0 THEN {} ELSE CallsFrom(idx, lines, key, d, entries, i, Successor(entries, i))

outgoing_calls(idx, lines, key) ==
    LET d == SymbolRow(idx, key).def.doc
    IN  IF ~Knows(idx, key) \/ ~IsGlobal(key) \/ d = 0 THEN {}
        ELSE CallsOf(idx, lines, key, d, doc_def_entries(idx, d))
=============================================================================
