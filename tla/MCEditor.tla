------------------------------ MODULE MCEditor ------------------------------
(***************************************************************************)
(* For MCAlgorithms: what the editor sees of a request beside the index,   *)
(* on every input of a bounded set: the menu of code actions, the symbol   *)
(* under the cursor of an unsaved buffer, and the names of a file.         *)
(***************************************************************************)
EXTENDS MCProtocols

CONSTANT NamesakeLambdas   \* may an argument be a lambda of a parameter with its name?

Menu == INSTANCE CodeActions WITH CodeActionCap <- 3
O == INSTANCE DirtyOverlay
U == INSTANCE WorkspaceUris

-----------------------------------------------------------------------------
(* Code actions                                                            *)

Ops == {"insert type", "implement members", "named arguments", "inline",
        "create method", "extract", "named lambda"}
Diagnostics == {[message |-> "not found", name |-> "x"],
                [message |-> "needs to be abstract", name |-> ""],
                [message |-> "other", name |-> "x"]}
Filters == {{}, {Menu!QUICKFIX}, {<<"refactor">>}, {<<"refactor", ".", "re">>}, {<<>>},
            {Menu!REFACTOR_REWRITE, Menu!REFACTOR_INLINE}}
Onlys == {[absent |-> FALSE, kinds |-> f] : f \in Filters} \cup {Menu!NoOnly}

Unnamed == [starts |-> FALSE, next |-> "other"]
ArgumentTexts ==
    {t \in [starts : BOOLEAN, next : {"=", "==", "=>", "other"}] :
        t.starts /\ t.next = "=>" => NamesakeLambdas}

\* ops: the operations that yield edits at the start of the range
Request(ds, only, imports, ops, selection) ==
    [owned |-> TRUE, ranged |-> TRUE, open |-> TRUE, text |-> TRUE,
     start |-> 1, end |-> IF selection THEN 2 ELSE 1, diagnostics |-> ds, only |-> only,
     imports |-> [n \in {"x"} |-> imports],
     answers |-> [op \in Ops |-> IF op \in ops THEN {1} ELSE {}],
     at_end |-> {}, arguments |-> [a \in 1 .. 2 |-> Unnamed]]

SampleMenu ==
    \E ds \in BoundedSeq(Diagnostics, 2), only \in Onlys,
       imports \in BoundedSeq({{}, {1}}, 2),
       ops \in {Ops, {}} \cup {{op} : op \in Ops} \cup {Ops \ {op} : op \in Ops},
       selection \in BOOLEAN :
        sample' = [alg |-> "menu", request |-> Request(ds, only, imports, ops, selection)]

SampleGate ==
    \E owned, ranged, open \in BOOLEAN :
        sample' = [alg |-> "menu",
                   request |-> [Request(<<>>, Menu!NoOnly, <<>>, Ops, TRUE) EXCEPT
                                    !.owned = owned, !.ranged = ranged, !.open = open]]

SampleArguments ==
    \E args \in [1 .. 2 -> ArgumentTexts], at_start, at_end \in {{}, {1, 2}},
       text, selection \in BOOLEAN :
        sample' = [alg |-> "menu",
                   request |-> [Request(<<>>, Menu!NoOnly, <<>>, {}, selection) EXCEPT
                                    !.answers["named arguments"] = at_start,
                                    !.at_end = at_end, !.text = text, !.arguments = args]]

\* The filters that let a kind through: the kind, its ancestors and the root
Ancestors(kind) ==
    {<<>>, kind} \cup IF Len(kind) > 1 THEN {<<"refactor">>} ELSE {}
Wanted(kind, only) == only.absent \/ only.kinds \cap Ancestors(kind) # {}

\* The kind an operation is offered as, and whether the context calls for it
KindIn(r, op) ==
    CASE op = "create method" -> Menu!QUICKFIX
      [] op = "inline" -> Menu!REFACTOR_INLINE
      [] op = "extract" -> Menu!REFACTOR_EXTRACT
      [] op = "implement members" /\ \E i \in DOMAIN r.diagnostics :
            r.diagnostics[i].message = "needs to be abstract" -> Menu!QUICKFIX
      [] OTHER -> Menu!REFACTOR_REWRITE
Applies(r, op) ==
    CASE op = "create method" ->
            \E i \in DOMAIN r.diagnostics : r.diagnostics[i].message = "not found"
      [] op = "extract" -> r.start # r.end
      [] OTHER -> op # "named arguments"

(* The menu offers no action that does nothing and none of a kind the      *)
(* client filtered out, and leaves out an operation that has edits only    *)
(* when it is full; a sole import candidate is the preferred one           *)
(* (assemble_code_actions, kind_allowed).                                  *)
MenuExact ==
    sample.alg = "menu" /\ sample.request.owned =>
        LET r == sample.request
            menu == Menu!code_action(r)
            reaches == r.ranged /\ r.open
            offered == {menu[i].title : i \in DOMAIN menu}
            full == Len(menu) = 3
        IN  /\ Len(menu) <= 3
            /\ \A i \in DOMAIN menu : menu[i].edits # {} /\ Wanted(menu[i].kind, r.only)
            /\ \A i, j \in DOMAIN menu : i < j /\ Len(menu[j].title) = 3 => Len(menu[i].title) = 3
            /\ reaches /\ ~full =>
                /\ \A op \in Ops :
                    r.answers[op] # {} /\ Applies(r, op) /\ Wanted(KindIn(r, op), r.only) =>
                        <<op>> \in offered
                /\ \A i \in DOMAIN r.diagnostics, c \in DOMAIN r.imports["x"] :
                    (r.diagnostics[i].message = "not found" /\ r.imports["x"][c] # {}
                        /\ Wanted(Menu!QUICKFIX, r.only)) => <<"import", "x", c>> \in offered
            /\ \A i \in DOMAIN menu : menu[i].preferred <=>
                    menu[i].title = <<"import", "x", 1>> /\ Len(r.imports["x"]) = 1

(* Convert-to-named-arguments never names an argument twice, and names     *)
(* every unnamed one the island offered, whichever end of the selection    *)
(* resolved the call (drop_already_named_inserts). With NamesakeLambdas it  *)
(* fails: the filter takes `x => ...` at the argument x for `x = ...`.      *)
NamedOnce ==
    sample.alg = "menu" /\ sample.request.owned =>
        LET r == sample.request
            menu == Menu!code_action(r)
            at == {i \in DOMAIN menu : menu[i].title = <<"named arguments">>}
            edits == UNION {menu[i].edits : i \in at}
            found == IF r.answers["named arguments"] # {} THEN r.answers["named arguments"]
                     ELSE IF r.start # r.end THEN r.at_end ELSE {}
            named(a) == r.arguments[a].starts /\ r.arguments[a].next = "="
        IN  /\ \A a \in edits : a \in found /\ ~named(a)
            /\ at # {} => \A a \in found : a \in edits \/ named(a)

-----------------------------------------------------------------------------
(* Unsaved buffers                                                         *)

TextWord(is, text, ascii, id, width) ==
    [is |-> is, text |-> text, ascii |-> ascii, id |-> id, width |-> width]
Modifier == TextWord("modifier", "final", 5, 5, 5)
Keyword == TextWord("keyword", "class", 5, 5, 5)
Names == {TextWord("name", "A", 1, 1, 1), TextWord("name", "B", 1, 1, 3),
          TextWord("name", "N", 2, 5, 5), TextWord("name", "+", 0, 0, 1)}

LineWords ==
    {<<>>, <<Keyword>>, <<Modifier>>} \cup
    UNION {{<<n>>, <<Keyword, n>>, <<Modifier, n>>, <<n, Keyword>>,
            <<Modifier, Keyword, n>>, <<Keyword, n, Keyword>>} : n \in Names}
Lines == [indented : BOOLEAN, words : LineWords]
ClassA == [indented |-> FALSE, words |-> <<Keyword, TextWord("name", "A", 1, 1, 1)>>]

\* What the island may answer about the identifier under the cursor
Answers(text, col) ==
    LET token == O!token_span_at(text, 1, col)
        def(origin, here) == [origin |-> origin, here |-> here, span |-> token]
    IN  [symbol : {"", "p/S#"}, rename : {O!NoSpan, token},
         definitions : {{}, {def("workspace", TRUE)}, {def("workspace", FALSE)},
                        {def("synthetic", FALSE)},
                        {def("workspace", FALSE), def("synthetic", FALSE)}}]

Buffer(text) == [installed |-> TRUE, resolves |-> TRUE, dirty |-> TRUE,
                 mirrored |-> TRUE, text |-> text]

SampleUnsaved ==
    \E line \in Lines, col \in 0 .. 13,
       indexed \in {{}, {<<"A", 1>>}, {<<"B", 1>>, <<"N", 5>>}} :
        \E pc \in Answers(<<line, ClassA>>, col) :
            sample' = [alg |-> "unsaved", buffer |-> Buffer(<<line, ClassA>>),
                       col |-> col, indexed |-> indexed, pc |-> pc]

SampleBufferState ==
    \E installed, resolves, dirty, mirrored \in BOOLEAN :
        \E pc \in Answers(<<ClassA>>, 6) :
            sample' = [alg |-> "unsaved", col |-> 6, indexed |-> {}, pc |-> pc,
                       buffer |-> [installed |-> installed, resolves |-> resolves,
                                   dirty |-> dirty, mirrored |-> mirrored,
                                   text |-> <<ClassA>>]]

\* The word the cursor is on, when it is a name declared at top level
DeclaredAt(line, col) ==
    {i \in DOMAIN line.words :
        /\ ~line.indented /\ i > 1
        /\ line.words[i].is = "name" /\ line.words[i - 1].is = "keyword"
        /\ \A j \in 1 .. i - 2 : line.words[j].is = "modifier"
        /\ O!Column(line, i) <= col /\ col <= O!Column(line, i) + line.words[i].id}

(* In a dirty buffer a query is refused as PC-only exactly on a top-level  *)
(* name the index has never seen and on a symbol that exists only through  *)
(* a plugin; it never falls back to an index that has not seen the buffer; *)
(* and every symbol workspace/symbol adds is refused where it is declared. *)
(* Names whose first letters only are ASCII are left out: the scan cuts    *)
(* them (symbol_at_cursor, PcOverlayInner).                                *)
UnsavedRefused ==
    sample.alg = "unsaved" =>
        LET b == sample.buffer
            line == b.text[1]
            at == DeclaredAt(line, sample.col)
            fresh == \E i \in at : <<line.words[i].text, line.words[i].id>> \notin sample.indexed
            plugin == /\ sample.pc.symbol # "" /\ sample.pc.definitions # {}
                      /\ O!token_span_at(b.text, 1, sample.col) # O!NoSpan
                      /\ \A d \in sample.pc.definitions : d.origin = "synthetic"
        IN  \A answer \in {O!symbol_at_cursor(b, 1, sample.col, sample.pc, sample.indexed)} :
            /\ answer = "index" <=> ~(b.installed /\ b.resolves /\ b.dirty)
            /\ answer # "index" /\ (\A i \in at : line.words[i].ascii = line.words[i].id) =>
                (answer = "PcOnlySymbol" <=>
                    b.mirrored /\ (plugin \/ (fresh /\ \A i \in at : line.words[i].ascii > 0)))
            /\ \A d \in O!pc_only_symbols(b, sample.indexed) :
                (d.span.line = 1 /\ d.span.from <= sample.col /\ sample.col <= d.span.to
                    /\ b.resolves /\ b.mirrored) => answer = "PcOnlySymbol"

-----------------------------------------------------------------------------
(* File names                                                              *)

Names1 == {<<"a">>, <<"a", " ">>, <<"%">>, <<".", "a">>}
PathsOf == {<<x>> : x \in Names1} \cup {<<x, y>> : x, y \in Names1}

\* Ways to write nothing between two components
Detours == {<<>>, << <<".">> >>, << <<>> >>, << <<"a">>, <<".", ".">> >>}
Interpose(path, i, d) == SubSeq(path, 1, i) \o d \o SubSeq(path, i + 1, Len(path))

\* Which characters are escaped: those that must be, or all but the slashes
Spell(text, all, upper) ==
    FlattenSeq([i \in DOMAIN text |->
        IF text[i] = "/" \/ (~all /\ U!is_unreserved(text[i])) THEN <<text[i]>>
        ELSE <<"%">> \o [d \in 1 .. 2 |->
                IF ~upper /\ U!HexOf[text[i]][d] = "E" THEN "e" ELSE U!HexOf[text[i]][d]]])

SampleSpelling ==
    \E path \in PathsOf, d \in Detours, all, upper, slashes \in BOOLEAN :
        \E i \in 0 .. Len(path) :
            /\ slashes \/ Head(Interpose(path, i, d)) # <<>>   \* or it is an authority
            /\ sample' = [alg |-> "spelling", path |-> path,
                          uri |-> (IF slashes THEN <<"file:", "/", "/">> ELSE <<"file:">>) \o
                                  Spell(U!TextOf(Interpose(path, i, d)), all, upper)]

SampleUri ==
    \E uri \in BoundedSeq({"file:", "/", "a", "%", "2", "."}, 5) :
        sample' = [alg |-> "uri", uri |-> uri]

(* Every spelling of a path keys the same document, which its canonical    *)
(* URI names; a URI that is no file's is its own key (normalize_uri,       *)
(* uri_to_path and path_to_uri).                                           *)
KeysCanonical ==
    /\ sample.alg = "spelling" =>
        /\ U!normalize_uri(sample.uri) = U!path_to_uri(sample.path)
        /\ U!uri_to_path(U!path_to_uri(sample.path)) = sample.path
    /\ sample.alg = "uri" =>
        \A key \in {U!normalize_uri(sample.uri)} :
            /\ U!normalize_uri(key) = key
            /\ U!uri_to_path(sample.uri) = U!NoPath => key = sample.uri

Wd == <<"w">>
Wa == <<"w", "a">>
Wb == <<"w", "b">>
Sources == {<<"w", "x">>, <<"w", "a", "x">>, <<"w", "b", "x">>, <<"w", "b", "a", "x">>}
RootLists == {<<r>> : r \in {Wd, Wa}} \cup {<<q, r>> : q, r \in {Wd, Wa, Wb}}
             \cup {<<Wd, Wa, Wb>>, <<Wd, Wb, Wd>>}

\* index: the root under which a file was indexed, if it was
SampleFiles ==
    \E roots \in RootLists, files \in SUBSET Sources : \E file \in files :
        \E index \in [files -> Range(roots) \cup {<<>>}] :
            /\ \A f \in files : index[f] # <<>> => IsPrefix(index[f], f)
            /\ sample' = [alg |-> "files", roots |-> roots, file |-> file, index |-> index]

Seg(name) == <<name>>
AsPath(p) == [i \in DOMAIN p |-> Seg(p[i])]

(* A file named by its URI keeps its identity through the index: unless    *)
(* another source has one of its sourceroot-relative names, the index name *)
(* found for it leads back to the file, and is the one it was indexed      *)
(* under (WorkspaceUris::to_sdb_uri and to_file_uri).                      *)
FileKeepsIdentity ==
    sample.alg = "files" =>
        LET roots == U!Roots([i \in DOMAIN sample.roots |-> AsPath(sample.roots[i])])
            under(f) == AsPath(SubSeq(f, Len(sample.index[f]) + 1, Len(f)))
            files == DOMAIN sample.index
            indexed == {f \in files : sample.index[f] # <<>>}
            known == [s \in {under(f) : f \in indexed} |->
                        AsPath(CHOOSE f \in indexed : under(f) = s)]
            names(f) == {U!sdb_uri(roots[i], AsPath(f)) : i \in DOMAIN roots} \ {U!NoPath}
            file == sample.file
            alone == \A f \in files \ {file} : names(f) \cap names(file) = {}
        IN  alone =>
            \A uri \in {U!path_to_uri(AsPath(file))} :
            \A sdb \in {U!pick_sdb_uri(roots, uri, known)} :
            /\ sdb = U!NoPath <=> names(file) = {}
            /\ file \in indexed => sdb = under(file)
            /\ sdb # U!NoPath =>
                U!resolve_file_uri(roots, sdb, known, {AsPath(f) : f \in files}) = uri

-----------------------------------------------------------------------------
SampleEditor ==
    \/ SampleMenu
    \/ SampleGate
    \/ SampleArguments
    \/ SampleUnsaved
    \/ SampleBufferState
    \/ SampleSpelling
    \/ SampleUri
    \/ SampleFiles
=============================================================================
