---------------------------- MODULE MCProtocols -----------------------------
(***************************************************************************)
(* The pure algorithms on texts, protocols and encodings, for MCAlgorithms: *)
(* an action Sample... draws one input of a bounded set, and an invariant   *)
(* compares what the algorithm computes for it with a direct definition of  *)
(* what it should compute.                                                  *)
(***************************************************************************)
EXTENDS Integers, Sequences, FiniteSets, SequencesExt, FiniteSetsExt

CONSTANT SplitCrlf   \* does the formatter turn CRLF line ends into LF?

T == INSTANCE TextSync
P == INSTANCE PcAbi WITH WordSize <- 4096     \* every payload fits
N == INSTANCE PcAbi WITH WordSize <- 16       \* lengths outgrow a word
M == INSTANCE ProjectModel
W == INSTANCE SemanticdbWire WITH LowBits <- 4, WordBits <- 18, IntBits <- 9

VARIABLE sample      \* the input drawn: a record whose field alg says for what

-----------------------------------------------------------------------------
(* Buffers and edits                                                       *)

\* Boundaries an editor can name: not between the two halves of a CRLF
Boundaries(text) ==
    {i \in 0 .. Len(text) :
        ~(i \in 1 .. Len(text) - 1 /\ text[i] = T!CR /\ text[i + 1] = T!LF)}

Inserts == {<<>>, <<T!Narrow>>, <<T!LF, T!Wide>>}

\* Just before a line break, or at the end of the text
AtLineEnd(text, i) ==
    \/ i = Len(text)
    \/ text[i + 1] = T!LF
    \/ i + 1 < Len(text) /\ text[i + 1] = T!CR /\ text[i + 2] = T!LF

\* over: by how much the editor overshoots the column of a line end
Edits(text) ==
    {e \in [from : Boundaries(text), to : Boundaries(text), new : Inserts, over : {0, 3}] :
        e.from <= e.to /\ (e.over > 0 => AtLineEnd(text, e.to))}

EditText(text, e) == T!Splice(text, e.from, e.to, e.new)

\* What the editor sends for an edit of the text it then holds
ChangeOf(text, e) ==
    [range |-> T!Ranged(T!position(text, e.from),
                        [T!position(text, e.to) EXCEPT !.character = @ + e.over]),
     text |-> e.new]

SampleOneEdit ==
    \E text \in BoundedSeq(T!Chars, 4) : \E e \in Edits(text) :
        sample' = [alg |-> "edits", text |-> text, edits |-> <<e>>]

SampleTwoEdits ==
    \E text \in BoundedSeq(T!Chars, 2) : \E e \in Edits(text) :
        \E f \in Edits(EditText(text, e)) :
            sample' = [alg |-> "edits", text |-> text, edits |-> <<e, f>>]

SampleReplacement ==
    \E text \in BoundedSeq(T!Chars, 2), new \in Inserts : \E e \in Edits(new) :
        sample' = [alg |-> "replace", text |-> text, new |-> new, edits |-> <<e>>]

\* The changes of one didChange, each addressing the text its predecessors left
ChangesOf(text, edits) ==
    FoldLeft(LAMBDA acc, e : [text |-> EditText(acc.text, e),
                              changes |-> Append(acc.changes, ChangeOf(acc.text, e))],
             [text |-> text, changes |-> <<>>], edits)

(* The buffer of the server is the buffer of the editor after every         *)
(* notification, whatever line ends and wide characters surround the edits  *)
(* (apply_content_changes and byte_offset, documents.rs).                   *)
BuffersAgree ==
    /\ sample.alg = "edits" =>
        LET sent == ChangesOf(sample.text, sample.edits)
        IN  T!apply_content_changes(sample.text, sent.changes) = sent.text
    /\ sample.alg = "replace" =>
        LET sent == ChangesOf(sample.new, sample.edits)
            whole == [range |-> T!WholeDocument, text |-> sample.new]
        IN  T!apply_content_changes(sample.text, <<whole>> \o sent.changes) = sent.text

-----------------------------------------------------------------------------
(* Formatting                                                              *)

ChunkTexts ==
    {<<T!Narrow>>, <<T!Wide, T!Narrow>>, <<T!Narrow, T!LF>>, <<T!CR, T!LF>>}
    \cup (IF SplitCrlf THEN {<<T!CR>>, <<T!LF>>} ELSE {<<T!LF>>})

ChunkLists ==
    BoundedSeq([kind : {"equal", "delete", "insert"}, text : ChunkTexts], 3)

SampleFormatting ==
    \E chunks \in ChunkLists :
        /\ SplitCrlf => T!CR \notin ToSet(T!Formatted(chunks))
        /\ sample' = [alg |-> "format", chunks |-> chunks]

(* Applying the edits of a formatting answer to the buffer gives exactly    *)
(* what the formatter printed; the edits address the original text and the  *)
(* editor applies them from the last to the first (minimal_edits,           *)
(* formatting.rs).                                                          *)
FormattingRestores ==
    sample.alg = "format" =>
        T!apply_content_changes(T!Original(sample.chunks),
                                Reverse(T!minimal_edits(sample.chunks)))
            = T!Formatted(sample.chunks)

-----------------------------------------------------------------------------
(* Semantic tokens                                                         *)

TokenTexts ==
    {<<T!Narrow, T!Wide, T!Narrow>>, <<T!Wide, T!LF, T!Narrow>>,
     <<T!Narrow, T!CR, T!LF, T!Wide>>}

\* The nodes the compiler may report: spans between character boundaries
Nodes(text) ==
    LET units == {T!Measure(SubSeq(text, 1, k)) : k \in 0 .. Len(text)}
    IN  {n \in [start : units, end : units, type : {-1, 1}, modifier : {-1, 2}] :
            n.start <= n.end}

SampleTokens ==
    \E text \in TokenTexts : \E nodes \in BoundedSeq(Nodes(text), 2) :
        sample' = [alg |-> "tokens", text |-> text, nodes |-> nodes]

SampleTokenRange ==
    \E text \in TokenTexts :
        \E m \in Nodes(text), n \in Nodes(text), i, j \in 0 .. Len(text) :
            /\ i <= j /\ m.type = 1 /\ n.type = 1 /\ m.modifier = 2 /\ n.modifier = -1
            /\ sample' = [alg |-> "range", text |-> text, nodes |-> <<m, n>>,
                          from |-> T!position(text, i), to |-> T!position(text, j)]

\* What the protocol prescribes for reading a stream back
Decode(data) ==
    LET step(acc, d) ==
            LET line == acc.line + d.deltaLine
                start == IF d.deltaLine = 0 THEN acc.start + d.deltaStart ELSE d.deltaStart
            IN  [line |-> line, start |-> start,
                 tokens |-> Append(acc.tokens,
                     [line |-> line, start |-> start, length |-> d.length, type |-> d.type,
                      modifiers |-> d.modifiers])]
    IN  FoldLeft(step, [line |-> 0, start |-> 0, tokens |-> <<>>], data).tokens

\* A node as the editor should show it, placed by counting characters
Shown(text, node) ==
    LET at(unit) == T!position(text,
                        CHOOSE k \in 0 .. Len(text) : T!Measure(SubSeq(text, 1, k)) = unit)
    IN  [line |-> at(node.start).line, start |-> at(node.start).character,
         length |-> node.end - node.start, type |-> node.type,
         modifiers |-> IF node.modifier < 0 THEN 0 ELSE node.modifier]

OneLine(text, node) ==
    ~ \E k \in DOMAIN text :
        /\ text[k] = T!LF
        /\ node.start <= T!Measure(SubSeq(text, 1, k - 1))
        /\ T!Measure(SubSeq(text, 1, k - 1)) < node.end

ShownNodes(text, nodes) ==
    LET kept == SelectSeq(nodes, LAMBDA n : n.type >= 0 /\ n.start < n.end /\ OneLine(text, n))
    IN  [i \in DOMAIN kept |-> Shown(text, kept[i])]

SameBag(s, t) == \E p \in [DOMAIN s -> DOMAIN t] :
    /\ Len(s) = Len(t)
    /\ \A i, j \in DOMAIN s : p[i] = p[j] => i = j
    /\ \A i \in DOMAIN s : s[i] = t[p[i]]

(* The stream of a semanticTokens answer decodes to exactly the one-line    *)
(* nodes the compiler reported, whatever order it reported them in, and no  *)
(* delta of it is negative (the code subtracts unsigned numbers); the       *)
(* stream of a range request decodes to those of them that touch the range  *)
(* (positioned, delta_encode and semantic_tokens_range, pc_lsp.rs).         *)
TokensDecode ==
    LET well_formed(data) == \A i \in DOMAIN data : data[i].deltaLine >= 0 /\ data[i].deltaStart >= 0
    IN  /\ sample.alg = "tokens" =>
             LET data == T!semantic_tokens(sample.nodes, sample.text)
             IN  well_formed(data) /\ SameBag(Decode(data), ShownNodes(sample.text, sample.nodes))
        /\ sample.alg = "range" =>
             LET data == T!semantic_tokens_range(sample.nodes, sample.text, sample.from, sample.to)
                 touches(t) == /\ T!Before(T!Pos(t.line, t.start), sample.to)
                               /\ T!Before(sample.from, T!Pos(t.line, t.start + t.length))
             IN  well_formed(data) /\ SameBag(Decode(data),
                     SelectSeq(ShownNodes(sample.text, sample.nodes), touches))

\* Streams of two kinds of token, long enough for a prefix and a suffix to meet
SampleTokenDelta ==
    \E prev, next \in BoundedSeq({1, 2}, 4) :
        sample' = [alg |-> "delta", prev |-> prev, next |-> next]

(* The edits of a semanticTokens/full/delta answer turn the stream the      *)
(* editor holds into the one the server just computed                       *)
(* (semantic_tokens_edits, pc_lsp.rs).                                      *)
TokenDeltaApplies ==
    sample.alg = "delta" =>
        LET edits == T!semantic_tokens_edits(sample.prev, sample.next)
            apply(data, e) == T!Splice(data, e.start \div 5,
                                       (e.start + e.deleteCount) \div 5, e.data)
        IN  FoldLeft(apply, sample.prev, edits) = sample.next

-----------------------------------------------------------------------------
(* Payloads of the presentation-compiler island                            *)

RECURSIVE Blank(_)
Blank(s) ==
    CASE s.is \in {"u32", "i32"} -> 0
      [] s.is = "bool" -> FALSE
      [] s.is = "struct" -> [i \in DOMAIN s.of |-> Blank(s.of[i])]
      [] s.is = "either" -> [tag |-> 0, value |-> Blank(s.of[1])]
      [] OTHER -> <<>>

\* Everything present, words at their limits, bytes no text could hold
RECURSIVE Filled(_)
Filled(s) ==
    CASE s.is = "u32" -> 4095
      [] s.is = "i32" -> -1
      [] s.is = "bool" -> TRUE
      [] s.is = "str" -> <<P!Lead, P!Cont, P!Ascii>>
      [] s.is = "bytes" -> <<P!Cont, P!Lead>>
      [] s.is = "struct" -> [i \in DOMAIN s.of |-> Filled(s.of[i])]
      [] s.is = "list" -> <<Filled(s.of), Blank(s.of)>>
      [] s.is = "either" -> [tag |-> Len(s.of) - 1, value |-> Filled(s.of[Len(s.of)])]
      [] OTHER -> <<Filled(s.of)>>

\* The filled value with one of its parts changed
RECURSIVE Variants(_)
Variants(s) ==
    {Blank(s), Filled(s)} \cup
    CASE s.is = "struct" -> UNION {{[Filled(s) EXCEPT ![i] = v] : v \in Variants(s.of[i])}
                                      : i \in DOMAIN s.of}
      [] s.is = "list" -> {<<v>> : v \in Variants(s.of)}
      [] s.is = "either" -> UNION {{[tag |-> i - 1, value |-> v] : v \in Variants(s.of[i])}
                                      : i \in DOMAIN s.of}
      [] s.is \in {"opt", "slot"} -> {<<v>> : v \in Variants(s.of)}
      [] OTHER -> {}

SamplePayload ==
    \E kind \in DOMAIN P!Payloads : \E v \in Variants(P!Payloads[kind]) :
        sample' = [alg |-> "payload", kind |-> kind, value |-> v]

\* Strings and lists up to and past the length a word can hold
Long(n) == [i \in 1 .. n |-> P!Ascii]
SampleLong ==
    \/ \E m, n \in 0 .. 17 : sample' = [alg |-> "long", kind |-> 3, value |-> <<Long(m), Long(n)>>]
    \/ \E m \in 0 .. 17 : sample' = [alg |-> "long", kind |-> 27,
                                     value |-> [i \in 1 .. m |-> <<>>]]

(* What one side writes the other side reads, for every kind of payload:    *)
(* absent and empty stay apart, signs survive, and no other kind accepts    *)
(* the buffer.  A payload with a length that does not fit a word is refused *)
(* by the writer, never cut (Writer and Reader, codec.rs; payloads.rs).     *)
AbiRoundTrip ==
    /\ sample.alg = "payload" =>
        \A buf \in {P!encode(sample.kind, sample.value)} :
            /\ buf.ok
            /\ \A kind \in DOMAIN P!Payloads : \A r \in {P!decode(kind, buf.bytes)} :
                  IF kind = sample.kind THEN r.ok /\ r.val = sample.value ELSE ~ r.ok
    /\ sample.alg = "long" =>
        \A buf \in {N!encode(sample.kind, sample.value)} :
            IF buf.ok
            THEN \A r \in {N!decode(sample.kind, buf.bytes)} : r.ok /\ r.val = sample.value
            ELSE \A wide \in {P!encode(sample.kind, sample.value).bytes} :
                    wide[4] >= 16 \/ wide[3] >= 16

\* A buffer changed in one cell, cut, extended, or split at another place
SampleDamagedPayload ==
    \E kind \in DOMAIN P!Payloads :
        LET buf == P!encode(kind, Filled(P!Payloads[kind])).bytes
            damaged(how, b) == sample' = [alg |-> "damaged", kind |-> kind, how |-> how, buf |-> b]
        IN  \/ \E i \in DOMAIN buf, v \in {0, 1, 2, 3, 5, 4095} :
                   damaged("changed", [buf EXCEPT ![i] = v])
            \/ \E i \in 0 .. Len(buf) - 1 : damaged("cut", SubSeq(buf, 1, i))
            \/ \E v \in {0, 1} : damaged("cut", Append(buf, v))
            \/ \E d \in {-1, 1} :
                   buf[4] + d >= 0 /\ damaged("cut", [buf EXCEPT ![3] = @ - d, ![4] = @ + d])
            \/ \E v \in {0, 1} :
                   damaged("cut", [buf EXCEPT ![3] = @ + 1] \o <<v>>)

(* A damaged buffer is refused, or read as a value that accounts for every  *)
(* word of its body; a buffer that lost or gained cells is always refused,  *)
(* and no list is allocated that the buffer could not hold (Reader::new,    *)
(* take, count, blob_slice and finish, codec.rs).                           *)
AbiDecodeExact ==
    sample.alg = "damaged" =>
        \A r \in {P!decode(sample.kind, sample.buf)} :
            /\ r.reserved <= Len(sample.buf)
            /\ r.ok => /\ sample.how = "changed"
                       /\ Len(P!write(P!Payloads[sample.kind], r.val)) = sample.buf[3]

\* The callbacks of the island: definition, method search, top-level symbols
SampleCallback ==
    \E kind \in {13, 14, 27}, granted \in BOOLEAN, out \in {N!NullBuf, N!NoOut} :
        \/ \E is \in {"none", "panics"} :
               sample' = [alg |-> "callback", kind |-> kind, granted |-> granted,
                          out |-> out, resolver |-> [is |-> is]]
        \/ \E v \in Variants(P!Payloads[kind]) \cup (IF kind = 27 THEN {[i \in 1 .. n |-> <<>>] : n \in 0 .. 9} ELSE {}) :
               sample' = [alg |-> "callback", kind |-> kind, granted |-> granted,
                          out |-> out, resolver |-> [is |-> "answers", val |-> v]]

(* A callback that reports success handed out a buffer the island reads as  *)
(* the resolver's answer; one that does not handed out no buffer, so there  *)
(* is none the island would have to free (run_resolver and its two siblings *)
(* of ls-jvm lib.rs, write_response of memory.rs).                          *)
CallbackAnswers ==
    sample.alg = "callback" =>
        \A c \in {N!run_resolver(sample.kind, sample.resolver, sample.granted, sample.out)} :
            IF c.status = "ok"
            THEN \A r \in {N!decode(sample.kind, N!take_response(c.out))} :
                    r.ok /\ r.val = (IF sample.resolver.is = "none" THEN <<>> ELSE sample.resolver.val)
            ELSE c.out = sample.out

-----------------------------------------------------------------------------
(* The build model                                                         *)

Root == <<"/", "w">>
Output == <<"/", "o">>
\* The paths an option may name, and where they lie
Lies == [a |-> <<"/", "w", "a">>, up |-> <<"/", "b">>, abs |-> <<"/", "c">>]
Spelled == [a |-> <<"a">>, up |-> <<".", "..", "b">>, abs |-> <<"/", "c">>]

Settings ==
    {[is |-> is, fused |-> fused, path |-> p] :
        is \in {"target", "sourceroot"}, fused \in BOOLEAN, p \in DOMAIN Lies}
    \cup {[is |-> is, fused |-> FALSE, path |-> "a"] : is \in {"enable", "other"}}

Tokens(setting) ==
    CASE setting.is = "enable" -> <<M!Bare("enable")>>
      [] setting.is = "other" -> <<M!Value(<<"x">>)>>
      [] setting.is \in {"target", "sourceroot"} /\ setting.fused ->
            <<M!Fused(setting.is, Spelled[setting.path])>>
      [] setting.is \in {"target", "sourceroot"} /\ ~ setting.fused ->
            <<M!Bare(setting.is), M!Value(Spelled[setting.path])>>

TokensOf(settings) == FlattenSeq([i \in DOMAIN settings |-> Tokens(settings[i])])

SampleOptions ==
    \E settings \in BoundedSeq(Settings, 3) :
        sample' = [alg |-> "options", settings |-> settings]

(* However the options of a target are spelled and repeated, its SemanticDB *)
(* is looked for where the compiler writes it: the last setting of a flag   *)
(* counts and relative paths start at the workspace root.  The presentation *)
(* compiler gets exactly the options that are not about SemanticDB          *)
(* (SemanticdbFlags::extract, semanticdb.rs; pc_options, pc.rs).            *)
OptionsRead ==
    sample.alg = "options" =>
        LET options == TokensOf(sample.settings)
            config == M!extract(options, Output, Root)
            settings(is) == {i \in DOMAIN sample.settings : sample.settings[i].is = is}
            last(is, default) == IF settings(is) = {} THEN default
                                 ELSE Lies[sample.settings[Max(settings(is))].path]
        IN  /\ config.sourceroot = last("sourceroot", Root)
            /\ config.semanticdb_root = IF settings("enable") = {} THEN M!NoPath
                                        ELSE last("target", Output)
            /\ M!pc_options(options) = [i \in 1 .. Cardinality(settings("other")) |-> M!Value(<<"x">>)]

Ids == 1 .. 3
Orders == {o \in [Ids -> Ids] : \A i, j \in Ids : o[i] = o[j] => i = j}

\* What the build server answers when it lists everything in a given order
Answer(order, kind, deps, files, broken) ==
    [targets |-> [i \in Ids |->
        [id |-> order[i], languages |-> IF kind[order[i]] = "java" THEN {"java"} ELSE {"scala"},
         version |-> IF kind[order[i]] = "scala2" THEN <<2, 13>> ELSE <<3, 3>>,
         dependencies |-> SetToSortSeq(deps[order[i]], LAMBDA m, n : n < m)]],
     sources |-> [i \in Ids |->
        [target |-> order[i],
         sources |-> <<[uri_ok |-> broken # [id |-> order[i], what |-> "source"],
                        files |-> {[scala |-> TRUE, name |-> f] : f \in files[order[i]]}
                                  \cup {[scala |-> FALSE, name |-> 0]}]>>]],
     options |-> SelectSeq([i \in Ids |->
        [target |-> order[i], uri_ok |-> broken # [id |-> order[i], what |-> "uri"],
         options |-> IF kind[order[i]] = "indexed" THEN <<M!Bare("enable")>> ELSE <<>>,
         classpath |-> <<[path |-> Output, uri_ok |-> FALSE], [path |-> Output, uri_ok |-> TRUE]>>,
         class_directory |-> IF broken = [id |-> order[i], what |-> "output"] THEN M!NoPath ELSE Output]],
        LAMBDA item : broken # [id |-> item.target, what |-> "item"])]

Kinds == {"indexed", "plain", "scala2", "java"}
Whole == [id |-> 0, what |-> "nothing"]
NoFiles == [i \in Ids |-> {}]
NoDeps == [i \in Ids |-> {}]

\* How the answer is made up, and what is loaded from it
Model(order, kind, deps, files, broken) ==
    sample' = [alg |-> "model", kind |-> kind, deps |-> deps, files |-> files, broken |-> broken,
               loaded |-> M!load(Answer(order, kind, deps, files, broken), Root)]

SampleGraph ==
    \E kind \in [Ids -> Kinds \ {"java"}], deps \in [Ids -> SUBSET Ids] :
        (\A i \in Ids : i \notin deps[i]) /\ Model(<<2, 3, 1>>, kind, deps, NoFiles, Whole)

SampleAnswer ==
    \E order \in Orders, kind \in [Ids -> Kinds \ {"scala2"}], files \in [Ids -> SUBSET {1, 2}] :
        Model(order, kind, NoDeps, files, Whole)

SampleBroken ==
    \E kind \in [Ids -> Kinds], id \in Ids, what \in {"source", "uri", "output", "item"} :
        Model(<<3, 1, 2>>, kind, NoDeps, NoFiles, [id |-> id, what |-> what])

SampleConnections ==
    \E files \in SUBSET [file : 1 .. 3, name : 1 .. 2, valid : BOOLEAN] :
        /\ \A f, g \in files : f.file = g.file => f = g
        /\ sample' = [alg |-> "discover", files |-> files]

\* Does a chain of direct dependencies inside the set lead from one target to another?
DependsOn(deps, inside, from, to) ==
    \E path \in [1 .. 4 -> inside] :
        /\ path[1] = from /\ path[4] = to
        /\ \A i \in 1 .. 3 : path[i] = path[i + 1] \/ path[i + 1] \in deps[path[i]]

(* The model is a function of what the build server says, not of the order  *)
(* in which it says it: the Scala 3 targets by id, each source owned by the *)
(* first target that has it, and the closure of a target is exactly the     *)
(* known targets that depend on it; one Scala 3 target without a usable     *)
(* answer fails the load, a target of another kind never does.  The index   *)
(* and the presentation compiler get the same targets.  An unusable         *)
(* connection file never hides a usable one (ProjectModelLoader::load,      *)
(* BspProjectModel::new and its queries, from_bsp, pc_target_configs,       *)
(* BspDiscovery::required).                                                 *)
ModelExact ==
    /\ sample.alg = "discover" =>
        LET usable == {f \in sample.files : f.valid}
            picked == M!required(sample.files)
        IN  /\ picked.ok = (usable # {})
            /\ picked.ok => picked.val \in usable /\ \A f \in usable : picked.val.name <= f.name
    /\ sample.alg = "model" =>
        LET scala3 == {i \in Ids : sample.kind[i] \in {"indexed", "plain"}}
            indexed == {i \in Ids : sample.kind[i] = "indexed"}
            loaded == sample.loaded
            model == loaded.val
            ids(targets) == [i \in DOMAIN targets |-> targets[i].id]
            ascending(set) == SetToSortSeq(set, LAMBDA m, n : m < n)
            closed(targets, set) == \A id \in Ids :
                M!reverse_dependency_closure(targets, id) =
                    IF id \notin set THEN {} ELSE {d \in set : DependsOn(sample.deps, set, d, id)}
        IN  /\ loaded.ok = (sample.broken.id \notin scala3)
            /\ loaded.ok =>
                 /\ ids(model.targets) = ascending(scala3)
                 /\ ids(M!from_bsp(model)) = ascending(indexed)
                 /\ \A configs \in {M!pc_target_configs(model)} :
                       /\ ids(configs) = ascending(indexed)
                       /\ \A i \in DOMAIN configs : configs[i].classpath = <<Output>>
                 /\ closed(model.targets, scala3) /\ closed(M!from_bsp(model), indexed)
                 /\ \A f \in {1, 2} :
                       LET owners == {i \in scala3 : f \in sample.files[i]}
                           key == [scala |-> TRUE, name |-> f]
                       IN  IF owners = {} THEN key \notin DOMAIN model.uri_to_target
                           ELSE model.uri_to_target[key] = Min(owners)

-----------------------------------------------------------------------------
(* SemanticDB files                                                        *)

\* What a protobuf writer makes of a number: a negative one is sign-extended
RECURSIVE Varint(_)
Varint(n) ==
    IF n < 0 THEN Varint(n + 2^18)
    ELSE IF n < 16 THEN <<n>> ELSE <<16 + (n % 16)>> \o Varint(n \div 16)

Tag(field, wire) == Varint(8 * field + wire)

\* A message to be written: its fields in order, among them raw bytes
Field(name, val) == [name |-> name, val |-> val]
Raw(bytes) == [name |-> "?", val |-> bytes]

RECURSIVE Wire(_, _)
Wire(schema, pieces) ==
    LET bytes(piece) ==
            IF piece.name = "?" THEN piece.val
            ELSE LET field == schema[piece.name]
                     body == CASE field.is = "int" -> Varint(piece.val)
                               [] field.is \in {"string", "strings"} ->
                                    Varint(Len(piece.val)) \o piece.val
                               [] OTHER -> LET inner == Wire(field.of, piece.val)
                                           IN  Varint(Len(inner)) \o inner
                 IN  Tag(field.number, field.wire) \o body
    IN  FlattenSeq([i \in DOMAIN pieces |-> bytes(pieces[i])])

\* What its reader should see: the last value of a scalar, all of a repeated field
RECURSIVE Meant(_, _)
Meant(schema, pieces) ==
    [name \in DOMAIN schema |->
        LET given == SelectSeq(pieces, LAMBDA piece : piece.name = name)
            field == schema[name]
            seen(i) == CASE field.is \in {"message", "messages"} -> Meant(field.of, given[i].val)
                         [] field.is \in {"string", "strings"} -> W!from_utf8_lossy(given[i].val)
                         [] OTHER -> given[i].val
        IN  CASE field.is \in {"strings", "messages"} -> [i \in DOMAIN given |-> seen(i)]
              [] given = <<>> -> W!Default(field)
              [] field.is = "message" -> <<seen(Len(given))>>
              [] OTHER -> seen(Len(given))]

SomeRange == <<Field("start_character", 0), Field("end_line", -1), Field("start_line", 255),
               Raw(Tag(2, 2) \o <<1, 1>>), Field("start_character", -256)>>
SomeGroup == Tag(7, 3) \o Tag(2, 0) \o Varint(-1) \o Tag(9, 3) \o Tag(9, 4)
                \o Tag(2, 2) \o <<1, 2>> \o Tag(7, 4)

\* Fields of a document, known and unknown, of every wire type
DocFields ==
    << Field("uri", <<1, 2>>), Field("uri", <<3>>), Field("schema", 5), Field("language", -1),
       Field("md5", <<31, 4>>),
       Field("symbols", <<Field("overridden_symbols", <<1>>), Field("symbol", <<2>>),
                          Raw(SomeGroup), Field("overridden_symbols", <<>>), Field("kind", 3)>>),
       Field("symbols", <<>>),
       Field("occurrences", <<Field("range", SomeRange), Field("symbol", <<1>>), Field("role", 2)>>),
       Field("occurrences", <<Raw(Tag(1, 0) \o <<7>>), Field("role", 1)>>),
       Raw(Tag(2, 0) \o Varint(-1)), Raw(Tag(8, 1) \o <<1, 2, 3, 4, 5, 6, 7, 8>>),
       Raw(Tag(12, 2) \o <<2, 17, 31>>), Raw(SomeGroup), Raw(Tag(31, 5) \o <<9, 9, 9, 9>>) >>

Written(docs) ==
    [i \in DOMAIN docs |-> Field("documents", [j \in DOMAIN docs[i] |-> DocFields[docs[i][j]]])]

SampleDocument ==
    \E fields \in BoundedSeq(DOMAIN DocFields, 3) :
        sample' = [alg |-> "semanticdb", docs |-> <<fields>>, cut |-> 0]

\* cut: how many bytes at the end of the file are not there yet
SampleHalfWritten ==
    \E f, g, h \in DOMAIN DocFields : \E cut \in 0 .. Len(Wire(W!SdbDocuments, Written(<<<<f>>, <<g, h>>>>))) :
        /\ f > 6 /\ g \in 4 .. 9
        /\ sample' = [alg |-> "semanticdb", docs |-> <<<<f>>, <<g, h>>>>, cut |-> cut]

(* A .semanticdb file holds what its writer meant: fields in any order,     *)
(* with fields this reader does not know among them, and negative and       *)
(* repeated values.  Of a file the compiler is still writing, the reader    *)
(* gets whole documents or an error, never part of a document              *)
(* (parse_text_documents, skip_field, read_length_delimited_slice).         *)
SemanticdbRead ==
    sample.alg = "semanticdb" =>
        LET pieces == Written(sample.docs)
            whole == Wire(W!SdbDocuments, pieces)
            meant == Meant(W!SdbDocuments, pieces).documents
            got == W!parse_text_documents(SubSeq(whole, 1, Len(whole) - sample.cut))
        IN  /\ sample.cut = 0 => got.ok
            /\ got.ok => /\ IsPrefix(got.val.documents, meant)
                         /\ sample.cut = 0 => got.val.documents = meant

SdbRoot == <<"/", "t", "sdb">>

SampleSource ==
    \E dirs \in BoundedSeq({"a", "sdb", "..", "."}, 4), name \in {"a", "..", ""} :
        sample' = [alg |-> "locate", source |-> Append(dirs, name)]

(* The file looked up for a source lies under the target root however the   *)
(* path of the source winds, and the way back from the file is the way      *)
(* there: the source read off a file has that file                          *)
(* (semanticdb_file_for and source_relative_path_for of locator.rs).        *)
LocatorInverse ==
    sample.alg = "locate" =>
        LET file == M!semanticdb_file_for(SdbRoot, sample.source)
            back == M!source_relative_path_for(SdbRoot, file)
        IN  file # M!NoFile =>
                /\ IsPrefix(SdbRoot, file.dir)
                /\ back # <<>> => M!semanticdb_file_for(SdbRoot, back) = file
                /\ back = <<>> => file = [dir |-> SdbRoot, stem |-> ""]

-----------------------------------------------------------------------------
SampleProtocols ==
    \/ SampleOneEdit
    \/ SampleTwoEdits
    \/ SampleReplacement
    \/ SampleFormatting
    \/ SampleTokens
    \/ SampleTokenRange
    \/ SampleTokenDelta
    \/ SamplePayload
    \/ SampleLong
    \/ SampleDamagedPayload
    \/ SampleCallback
    \/ SampleOptions
    \/ SampleGraph
    \/ SampleAnswer
    \/ SampleBroken
    \/ SampleConnections
    \/ SampleDocument
    \/ SampleHalfWritten
    \/ SampleSource
=============================================================================
