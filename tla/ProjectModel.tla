----------------------------- MODULE ProjectModel -----------------------------
(***************************************************************************)
(* From what the build server answers to what the server works with         *)
(* (ls-bsp: discovery.rs, loader.rs, model.rs, semanticdb.rs; ls-server:    *)
(* from_bsp and pc_target_configs of bootstrap.rs, pc_options of pc.rs).    *)
(*                                                                          *)
(* Ids and file names are numbers, for their order.  A path is a sequence   *)
(* of components, absolute when the first is "/".  A compiler option is a   *)
(* record: what it is, and the path spelled with it (flag:path), if any.    *)
(***************************************************************************)
EXTENDS Integers, Sequences, FiniteSets, SequencesExt, FiniteSetsExt

Failed == [ok |-> FALSE]
Ok(v) == [ok |-> TRUE, val |-> v]

-----------------------------------------------------------------------------
(* Connection files                                                        *)

CandidateBefore(a, b) == a.name < b.name \/ (a.name = b.name /\ a.file < b.file)

\* files: a set of [file, name, valid]; parse_file turns some down
discover(files) ==
    [candidates |-> SetToSortSeq({f \in files : f.valid}, CandidateBefore),
     invalid |-> {f.file : f \in {g \in files : ~ g.valid}}]

\* The first candidate, if there is one
required(files) ==
    LET candidates == discover(files).candidates
    IN  IF candidates = <<>> THEN Failed ELSE Ok(Head(candidates))

-----------------------------------------------------------------------------
(* SemanticDB options                                                      *)

NoPath == <<>>
Bare(is) == [is |-> is, fused |-> FALSE, path |-> NoPath]         \* a token of its own
Fused(is, path) == [is |-> is, fused |-> TRUE, path |-> path]     \* flag:path
Value(path) == [is |-> "value", fused |-> FALSE, path |-> path]   \* any other token

\* What a token names when it is taken as a path
AsPath(opt) == IF opt.is = "value" THEN opt.path ELSE <<opt.is>>

\* Both spellings; the last one wins.  A bare flag takes the next token.
last_value(options, flag) ==
    LET step(acc, opt) ==
            IF acc.take THEN [path |-> AsPath(opt), take |-> FALSE]
            ELSE [path |-> IF opt.is = flag /\ opt.fused /\ opt.path # NoPath THEN opt.path
                           ELSE acc.path,
                  take |-> opt = Bare(flag)]
    IN  FoldLeft(step, [path |-> NoPath, take |-> FALSE], options).path

\* One component after another: ".." takes back a name, "." is nothing
lexical_normalize(path) ==
    LET step(out, comp) ==
            CASE comp = "." -> out
              [] comp = ".." /\ out # <<>> /\ Last(out) \notin {"/", ".."} -> Front(out)
              [] OTHER -> Append(out, comp)
    IN  FoldLeft(step, <<>>, path)

Join(root, path) == IF Head(path) = "/" THEN path ELSE root \o path

extract(options, class_directory, workspace_root) ==
    LET target == last_value(options, "target")
        source == last_value(options, "sourceroot")
        resolve(path) == lexical_normalize(Join(workspace_root, path))
    IN  [semanticdb_root |->
            IF \A i \in DOMAIN options : options[i].is # "enable" THEN NoPath
            ELSE IF target = NoPath THEN class_directory ELSE resolve(target),
         sourceroot |-> IF source = NoPath THEN workspace_root ELSE resolve(source)]

-----------------------------------------------------------------------------
(* Where the SemanticDB of a source is: META-INF/semanticdb of the target   *)
(* root, then the path of the source with a suffix.  A file is its folder   *)
(* and its stem, the name without the suffix; with it no name is "." or "..".*)

NoFile == [dir |-> <<>>, stem |-> "."]

\* source: the components of a relative path, the last of them "" after a slash
semanticdb_file_for(root, source) ==
    LET dir == lexical_normalize(root \o Front(source))
    IN  IF source = <<"">> \/ Head(source) = "/" \/ ~ IsPrefix(root, dir) THEN NoFile
        ELSE [dir |-> dir, stem |-> Last(source)]

\* Back from a file to the path of its source, <<>> when it has none
source_relative_path_for(root, file) ==
    LET dir == lexical_normalize(file.dir)
    IN  IF ~ IsPrefix(root, dir) \/ (dir = root /\ file.stem = "") THEN <<>>
        ELSE Append(SubSeq(dir, Len(root) + 1, Len(dir)), file.stem)

-----------------------------------------------------------------------------
(* Options for the presentation compiler                                   *)

TakesValue(opt) == opt \in {Bare("target"), Bare("sourceroot")}
Strip(opt) == opt.is = "enable" \/ (opt.fused /\ opt.is \in {"target", "sourceroot"})

\* The options without what makes the compiler write SemanticDB; a flag that
\* should take a value and is the last token is kept
pc_options(options) ==
    LET drops(i) == TakesValue(options[i]) /\ i < Len(options)
        step(acc, i) ==
            IF acc.skip \/ drops(i) THEN [acc EXCEPT !.skip = ~ @]
            ELSE [acc EXCEPT !.out = IF Strip(options[i]) THEN @ ELSE Append(@, options[i])]
    IN  FoldLeft(step, [out |-> <<>>, skip |-> FALSE], [i \in DOMAIN options |-> i]).out

-----------------------------------------------------------------------------
(* Loading.  An answer of the build server has the targets (id, languages,  *)
(* version, deps), the sources and the options items by target.  A source   *)
(* item is a file or a directory, which stands for the files below it.      *)

is_scala3(version) == version # <<>> /\ Head(version) = 3

\* Scala files among the files named and those below the directories named
expand_sources(items) ==
    IF \E i \in DOMAIN items : ~ items[i].uri_ok THEN Failed
    ELSE Ok({f \in UNION {items[i].files : i \in DOMAIN items} : f.scala})

ItemsFor(items, id) == {i \in DOMAIN items : items[i].target = id}

\* Of several items for a target the last one counts
ItemFor(items, id) == items[Max(ItemsFor(items, id))]

SourcesFor(items, id) == IF ItemsFor(items, id) = {} THEN <<>> ELSE ItemFor(items, id).sources

TargetOf(t, item, sources, config) ==
    IF item.class_directory = NoPath \/ ~ item.uri_ok \/ ~ sources.ok THEN Failed
    ELSE Ok([id |-> t.id, options |-> item.options,
             class_directory |-> item.class_directory,
             classpath |-> SelectSeq(item.classpath, LAMBDA e : e.uri_ok),
             semanticdb_root |-> config.semanticdb_root,
             sourceroot |-> config.sourceroot,
             sources |-> sources.val, direct_deps |-> ToSet(t.dependencies)])

\* One target, or why the whole load fails
LoadTarget(answer, t, workspace_root) ==
    IF ItemsFor(answer.options, t.id) = {} THEN Failed
    ELSE LET item == ItemFor(answer.options, t.id)
         IN  TargetOf(t, item, expand_sources(SourcesFor(answer.sources, t.id)),
                      extract(item.options, item.class_directory, workspace_root))

uri_to_target_last(targets) ==
    [f \in UNION {targets[i].sources : i \in DOMAIN targets} |->
        targets[Max({i \in DOMAIN targets : f \in targets[i].sources})].id]

\* The first target, in the order of the ids, owns a shared source
uri_to_target(targets) ==
    [f \in UNION {targets[i].sources : i \in DOMAIN targets} |->
        targets[Min({i \in DOMAIN targets : f \in targets[i].sources})].id]

Scala3Targets(answer) ==
    LET kept == {i \in DOMAIN answer.targets :
                    /\ "scala" \in answer.targets[i].languages
                    /\ is_scala3(answer.targets[i].version)}
        before(i, j) == answer.targets[i].id < answer.targets[j].id
        order == SetToSortSeq(kept, before)
    IN  [i \in DOMAIN order |-> answer.targets[order[i]]]

\* BspProjectModel::new
ModelOf(targets) == [targets |-> targets, uri_to_target |-> uri_to_target(targets)]

AllOrFailed(loaded) ==
    IF \E i \in DOMAIN loaded : ~ loaded[i].ok THEN Failed
    ELSE Ok(ModelOf([i \in DOMAIN loaded |-> loaded[i].val]))

load(answer, workspace_root) ==
    LET scala3 == Scala3Targets(answer)
    IN  AllOrFailed([i \in DOMAIN scala3 |-> LoadTarget(answer, scala3[i], workspace_root)])

-----------------------------------------------------------------------------
(* The model, and the two views made of it                                 *)

Known(targets) == {targets[i].id : i \in DOMAIN targets}
TargetFor(targets, id) == targets[CHOOSE i \in DOMAIN targets : targets[i].id = id]

\* Only dependencies that are themselves in the model are edges
dependents_of(targets, id) ==
    {d \in Known(targets) : id \in TargetFor(targets, d).direct_deps}

\* Breadth first over the reverse edges
reverse_dependency_closure(targets, id) ==
    LET step(seen, n) == seen \cup UNION {dependents_of(targets, s) : s \in seen}
    IN  IF id \notin Known(targets) THEN {}
        ELSE FoldLeft(step, {id}, [i \in DOMAIN targets |-> i])

indexable(t) == t.semanticdb_root # NoPath
indexable_targets(model) == SelectSeq(model.targets, indexable)

\* The targets the index is built from
from_bsp(model) == indexable_targets(model)

\* The targets the presentation compiler knows: the same, each with its own
\* output directory at the end of the class path
pc_target_configs(model) ==
    LET targets == indexable_targets(model)
        paths(t) == [i \in DOMAIN t.classpath |-> t.classpath[i].path]
        distinct(acc, p) == IF Contains(acc, p) THEN acc ELSE Append(acc, p)
        class_path(t) == FoldLeft(distinct, <<>>, Append(paths(t), t.class_directory))
    IN  [i \in DOMAIN targets |->
            [id |-> targets[i].id, classpath |-> class_path(targets[i]),
             options |-> pc_options(targets[i].options)]]
=============================================================================
