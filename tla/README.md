# A TLA+ verification of the Scala 3 BSP semantic language server

The server is one Rust process. It speaks LSP to an editor over stdio, BSP to a
build server, ingests the SemanticDB files the builds produce into an on-disk
index, and embeds a JVM (the "PC island") that runs the presentation compiler.
Two things are hard about it. There are many actors around shared state: the
input thread, the message loop, the bootstrap worker, the build worker, the
diagnostics worker, the build server's reader thread, the island's dispatch
threads, readers of index snapshots, other processes reading the store, and the
machine itself losing power. And there are many sequential algorithms whose
mistakes stay silent: an index that lacks a row answers, only incompletely.

## 1. Inventory

| Part | State | Operations that change it | Shared with |
|---|---|---|---|
| Store (`ls-store`) | files of each generation, manifest, current snapshot, retired list | publish, open, retain/drop, janitor | readers, inspectors, crashes |
| Build scheduler (`build_scheduler.rs`) | pending targets and intents, armed run | schedule, schedule_reindex, drop, worker loop | message loop, worker |
| Index pipeline (`services.rs`, `orchestrator.rs`, `ingest.rs`, `bootstrap.rs`) | workspace model, ingest lock, published index | save, watched files, reindex, reload, reingest | message loop, worker, outside builds |
| Server loop (`server.rs`, `lifecycle.rs`) | queue, cancel set, workspace state, bootstrap channel, reload flag | every LSP message, bootstrap adoption, reload, shutdown, exit | input thread, bootstrap worker, BSP reader |
| Ready services (`services.rs`) | build-model bundle, token cache, last completion target | notifications, requests, reload | loop |
| Diagnostics (`diagnostics.rs`, `pc_diagnostics.rs`) | per-target sets, overlay, armed pulls | BSP publishes, edits, saves, closes, pulls | loop, pull worker, BSP reader |
| Document store (`documents.rs`) | buffers, versions | open, change, close, save | loop, pull worker |
| PC service and island (`pc.rs`, `ls-jvm`, `ls-pc`) | driver, three copies of the buffers, generations, busy marker | boot, calls, deadlines, recovery | loop, pull worker, dispatch threads |
| BSP session (`ls-bsp`) | pending requests, reload flag, child process | request, answer, timeout, notification, shutdown | loop, build worker, reader thread |
| Query engine (`ls-engine`) | none of its own; reads snapshots, ingests on the spot | references, rename, write-through | build worker, editor's files |
| Algorithms of ingest, segment, search, queries, parsing, ABI, text, URIs | none | - | - |

The hazards these parts are exposed to, each at its line, are in
`PROJECT.json` with the properties that would catch them.

## 2. Modules

State machines:

| Module | Models | Correspondence |
|---|---|---|
| `DurableIndex` | what the store promises | a committed payload, a durable one, the one served; commit, sync, serve, recover, stop, lose power |
| `Store` | `snapshot.rs`, `writer.rs` (publication), `manifest.rs`, `workspace_state.rs`, `durable.rs` | one action per file operation of a publish, in program order; directory entries as the running system sees them and as a power loss leaves them |
| `StoreInspector` | `Store::open_readonly` in another process | extends `Store`; manifest, segment and state read in three steps |
| `BuildScheduler` | `build_scheduler.rs` | one action per critical section of the shared state |
| `IndexPipeline` | reingest triggers and the ingest lock | extends `BuildScheduler`; the message loop and the worker around the lock, builds outside the editor |
| `FreshQueries` | `references.rs`, `rename.rs`, cursor and freshness part of `orchestrator.rs` | one request, step by step, against the editor's saves and the build worker; both ingest under `ingest_lock`, file by file |
| `PcDiagnostics` | `diagnostics.rs`, `pc_diagnostics.rs`, the mutex of `pc.rs` | editor notifications split where the loop needs the island; one action per critical section |
| `LspServices` | the handlers of `services.rs`, the reload of `bootstrap.rs`, the token cache | editor and loop joined by two ordered channels, so the editor runs ahead; the island as the service's mirror of the buffers, which is cold until a query boots it and may refuse a notification once booted |
| `ServerLoop` | `server.rs`, `lifecycle.rs` | input thread, one turn of the loop in four steps, bootstrap worker, reload flag |
| `PcIsland` | `pc.rs`, `watchdog.rs`, `mirror.rs`, `dispatch.rs`, `backend.rs`, parts of `ls-jvm/lib.rs`, what `PcFacade` accepts | one call at a time under the service mutex; the supervisor's ladder step by step; a dispatch thread per generation |
| `BspSession` | `jsonrpc.rs`, `session.rs`, `client.rs`, the model loading of `bootstrap.rs` | two threads making bounded requests, the reader thread, a server that may do anything |

Pure algorithms, as operators with the source's names:

| Module | Models |
|---|---|
| `TextSync` | ranged edits (`documents.rs`), formatting edits (`formatting.rs`), token streams and their splices (`pc_lsp.rs`) |
| `PcAbi` | the codec, the layouts of the payloads and the callbacks' buffers (`ls-pc-abi`, `ls-jvm/lib.rs`) |
| `ProjectModel` | discovery, loader, model, SemanticDB flags (`ls-bsp`), `from_bsp`, `pc_options`, the locator |
| `SemanticdbWire` | `wire.rs` and `parser.rs` of `ls-semanticdb` |
| `SymbolGroups` | symbols, alias groups with union-find, rename profiles |
| `IndexBuild` | one ingest: from SemanticDB documents to the tables of a segment; extends `SymbolGroups` |
| `SegmentFormat` | blocks and skip metadata (`writer.rs`), what opening checks, scans and cursor lookup (`reader.rs`) |
| `SymbolSearch` | `search.rs` |
| `Queries`, `Outline` | queries over one published index; extend `IndexBuild` |
| `CodeActions`, `DirtyOverlay`, `WorkspaceUris` | the code-action menu, cursors in unsaved text, the names of a file |

`*Proofs` hold the theorems about the module they extend. `MC*` are instances
for TLC: model values, sets of fault points, generators of inputs and reference
definitions. `MCPeers` and `MCServices` each hold several components that share
no state; which of them moves is chosen in the initial state (`part`), and the
fairness of each is its own specification's. The
components interact where the code does: `IndexPipeline` extends the scheduler,
`StoreInspector` the store, `Queries` the ingest; `LspServices` and
`FreshQueries` contain the part of the island and of the scheduler they need.

Abstractions. A file's content is the publish that wrote it and the record count
its reader can check, because that is all `open_snapshot` compares besides the
generation. A target's output, a text and the index of a text are version
numbers; an md5 is the text. A diagnostic is a model value; an overlay is the
version it was computed from. Requests have a method out of one representative
for each way `dispatch_request` answers. The build has revisions, and a loaded
model is the revisions its parts came from. Time is absent: a debounce window or
a deadline may elapse at any moment. A request is dispatched and answered in one
step of `ServerLoop`; a cancel that arrives meanwhile has the effect of one that
arrives after it. In the algorithms characters are told apart only by what the
code tests (width, case, line end), bytes of the ABI and of SemanticDB are cells
of a few values, and word sizes are constants small enough to overflow.

In `ServerLoop` the files are those a build target owns, and `mirror` is what
the services were told; the island's right to reject it is in `PcDiagnostics`
and `PcIsland`. Mutated variants of definitions stand next to them, marked
"Mutant:"; they are used by no action and serve to show that each property can
fail.

## 3. What the runs check

Passing runs. A property often joins several statements about one concern; its
definition lists them.

| Run | Shows | Bounds |
|---|---|---|
| `store` | the pair the manifest names survives any crash (`Recoverable`), readers keep their files (`RetainedIntact`), the store implements `DurableIndex` (`ImplementsDurableIndex`); a foreign read never combines two publishes (`InspectorSeesOnePair`) | 4 publishes, 4 generations, 2 readers and a foreign one: a held generation, a retired one, the current and the next one coexist, and one that is being read is deleted |
| `pipeline` | a reingest never reverts a reload, and at rest the index reflects every change (`IndexAtRest`); rest is reached (`ChangesSettle`) | 2 targets, one depending on the other; 2 saves, 1 outside build, 1 reload, 1 reindex |
| `server` | cancellation is exact (`CancelsExact`), every request is answered and exit ends the server (`ServerResponds`); no resurrection (`NeverResurrected`), no unseen buffer (`ServicesSeeBuffers`), no lost model change (`ReadyModelFresh`) | a client that asks: 2 requests of any method, a cancel set of 1, so it overflows; or one that edits: 2 notifications, 2 model changes (one in the bootstrap, one in the reload), 1 lifecycle request; 1 `initialized` |
| `peers`, island | the service's, the supervisor's and the compiler's buffers agree between calls, after recovery the next lane is free, and the busy marker is trustworthy (`IslandInStep`); calls return once the JVM's premain has (`CallsReturn`) | 3 calls, 2 targets, 1 abandoned generation: one recovery succeeds, the second is fatal; late threads of either come back |
| `peers`, session | `OwnAnswer`, `StaleModelReloads`; operations end and the build server's process is reaped (`SessionEnds`) | 2 threads, 5 requests, 1 late answer, 2 revisions: a boot of four requests and one more, or one that changes half-way |
| `queries` | references cover their cursor (`HitsCoverCursor`), rename edits fit what was validated (`RenameEditsFresh`), segments only advance (`SegmentsAdvance`), requests end and reindexes heal (`QueriesSettle`) | 2 files, 2 texts, 1 job, 1 request, 1 failing compile, 1 failing ingest |
| `services`, diagnostics | the editor shows the union of both streams (`EditorShowsUnion`); an overlay at rest belongs to the newest unsaved text (`OverlayTracksBuffer`); typing never starves a pull (`PullsHappen`) | 1 file, 2 targets, 3 text versions: the queried, the mirrored and the newest text can all differ |
| `services`, handlers | token deltas meet their base (`TokensInSync`); the island has the documents' texts under their present owners, but for what it refused or was not told (`MirrorFollows`); resolves and the SemanticDB gate go by the model in force (`ModelInForce`) | four instances: 1 open document, 2 targets, 3 texts and a reload with an island that refuses (`services`), the same with 2 texts and 2 token requests (`reloads`), 2 documents that evict each other from a token cache of 1 (`evictions`), an editor that discards answers with a cache of 2 (`tokens`) |
| `algorithms` | the pure algorithms, each against a reference definition (section 3.1) | every input up to the sizes in `MCAlgorithms`, `MCProtocols` and `MCEditor` |

Violation runs, each with a finding that quotes the sentence it contradicts:
`store_heals` (an error after the manifest rename makes the retry reuse a
committed generation number, and a crash during the retry leaves a store that
every restart refuses), `inspector_race` (a read-only open can lose the race
with the janitor), `pipeline_drop` (a reload drops saves inside their debounce
window), `diagnostics_block` (an edit waits for the mutex a pull's query holds),
`rename_stale` (the md5 re-validation of a rename reads the snapshot of its own
moment, so a build published after the edits were collected lets edits of an
older text pass).

### 3.1 The algorithms

In `MCAlgorithms` a step draws one input from a bounded set into the variable
`sample` (with what the code makes of it, where several invariants need that),
and each invariant compares the translated algorithm on it with what it should
compute, said another way: buffers with the editor's own application of the
edits; tokens with the nodes they decode to; ABI buffers with the value written;
groups with the classes of a relation; a segment scan with the set of postings
given to the writer; a fuzzy score with the best of all placements; references
with all places a symbol is written; incoming with outgoing calls; the code
action menu with the operations that have edits; URIs with the files they name.
The last definitions of `MCAlgorithms` join these comparisons by concern.

Some inputs are left out because the code does something else on them. The
constant `SplitCrlf` adds diffs that split a CRLF pair, on which
`FormattingRestores` (part of `EditsAgree`) fails; `SharedSources` adds sources
compiled by two targets, where `ReferencesComplete` fails for users outside the
closure of the first; `NamesakeLambdas` adds arguments that are lambdas of a
parameter with the argument's name, which `drop_already_named_inserts` takes for
named, so that `NamedOnce` (part of `CodeActionsExact`) fails. All three are FALSE
in the run. `UnsavedRefused` leaves out names with a letter that is not ASCII, and
`FileKeepsIdentity` two sources with one sourceroot-relative name. Each of the five
is in the note of its hazard in `PROJECT.json` (`documents.rs:75`,
`targets.rs:118`, `services.rs:1684`, `pc_overlay.rs:116`,
`workspace_uris.rs:73`).

### 3.2 What the properties leave out

`PcDiagnostics` records in `excused` the races its source admits ("a save or
close racing a pull at worst leaves a window of one already-in-flight publish");
`OverlayTracksBuffer` makes no claim for those, nor after a reload that lost an
armed pull. The island's properties make no claim once recovery was fatal: the
code then only fails calls (nothing reads the fatal flag). `StaleModelReloads`
excludes a reader thread that has ended, which loses the announcement, and a
refetch that failed. `ModelInForce` says nothing of the gate for a model without
any indexable target, for which the reload keeps the old workspace.

`MirrorFollows` names what the code drops, in two history variables of
`LspServices`. A document is `stale` while the island refused its last text, or
got none because the text came with a `didSave`, which only the document store
takes; it is `unplaced` while the island refused its last open or close. Either
ends with the next notification or replay that is accepted. An open for a target
that is not registered is not sent at all, so the property asks for the owner only
of documents of registered targets. Both sets stay empty as long as the island
accepts and no save carries text.

`CallsReturn` excludes a premain that never ends: `JNI_CreateJavaVM` runs it on
the calling thread and has no deadline; the rendezvous timeout begins after it.

Deadlock checking is off where the system may really stop: after exit, after a
drop, after a shutdown, when a bounded client has nothing more to send, and for
the samples of the algorithms.

### 3.3 Fairness

Store: a server that is down is restarted, and a publish in progress goes on.
Pipeline and diagnostics: the worker threads run, debounce windows
elapse, and compiles and queries return (both are bounded by deadlines in the
code). Server loop: only the loop itself; the bootstrap may hang for ever.
Session: the two threads and the reader run and deadlines pass; of the build
server nothing is assumed, except that the pipe to it takes the few short requests
that are unread at a time (a write has no deadline). Island: the supervisor and its deadlines run, a free
lane picks up its job, and slots that only change a map return; a query may
never return, and nothing is assumed of the premain, which may hang the boot.
Queries: the loop and the worker run, and a thread that waits for
`ingest_lock` gets it if it is free again and again (strong fairness of the two
acquisitions: a mutex starves nobody for ever). No fairness is assumed of users,
editors, build servers or outside builds.

Also assumed from the code: the island's calls are serialised by its mutex; at
most one JVM per process; the session is dropped by its last user, never during
a request of another.

## 4. What is proved

Proved with TLAPS for all values of the constants, under the named assumptions
where there are any (`StoreConstants`, `ServerConstants`, `PipelineConstants`,
`PcDiagnosticsConstants`, `ServicesConstants`, `IslandConstants`: bounds are
naturals, fault points are operations, methods are known ones, a target is in its
own dependency closure, the token cache holds something, the island's targets and
documents are finite). A theorem
that needs more says so in its ASSUME. Each rests on an inductive invariant,
named with it below.

* `StoreProofs`. `TypeCorrect` and `HeldFilesIntact` rest on the inductive
  invariant `LiveInv`. "Readers keep their files" alone is not inductive: one
  must know that a snapshot is served, held, retired or pinned by the publish
  (`Live`), that two live snapshots of one generation are the same snapshot, and
  that a publish only writes the generation after the served one.
* `CrashConsistent`, `PublishStaged`, `ServedPairsMatch` and
  `StoreImplementsIndex` assume `CommitCannotFail`: no error is returned between
  the manifest rename and the swap. They are false without it: after such an
  error the retry reuses the generation number, which is what `store_heals`
  shows for recovery (with `NeverMixed` as its invariant the same instance
  violates that too: the retry's segment can end up beside the first attempt's
  state). They rest on `CommitInv`, which adds to `LiveInv` what each step of a
  publish has already staged and synced, and that the durable manifest is the
  current one or its predecessor. The refinement maps the manifest rename to
  Commit, the root fsync to Sync, the swap to Serve; all else stutters.
  `InspectorNeverMixes` (`InspectorSeesOnePair`) assumes it too. The foreign
  reader holds nothing back, so `InspectorInv` says what can still become of the
  files its manifest names: no publish writes to a generation that was committed,
  so each is as the manifest has it, or deleted, and a deleted one is refused.
* `IndexPipelineProofs`. `NoIntentStranded`, about the scheduler alone: type
  correctness and `IntentsArmed` are inductive together. `PipelineArmed` carries
  this over to the pipeline, where the message loop drives the scheduler, drops
  it and replaces it. `RestIsIndexed` (`IndexAtRest`), for any targets, any
  closure and any number of saves, builds, reindexes and reloads. At rest
  nothing is said about the moments before; the invariant `PipelineInv` follows
  each change through them. Per target: versions are in order (`Ordered`); a
  run has seen every change but those noted for the next run (`RunKnows`); a
  change waits for its compile, is in it, or was compiled or given up on
  (`Compiled`); an output waits for its ingest, is in one that began after it,
  or was ingested or given up on (`Ingested`).
* `ServerLoopProofs`. `LifecycleSafe`, `BuffersReplayed`: `NeverResurrected` and
  `ServicesSeeBuffers` are inductive once one adds that the services taken out
  for a reload belong to a server that is not shutting down.
  `CancellationExact` adds (`CancelInv`) that a request in the channel or at the
  loop is unanswered, is there once, and is in the cancel set exactly when the
  client's cancel came in time and was kept. `ModelKeptFresh` assumes
  `MaxInitialized <= 1` (the protocol's rule, which the code does not enforce):
  `GreetInv` says that then no bootstrap runs beside ready services, and
  `FreshInv` that a change since the worker loaded its model is on its way.
* `PcDiagnosticsProofs`. `UnionShown` (`EditorShowsUnion`), for any interleaving
  of the threads that publish: the router's and the layer's suppression of empty
  publishes agree with what they last sent (`RouterInv`, `LayerInv`).
  `OverlayFollowsBuffer` (`OverlayTracksBuffer`): `OverlayInv` says why an
  overlay that outlives its text has a successor, at each step of a pull and of
  a notification's handler: a pull is armed or under way, or the handler at work
  drops it. The armed pulls are a sequence without duplicates, about which three
  lemmas say what `Append`, `Tail` and `Without` leave in it.
* `FreshQueriesProofs`. `SegmentsOnlyAdvance` rests on the order
  segment <= SemanticDB <= disk per file, and on this: whoever reads for an
  ingest holds the lock, and the files already read are no older than in the
  segment to be replaced. `HitsAlwaysCover` adds what a request still owes its
  cursor at each of its steps; `RenameAlwaysFresh` adds that, unless a publish
  came in between, the segment validated against is the one the edits are from.
* `BspSessionProofs`. `AnswersMatch` and `NoneLeftPending`, for any number of
  threads. Neither is inductive: one needs that no id is in flight twice and the
  next one is new, that every request the server holds, every answer on the
  stream or in the reader's hands, and every answer handed over fits the
  request in flight under its id if there still is one, and that the reader takes
  the sender out of the map before it sends.
  `StaleIsReloaded` (`StaleModelReloads`) for any non-empty
  set of threads. While a load is under way nothing is in use that could be
  stale, so one must say of the parts loaded so far, of the answer in the
  stream, in the reader's hands or in the channel, that each is current or the
  client has been or will be told (`LoadInv`), and that only the owner of the
  session loads and closes (`RoleInv`), besides which answer a request can still
  get.
* `LspServicesProofs`. `ModelDecidesAlways` (`ModelInForce`) is inductive with
  the types and `ModelInv`: while a build server is connected and has something
  to index, the workspace is the one the services were made from.
  `MirrorAlwaysFollows` (`MirrorFollows`), with saves that carry text and an island
  that refuses what it likes: that the island holds a document only while it is
  open is kept by an open only if the editor closed it before, so the invariant
  follows opens and closes through the loop's channel (`NotesInOrder`). `Mirrored`
  adds to the property that a document the island holds although it is closed is
  `unplaced`: a change of such a document would otherwise make it look in step.
  `TokensStayInSync` (`TokensInSync`), for an editor that takes every answer
  (`~ Discards`): one token request per document is under way and names what the
  editor holds (`OneRequest`), a cached stream is the one the editor holds or is
  about to receive, unless it holds none (`EntriesKnown`), and so every splice on
  its way fits (`DeltasFit`). A reload empties the cache and restarts its counter;
  `EntriesKnown` is what keeps an old result id from being taken for a new one.
* `PcIslandProofs`. `IslandStaysInStep` (`IslandInStep`), for any number of
  targets, documents, calls and generations. Between calls little is said, so
  `IslandInv` follows a request from the call to the facade and back, unless a
  recovery was fatal. `LanesInv`: a lane left behind has at most the one job
  nobody waits for, so its thread never touches the facade again and clears no
  marker but its own; the active lane's thread is in a slot exactly when the
  marker says so. `SupInv`: what the supervisor waits for tells what is in the
  active lane's channel and how far the facade is ahead of the mirror. A request
  that overruns is in the compiler, and is a query or a close the facade already
  has, so noting it in the mirror is right (`RecoveryInv`). `CallInv`: during
  the boot the buffers the mirror lacks are among the requests still to be made
  (`BootReplay`). Beside these there are lemmas on data: a replay opens every
  buffer, and replaying to a facade what it holds changes nothing, which is why a
  new generation may be told everything again.

`NeverMixed`, `IntentsArmed` and `NothingPendingAtRest` are proved and no run
lists them: the proofs cover every instance.

Only model-checked:

* all liveness properties (`ChangesSettle`, `ServerResponds`, `CallsReturn`,
  `SessionEnds`, `QueriesSettle`, `PullsHappen`): fairness and ENABLED are beyond
  the prover;
* the algorithms: what a recursive definition computes needs induction over
  data, which is beyond it too;
* `TokensInSync` for an editor that discards answers (`Discards`). There it holds
  only while no entry is evicted and no reload restarts the counter: the `services`
  run has an instance of just that (a cache of 2, no reload). With either, a
  discarded answer's id can be given again to another stream.

Every other safety property of the `store`, `pipeline`, `server`, `peers`,
`queries` and `services` runs is a theorem. That errors after the commit point
touch no file a reader holds is proved only: `HeldFilesIntact` assumes nothing of
the fault points.

## 5. Not modelled

* Checksums and MD5 (assumed to tell contents apart), memory mapping, byte
  offsets within segment files.
* Field-by-field conversion between engine, ABI and LSP types, JSON decoding,
  framing, advertised capabilities, rendering of reports, logging, the CLI: they
  hold no state and their mistakes are local to one message.
* Running scalafmt and the presentation compiler: external; their answers are
  arbitrary.
* JDK discovery, JVM options, the JNI calls, the stdout guard, the ABI canary.
* The identifier completion of `identifiers.rs`.
* Two servers on one workspace: the code takes no lock, and an editor starts one.
* The product of components that only meet in the message loop (for instance a
  recovery of the island during a reload): each is modelled with what it can
  observe of the other, and the product is out of TLC's reach.

## 6. Running

    tlc -config MCStoreInspector.cfg MCStoreInspector    # likewise for the other MC modules
    tlc -config FreshQueriesRename.cfg FreshQueries
    tlapm StoreProofs.tla                                # likewise for the other proofs
