---------------------------- MODULE IndexPipeline ----------------------------
(***************************************************************************)
(* From a saved file to the served index: the message loop, the build      *)
(* scheduler's worker and the build tool, around the orchestrator's ingest *)
(* lock.  Per target, `want` counts the source changes that its index      *)
(* should reflect, `built` those its SemanticDB output reflects, `indexed` *)
(* those the published index reflects.  A build-model reload replaces the  *)
(* workspace description and the scheduler itself.                         *)
(***************************************************************************)
EXTENDS BuildScheduler

CONSTANTS
  Closure,       \* target -> the targets that depend on it, itself included
  MaxSaves,      \* bound: didSave notifications
  MaxBuilds,     \* bound: builds run outside the editor
  MaxReloads,    \* bound: buildTarget/didChange reloads
  MaxReindexes   \* bound: reindexes a command or a query asks for

ASSUME PipelineConstants ==
  /\ Closure \in [Targets -> SUBSET Targets]
  /\ \A t \in Targets : t \in Closure[t]
  /\ MaxSaves \in Nat /\ MaxBuilds \in Nat
  /\ MaxReloads \in Nat /\ MaxReindexes \in Nat

VARIABLES
  want, built, indexed,   \* versions, per target
  seen,                   \* what the run in progress can have compiled
  scan,                   \* built as it was when the ingest in progress began
  lock,                   \* ingest_lock: "free", "worker" or "loop"
  model,                  \* current_workspace, by version
  indexModel,             \* the workspace description the index was built for
  mloop,                  \* the message loop
  fetched,                \* the model the loop is ingesting
  watched,                \* a .semanticdb change event is on its way
  failed, dropped,        \* per target: given up on by a failure, by a drop
  saves, builds, reloads, reindexes

versions == <<want, built, indexed, seen, scan, failed, dropped>>
loopVars == <<lock, model, indexModel, mloop, fetched, watched>>
bounds == <<saves, builds, reloads, reindexes>>
pipelineVars == <<schedulerVars, versions, loopVars, bounds>>

Later(x, y) == IF x < y THEN y ELSE x

Zero == [t \in Targets |-> 0]

PipelineInit ==
  /\ SchedulerInit
  /\ want = Zero /\ built = Zero /\ indexed = Zero /\ seen = Zero /\ scan = Zero
  /\ failed = Zero /\ dropped = Zero
  /\ lock = "free" /\ model = 0 /\ indexModel = 0
  /\ mloop = "ready" /\ fetched = 0 /\ watched = FALSE
  /\ saves = 0 /\ builds = 0 /\ reloads = 0 /\ reindexes = 0

-------------------------------------------------------------------------------
(* The message loop: notifications that schedule. *)
schedule_save_build(t) ==
  /\ mloop = "ready"
  /\ saves < MaxSaves
  /\ saves' = saves + 1
  /\ want' = [u \in Targets |-> want[u] + IF u \in Closure[t] THEN 1 ELSE 0]
  /\ schedule(Closure[t], TRUE)
  /\ UNCHANGED <<built, indexed, seen, scan, failed, dropped, loopVars, builds,
                 reloads, reindexes>>

on_watched_files ==
  /\ mloop = "ready"
  /\ watched
  /\ watched' = FALSE
  /\ schedule_reindex
  /\ UNCHANGED <<versions, lock, model, indexModel, mloop, fetched, bounds>>

(* A query answered from a raw .semanticdb file that did not heal inline, or a *)
(* save of a file no target owns, schedules a reindex-only job.                *)
ScheduleHeal ==
  /\ mloop = "ready"
  /\ reindexes < MaxReindexes
  /\ reindexes' = reindexes + 1
  /\ schedule_reindex
  /\ UNCHANGED <<versions, loopVars, saves, builds, reloads>>

(* The message loop: ingests it runs inline, for the reindex command and the   *)
(* raw-path write-through over the workspace it has, for a reload over the     *)
(* refetched one.  A reload whose refetch fails keeps the old services; one to *)
(* a model without targets replaces them but skips the ingest.                 *)
Reindex ==
  /\ mloop = "ready"
  /\ reindexes < MaxReindexes
  /\ reindexes' = reindexes + 1
  /\ mloop' = "ingest"
  /\ fetched' = model
  /\ UNCHANGED <<schedulerVars, versions, lock, model, indexModel, watched, saves,
                 builds, reloads>>

reload_build_model ==
  /\ mloop = "ready"
  /\ reloads < MaxReloads
  /\ reloads' = reloads + 1
  /\ fetched' = model + 1
  /\ mloop' \in {"reload_ingest", "reload_services", "ready"}
  /\ UNCHANGED <<schedulerVars, versions, lock, model, indexModel, watched, saves,
                 builds, reindexes>>

LoopLocks ==
  /\ mloop \in {"ingest", "reload_ingest"}
  /\ lock = "free"
  /\ lock' = "loop"
  /\ scan' = built
  /\ UNCHANGED <<schedulerVars, want, built, indexed, seen, failed, dropped, model,
                 indexModel, mloop, fetched, watched, bounds>>

(* The ingest reads each target's output at some point of its scan. *)
Publish(m) ==
  /\ \E late \in SUBSET Targets :
       indexed' = [u \in Targets |-> IF u \in late THEN built[u] ELSE scan[u]]
  /\ indexModel' = m

(* Mutant: the ingested workspace is not remembered as the current one. *)
LoopIngestsForgetsModel(ok) ==
  /\ lock = "loop"
  /\ lock' = "free"
  /\ IF ok THEN Publish(fetched) ELSE UNCHANGED <<indexed, indexModel>>
  /\ mloop' = IF ok /\ mloop = "reload_ingest" THEN "reload_services" ELSE "ready"
  /\ UNCHANGED <<schedulerVars, want, built, seen, scan, failed, dropped, model,
                 fetched, watched, bounds>>

LoopIngests(ok) ==
  /\ lock = "loop"
  /\ lock' = "free"
  /\ IF ok THEN Publish(fetched) /\ model' = fetched
     ELSE UNCHANGED <<indexed, indexModel, model>>
  /\ mloop' = IF ok /\ mloop = "reload_ingest" THEN "reload_services" ELSE "ready"
  /\ UNCHANGED <<schedulerVars, want, built, seen, scan, failed, dropped, fetched,
                 watched, bounds>>

(* The reload replaces the services: dropping the old scheduler joins its      *)
(* worker, and whatever was pending in it is gone.                             *)
DropScheduler ==
  /\ mloop \in {"reload_services", "ready"}
  /\ mloop' = IF mloop = "ready" THEN "stopping" ELSE "reload_join"
  /\ Drop
  /\ UNCHANGED <<versions, lock, model, indexModel, fetched, watched, bounds>>

JoinWorker ==
  /\ mloop \in {"reload_join", "stopping"}
  /\ worker = "exited"
  /\ dropped' = [u \in Targets |->
                   IF pending_reindex \/ u \in pending_targets THEN want[u] ELSE dropped[u]]
  /\ IF mloop = "stopping" THEN mloop' = "stopped" /\ UNCHANGED schedulerVars
     ELSE /\ mloop' = "ready"
          /\ scheduled' = FALSE /\ due_at' = "none" /\ shutting_down' = FALSE
          /\ pending_targets' = {} /\ pending_compile' = FALSE
          /\ pending_reindex' = FALSE
          /\ worker' = "waiting" /\ run' = NoRun
  /\ UNCHANGED <<want, built, indexed, seen, scan, failed, lock, model, indexModel,
                 fetched, watched, bounds>>

-------------------------------------------------------------------------------
(* The worker. *)
WorkerBegins ==
  /\ BeginRun
  /\ seen' = want
  /\ UNCHANGED <<want, built, indexed, scan, failed, dropped, loopVars, bounds>>

(* A compile that started before a save may or may not have read it; a failed  *)
(* one may still have written some of its targets' output.                     *)
Compile(ok) ==
  /\ CompileDone(ok)
  /\ \E late \in SUBSET run.targets, done \in SUBSET run.targets :
       /\ ok => done = run.targets
       /\ built' = [u \in Targets |->
                      IF u \in done
                      THEN Later(built[u], IF u \in late THEN want[u] ELSE seen[u])
                      ELSE built[u]]
  /\ failed' = [u \in Targets |->
                  IF ~ ok /\ u \in run.targets THEN Later(failed[u], seen[u])
                  ELSE failed[u]]
  /\ UNCHANGED <<want, indexed, seen, scan, dropped, loopVars, bounds>>

(* reingest_current: take the lock, then read the current workspace. *)
WorkerLocks ==
  /\ worker = "reingesting"
  /\ lock = "free"
  /\ lock' = "worker"
  /\ scan' = built
  /\ UNCHANGED <<schedulerVars, want, built, indexed, seen, failed, dropped, model,
                 indexModel, mloop, fetched, watched, bounds>>

WorkerIngests(ok) ==
  /\ lock = "worker"
  /\ lock' = "free"
  /\ ReingestDone
  /\ IF ok THEN Publish(model) /\ UNCHANGED failed
     ELSE /\ failed' = [u \in Targets |-> Later(failed[u], seen[u])]
          /\ UNCHANGED <<indexed, indexModel>>
  /\ UNCHANGED <<want, built, seen, scan, dropped, model, mloop, fetched, watched, bounds>>

WorkerRests ==
  /\ FinishRun \/ WorkerExit
  /\ UNCHANGED <<versions, loopVars, bounds>>

DebounceElapses == Elapse /\ UNCHANGED <<versions, loopVars, bounds>>

(* A build outside the editor rewrites a target's output; the client reports   *)
(* the changed .semanticdb file later.                                         *)
OutsideBuild(t) ==
  /\ builds < MaxBuilds
  /\ builds' = builds + 1
  /\ want' = [want EXCEPT ![t] = @ + 1]
  /\ built' = [built EXCEPT ![t] = want[t] + 1]
  /\ watched' = TRUE
  /\ UNCHANGED <<schedulerVars, indexed, seen, scan, failed, dropped, lock, model,
                 indexModel, mloop, fetched, saves, reloads, reindexes>>

-------------------------------------------------------------------------------
LoopContinues ==
  \/ on_watched_files
  \/ LoopLocks \/ (\E ok \in BOOLEAN : LoopIngests(ok))
  \/ (mloop = "reload_services" /\ DropScheduler)
  \/ JoinWorker

WorkerContinues ==
  \/ WorkerBegins
  \/ \E ok \in BOOLEAN : Compile(ok)
  \/ WorkerLocks
  \/ \E ok \in BOOLEAN : WorkerIngests(ok)
  \/ WorkerRests

PipelineNext ==
  \/ \E t \in Targets : schedule_save_build(t) \/ OutsideBuild(t)
  \/ ScheduleHeal \/ Reindex \/ reload_build_model
  \/ DropScheduler
  \/ LoopContinues
  \/ WorkerContinues
  \/ DebounceElapses

(* Both threads keep running, and calls to the build server return (each BSP   *)
(* request is bounded by the session's timeout).                               *)
PipelineSpec ==
  /\ PipelineInit
  /\ [][PipelineNext]_pipelineVars
  /\ WF_pipelineVars(LoopContinues)
  /\ WF_pipelineVars(WorkerContinues)
  /\ WF_pipelineVars(DebounceElapses)

-------------------------------------------------------------------------------
(* Whenever no ingest is under way, the index was built for the current        *)
(* workspace description: a background reingest never reverts a reload.  And   *)
(* when everything has come to rest, every target's index reflects its last    *)
(* source change, except where a compile or an ingest failed or the pending    *)
(* job was dropped with its scheduler.                                         *)
IndexAtRest ==
  /\ lock = "free" => indexModel = model
  /\ mloop = "ready" /\ worker = "waiting" /\ ~ scheduled /\ ~ watched =>
       \A u \in Targets :
         want[u] <= Later(indexed[u], Later(failed[u], dropped[u]))

(* Source changes settle: after any burst of saves and outside builds (bursts  *)
(* are finite, see MaxSaves and MaxBuilds) every target's last change gets     *)
(* indexed, or was given up on by a failure or by the drop of the scheduler    *)
(* that held it, or the server stopped.                                        *)
ChangesSettle ==
  []<>(mloop = "stopped" \/ \A u \in Targets :
         want[u] <= Later(indexed[u], Later(failed[u], dropped[u])))

(* didSave triggers "the debounced, single-flight build job [that] compiles    *)
(* the saved file's reverse-dependency closure, then reingests"                *)
(* (docs/architecture.md): every save is eventually indexed unless its compile *)
(* or ingest failed, or the server stopped.                                    *)
SavesReachIndex ==
  \A u \in Targets : \A v \in 1 .. MaxSaves + MaxBuilds :
    want[u] >= v ~> indexed[u] >= v \/ failed[u] >= v \/ mloop = "stopped"
===============================================================================
