------------------------- MODULE IndexPipelineProofs -------------------------
(***************************************************************************)
(* Proofs about BuildScheduler, on its own, under any sequence of calls,   *)
(* and as the pipeline uses and replaces it; and that the index at rest    *)
(* reflects every source change, for any targets, any dependency closure   *)
(* and any number of saves, outside builds, reindexes and reloads.         *)
(***************************************************************************)
EXTENDS IndexPipeline, TLAPS

SchedulerInv == SchedulerTypeOK /\ IntentsArmed

(* An idle worker's run carries no intent. *)
LEMMA NoRunTyped ==
  NoRun \in [targets : SUBSET Targets, compile : BOOLEAN, reindex : BOOLEAN]
<1>1. {} \in SUBSET Targets /\ FALSE \in BOOLEAN
  BY Zenon
<1>2. QED
  BY <1>1, Zenon DEF NoRun

(* A new scheduler has nothing pending and its worker idle. *)
LEMMA SchedulerInvInit == SchedulerInit => SchedulerInv
<1> SUFFICES ASSUME SchedulerInit PROVE SchedulerInv
  BY Zenon
<1>1. SchedulerTypeOK
  BY NoRunTyped, Zenon DEF SchedulerInit, SchedulerTypeOK
<1>2. IntentsArmed
  BY Zenon DEF SchedulerInit, IntentsArmed
<1>3. QED
  BY <1>1, <1>2, Zenon DEF SchedulerInv

(* No step of a caller or of the worker strands a pending intent. *)
LEMMA SchedulerInvStep == SchedulerInv /\ [SchedulerNext]_schedulerVars => SchedulerInv'
<1> SUFFICES ASSUME SchedulerInv, [SchedulerNext]_schedulerVars PROVE SchedulerInv'
  BY Zenon
<1> USE DEF SchedulerInv, SchedulerTypeOK, IntentsArmed
<1>1. ASSUME NEW targets \in (SUBSET Targets) \ {{}}, schedule(targets, TRUE)
      PROVE  SchedulerInv'
  <2>1. SchedulerTypeOK'
    BY <1>1, Zenon DEF schedule
  <2>2. /\ pending_targets' = pending_targets \cup targets
        /\ pending_compile' = TRUE /\ scheduled' = TRUE
        /\ due_at' = IF scheduled THEN due_at ELSE "armed"
    BY <1>1, Zenon DEF schedule
  <2>3. targets # {}
    BY <1>1, Zenon
  <2>4. pending_targets' # {}
    BY <2>2, <2>3, Zenon
  <2>5. due_at' # "none"
    BY <2>2, Zenon
  <2>6. QED
    BY <2>1, <2>2, <2>4, <2>5, Zenon
<1>2. CASE schedule_reindex
  BY <1>2, Zenon DEF schedule_reindex, schedule
<1>3. CASE Drop
  BY <1>3, Zenon DEF Drop
<1>4. CASE Elapse
  BY <1>4, Zenon DEF Elapse
<1>5. CASE BeginRun
  BY <1>5, Zenon DEF BeginRun
<1>6. ASSUME NEW ok \in BOOLEAN, CompileDone(ok) PROVE SchedulerInv'
  BY <1>6, Zenon DEF CompileDone, shared
<1>7. CASE ReingestDone \/ FinishRun \/ WorkerExit
  <2>1. UNCHANGED shared
    BY <1>7, Zenon DEF ReingestDone, FinishRun, WorkerExit
  <2>2. run' \in {run, NoRun} /\ worker' \in {"waiting", "finished", "exited"}
    BY <1>7, Zenon DEF ReingestDone, FinishRun, WorkerExit
  <2>3. run' \in [targets : SUBSET Targets, compile : BOOLEAN, reindex : BOOLEAN]
    BY <2>2, NoRunTyped, Zenon
  <2>4. QED
    BY <2>1, <2>2, <2>3, Zenon DEF shared
<1>8. CASE UNCHANGED schedulerVars
  BY <1>8, Zenon DEF schedulerVars
<1>9. QED
  BY <1>1, <1>2, <1>3, <1>4, <1>5, <1>6, <1>7, <1>8, Zenon DEF SchedulerNext, WorkerStep

(* For every set of targets and every interleaving of schedules, drops and     *)
(* worker steps: a pending intent always has an armed run, and an armed run    *)
(* always has an intent.                                                       *)
THEOREM NoIntentStranded == SchedulerSpec => [](SchedulerTypeOK /\ IntentsArmed)
<1>1. SchedulerInv => SchedulerTypeOK /\ IntentsArmed
  BY Zenon DEF SchedulerInv
<1>2. QED
  BY <1>1, SchedulerInvInit, SchedulerInvStep, PTL DEF SchedulerSpec

-------------------------------------------------------------------------------
(* The scheduler's own invariant, and what else each variable holds. *)
PipelineTypes ==
  /\ SchedulerInv
  /\ want \in [Targets -> Nat] /\ built \in [Targets -> Nat] /\ indexed \in [Targets -> Nat]
  /\ seen \in [Targets -> Nat] /\ scan \in [Targets -> Nat]
  /\ failed \in [Targets -> Nat] /\ dropped \in [Targets -> Nat]
  /\ lock \in {"free", "worker", "loop"} /\ watched \in BOOLEAN
  /\ lock = "worker" => worker = "reingesting"

(* The pipeline starts with a new scheduler and nothing indexed. *)
LEMMA TypesInit == PipelineInit => PipelineTypes
<1> SUFFICES ASSUME PipelineInit  PROVE PipelineTypes
  OBVIOUS
<1>1. SchedulerInv
  BY SchedulerInvInit, Zenon DEF PipelineInit
<1> QED
  BY <1>1, Zenon DEF PipelineInit, PipelineTypes, Zero

(* Every call the pipeline makes of the scheduler is one the scheduler allows. *)
LEMMA SchedulerCalls ==
  ASSUME PipelineTypes, [PipelineNext]_pipelineVars
  PROVE  SchedulerInv'
<1> USE DEF PipelineTypes
<1>1. ASSUME UNCHANGED schedulerVars  PROVE SchedulerInv'
  BY <1>1, SchedulerInvStep, Zenon
<1>2. ASSUME SchedulerNext  PROVE SchedulerInv'
  BY <1>2, SchedulerInvStep, Zenon
<1>3. ASSUME NEW t \in Targets, schedule_save_build(t)  PROVE SchedulerInv'
  <2>1. Closure[t] \in (SUBSET Targets) \ {{}}
    BY PipelineConstants, Zenon
  <2> QED
    BY <1>2, <1>3, <2>1, Zenon DEF schedule_save_build, SchedulerNext
<1>4. ASSUME NEW t \in Targets, OutsideBuild(t)  PROVE SchedulerInv'
  BY <1>1, <1>4, Zenon DEF OutsideBuild
<1>5. CASE ScheduleHeal \/ on_watched_files
  BY <1>2, <1>5, Zenon DEF ScheduleHeal, on_watched_files, SchedulerNext
<1>6. CASE Reindex \/ reload_build_model \/ LoopLocks \/ WorkerLocks
  BY <1>1, <1>6, Zenon DEF Reindex, reload_build_model, LoopLocks, WorkerLocks
<1>7. CASE \E ok \in BOOLEAN : LoopIngests(ok)
  BY <1>1, <1>7, Zenon DEF LoopIngests
<1>8. CASE DropScheduler
  BY <1>2, <1>8, Zenon DEF DropScheduler, SchedulerNext
<1>9. CASE JoinWorker
  <2>1. CASE UNCHANGED schedulerVars
    BY <1>1, <2>1, Zenon
  <2>2. CASE ~ UNCHANGED schedulerVars
    <3>1. SchedulerInit'
      BY <1>9, <2>2, Zenon DEF JoinWorker, SchedulerInit
    <3>2. SchedulerInit' => SchedulerInv'
      BY SchedulerInvInit, PTL
    <3> QED
      BY <3>1, <3>2, Zenon
  <2> QED
    BY <2>1, <2>2, Zenon
<1>10. CASE WorkerBegins \/ DebounceElapses
  BY <1>2, <1>10, Zenon DEF WorkerBegins, DebounceElapses, SchedulerNext, WorkerStep
<1>11. CASE \E ok \in BOOLEAN : Compile(ok)
  BY <1>2, <1>11, Zenon DEF Compile, SchedulerNext, WorkerStep
<1>12. CASE \E ok \in BOOLEAN : WorkerIngests(ok)
  BY <1>2, <1>12, Zenon DEF WorkerIngests, SchedulerNext, WorkerStep
<1>13. CASE WorkerRests
  BY <1>2, <1>13, Zenon DEF WorkerRests, SchedulerNext, WorkerStep
<1>14. CASE UNCHANGED pipelineVars
  BY <1>1, <1>14, Zenon DEF pipelineVars
<1> QED
  BY <1>3, <1>4, <1>5, <1>6, <1>7, <1>8, <1>9, <1>10, <1>11, <1>12, <1>13, <1>14, Zenon
     DEF PipelineNext, LoopContinues, WorkerContinues

(* Versions stay natural numbers, and the worker holds the lock only while it  *)
(* reingests.                                                                  *)
LEMMA TypesStep ==
  ASSUME PipelineTypes, [PipelineNext]_pipelineVars
  PROVE  PipelineTypes'
<1> DEFINE Rest == /\ want \in [Targets -> Nat] /\ built \in [Targets -> Nat]
                   /\ indexed \in [Targets -> Nat] /\ seen \in [Targets -> Nat]
                   /\ scan \in [Targets -> Nat] /\ failed \in [Targets -> Nat]
                   /\ dropped \in [Targets -> Nat] /\ watched \in BOOLEAN
           Held == /\ lock \in {"free", "worker", "loop"}
                   /\ lock = "worker" => worker = "reingesting"
<1> Rest /\ Held /\ SchedulerInv
  BY Zenon DEF PipelineTypes
<1> SchedulerTypeOK
  BY Zenon DEF SchedulerInv
<1>1. ASSUME NEW t \in Targets, schedule_save_build(t)  PROVE Rest' /\ Held'
  BY <1>1 DEF schedule_save_build, schedule, loopVars
<1>2. ASSUME NEW t \in Targets, OutsideBuild(t)  PROVE Rest' /\ Held'
  BY <1>2 DEF OutsideBuild, schedulerVars
<1>3. ASSUME ScheduleHeal \/ on_watched_files  PROVE Rest' /\ Held'
  BY <1>3, Zenon DEF ScheduleHeal, on_watched_files, schedule_reindex, schedule, loopVars, versions
<1>4. ASSUME Reindex \/ reload_build_model  PROVE Rest' /\ Held'
  BY <1>4, Zenon DEF Reindex, reload_build_model, schedulerVars, versions
<1>5. ASSUME LoopLocks \/ WorkerLocks  PROVE Rest' /\ Held'
  BY <1>5, Zenon DEF LoopLocks, WorkerLocks, schedulerVars
<1>6. ASSUME NEW ok \in BOOLEAN, LoopIngests(ok)  PROVE Rest' /\ Held'
  BY <1>6, Zenon DEF LoopIngests, Publish, schedulerVars
<1>7. ASSUME DropScheduler  PROVE Rest' /\ Held'
  BY <1>7, Zenon DEF DropScheduler, Drop, versions
<1>8. ASSUME JoinWorker  PROVE Rest' /\ Held'
  BY <1>8, Zenon DEF JoinWorker, schedulerVars
<1>9. ASSUME WorkerBegins  PROVE Rest' /\ Held'
  BY <1>9, Zenon DEF WorkerBegins, BeginRun, loopVars
<1>10. ASSUME NEW ok \in BOOLEAN, Compile(ok)  PROVE Rest' /\ Held'
  <2>1. built' \in [Targets -> Nat]
    BY <1>10, Zenon DEF Compile, Later
  <2>2. failed' \in [Targets -> Nat]
    BY <1>10, Zenon DEF Compile, Later
  <2> QED
    BY <1>10, <2>1, <2>2, Zenon DEF Compile, CompileDone, loopVars
<1>11. ASSUME NEW ok \in BOOLEAN, WorkerIngests(ok)  PROVE Rest' /\ Held'
  <2>1. indexed' \in [Targets -> Nat]
    BY <1>11, Zenon DEF WorkerIngests, Publish
  <2>2. failed' \in [Targets -> Nat]
    BY <1>11, Zenon DEF WorkerIngests, Later
  <2> QED
    BY <1>11, <2>1, <2>2, Zenon DEF WorkerIngests
<1>12. ASSUME WorkerRests  PROVE Rest' /\ Held'
  BY <1>12, Zenon DEF WorkerRests, FinishRun, WorkerExit, versions, loopVars
<1>13. ASSUME DebounceElapses  PROVE Rest' /\ Held'
  BY <1>13, Zenon DEF DebounceElapses, Elapse, versions, loopVars
<1>14. ASSUME UNCHANGED pipelineVars  PROVE Rest' /\ Held'
  BY <1>14, Zenon DEF pipelineVars, schedulerVars, versions, loopVars
<1>15. Rest' /\ Held'
  BY <1>1, <1>2, <1>3, <1>4, <1>5, <1>6, <1>7, <1>8, <1>9, <1>10, <1>11, <1>12, <1>13, <1>14, Zenon
     DEF PipelineNext, LoopContinues, WorkerContinues
<1> QED
  BY <1>15, SchedulerCalls, Zenon DEF PipelineTypes

(* Also where the message loop drives it, and a reload drops it and puts a new *)
(* one in its place: no intent is ever stranded, every version is a number,    *)
(* and the worker holds the ingest lock only while it reingests.               *)
THEOREM PipelineArmed == PipelineSpec => []PipelineTypes
<1>1. PipelineTypes /\ [PipelineNext]_pipelineVars => PipelineTypes'
  BY TypesStep
<1> QED
  BY <1>1, TypesInit, PTL DEF PipelineSpec

-------------------------------------------------------------------------------
(* A reason why the target will be looked at again. *)
Noted(u) == watched \/ pending_reindex \/ u \in pending_targets

(* Neither an output nor what a run has seen is newer than the source, no index *)
(* is newer than its output, and an ingest in progress began no earlier than    *)
(* the last one ended.                                                          *)
Ordered(u) ==
  /\ indexed[u] <= built[u] /\ built[u] <= want[u] /\ seen[u] <= want[u]
  /\ lock # "free" => indexed[u] <= scan[u] /\ scan[u] <= built[u]

(* A run knows of every change, but for those that are noted for the next.     *)
RunKnows(u) == worker \in {"compiling", "reingesting"} => want[u] <= seen[u] \/ Noted(u)

(* A change waits for a compile, is being compiled, or was compiled or given   *)
(* up on.                                                                      *)
Compiled(u) ==
  \/ u \in pending_targets
  \/ worker = "compiling" /\ u \in run.targets /\ want[u] <= seen[u]
  \/ want[u] <= built[u] \/ want[u] <= failed[u] \/ want[u] <= dropped[u]

(* Output waits for an ingest, is being ingested, or was ingested or given up  *)
(* on.  A run whose compile fails ingests only if a reindex shares it.         *)
Ingested(u) ==
  \/ Noted(u)
  \/ worker = "compiling" /\ (u \in run.targets \/ run.reindex)
  \/ worker = "reingesting" /\ (lock = "worker" => built[u] <= scan[u])
  \/ built[u] <= indexed[u] \/ built[u] <= failed[u] \/ built[u] <= dropped[u]

Numbers(u) ==
  /\ want[u] \in Nat /\ built[u] \in Nat /\ indexed[u] \in Nat /\ seen[u] \in Nat
  /\ scan[u] \in Nat /\ failed[u] \in Nat /\ dropped[u] \in Nat

TargetInv(u) == Ordered(u) /\ RunKnows(u) /\ Compiled(u) /\ Ingested(u)

(* IndexAtRest, strengthened: the index is always that of the model in use,    *)
(* and each change of each target is somewhere on its way.                     *)
PipelineInv ==
  /\ PipelineTypes
  /\ indexModel = model
  /\ \A u \in Targets : TargetInv(u)

-------------------------------------------------------------------------------
(* A new server has indexed everything it knows of. *)
LEMMA PipelineInvInit == PipelineInit => PipelineInv
<1> SUFFICES ASSUME PipelineInit  PROVE PipelineInv
  OBVIOUS
<1> QED
  BY TypesInit DEF PipelineInit, SchedulerInit, PipelineInv, TargetInv, Zero, Ordered, RunKnows, Compiled, Ingested

(* The later of two versions is one of them, and not below either. *)
LEMMA LaterOf ==
  ASSUME NEW x \in Nat, NEW y \in Nat
  PROVE  /\ Later(x, y) \in {x, y} /\ Later(x, y) \in Nat
         /\ x <= Later(x, y) /\ y <= Later(x, y)
BY DEF Later

(* Versions are natural numbers. *)
LEMMA NumbersTyped ==
  ASSUME PipelineInv, NEW u \in Targets
  PROVE  Numbers(u)
BY Zenon DEF PipelineInv, PipelineTypes, Numbers

(* A notification: a save adds a version to its closure and marks it for       *)
(* compilation, a heal or a reported file marks everything for a reindex.      *)
LEMMA ScheduleTarget ==
  ASSUME PipelineInv, NEW u \in Targets,
         (\E t \in Targets : schedule_save_build(t)) \/ ScheduleHeal \/ on_watched_files
  PROVE  TargetInv(u)'
<1>n. Numbers(u)
  BY NumbersTyped, Zenon
<1>i. Ordered(u) /\ RunKnows(u) /\ Compiled(u) /\ Ingested(u)
  BY Zenon DEF PipelineInv, TargetInv
<1>1. ASSUME NEW t \in Targets, schedule_save_build(t)  PROVE TargetInv(u)'
  <2>1. /\ pending_targets' = pending_targets \cup Closure[t]
        /\ pending_reindex \in BOOLEAN /\ pending_reindex' = pending_reindex
        /\ worker' = worker /\ run' = run
    BY <1>1, Zenon DEF schedule_save_build, schedule, PipelineInv, PipelineTypes, SchedulerInv, SchedulerTypeOK
  <2>2. UNCHANGED <<built, indexed, seen, scan, failed, dropped, lock, watched>>
    BY <1>1, Zenon DEF schedule_save_build, loopVars
  <2>w. want'[u] \in Nat /\ want[u] <= want'[u] /\ (u \notin Closure[t] => want'[u] = want[u])
    BY <1>1, <1>n DEF schedule_save_build, Numbers
  <2>3. Ordered(u)'
    BY <2>2, <2>w, <1>i, <1>n DEF Ordered, Numbers
  <2>4. RunKnows(u)'
    BY <2>1, <2>2, <2>w, <1>i, Zenon DEF RunKnows, Noted
  <2>5. Compiled(u)'
    BY <2>1, <2>2, <2>w, <1>i, Zenon DEF Compiled
  <2>6. Ingested(u)'
    BY <2>1, <2>2, <1>i, Zenon DEF Ingested, Noted
  <2> QED
    BY <2>3, <2>4, <2>5, <2>6, Zenon DEF TargetInv
<1>2. CASE ScheduleHeal \/ on_watched_files
  <2>1. /\ pending_targets' = pending_targets /\ pending_reindex' = TRUE
        /\ UNCHANGED <<worker, run, versions, lock>>
    BY <1>2, Zenon DEF ScheduleHeal, on_watched_files, schedule_reindex, schedule, loopVars
  <2> QED
    BY <2>1, <1>i, Zenon DEF TargetInv, Ordered, RunKnows, Compiled, Ingested, Noted, versions
<1> QED
  BY <1>1, <1>2, Zenon

(* A build outside the editor: its output is newer than any ingest, and the    *)
(* client's report of it is on its way.                                        *)
LEMMA OutsideTarget ==
  ASSUME PipelineInv, NEW u \in Targets, NEW t \in Targets, OutsideBuild(t)
  PROVE  TargetInv(u)'
<1>n. Numbers(u)
  BY NumbersTyped, Zenon
<1>i. Ordered(u) /\ RunKnows(u) /\ Compiled(u) /\ Ingested(u)
  BY Zenon DEF PipelineInv, TargetInv
<1>1. /\ want'[u] = (IF u = t THEN want[u] + 1 ELSE want[u])
      /\ built'[u] = (IF u = t THEN want[u] + 1 ELSE built[u])
  BY Zenon DEF OutsideBuild, PipelineInv, PipelineTypes
<1>2. /\ watched' = TRUE
      /\ UNCHANGED <<schedulerVars, indexed, seen, scan, failed, dropped, lock>>
  BY Zenon DEF OutsideBuild
<1>3. Ordered(u)'
  BY <1>1, <1>2, <1>i, <1>n DEF Ordered, Numbers
<1>4. RunKnows(u)' /\ Ingested(u)'
  BY <1>2, <1>i, Zenon DEF RunKnows, Ingested, Noted
<1>5. Compiled(u)'
  <2>1. CASE u = t
    BY <1>1, <1>2, <2>1, <1>i, <1>n DEF Compiled, Numbers
  <2>2. CASE u # t
    BY <1>1, <1>2, <2>2, <1>i, Zenon DEF Compiled, schedulerVars
  <2> QED
    BY <2>1, <2>2, Zenon
<1> QED
  BY <1>3, <1>4, <1>5, Zenon DEF TargetInv

(* The loop's other steps: only its ingest touches a version, and what it      *)
(* publishes is no older than what it replaces.                                *)
LEMMA LoopTarget ==
  ASSUME PipelineInv, NEW u \in Targets,
         \/ Reindex \/ reload_build_model \/ LoopLocks \/ DropScheduler \/ JoinWorker
         \/ \E ok \in BOOLEAN : LoopIngests(ok)
  PROVE  TargetInv(u)'
<1>n. Numbers(u)
  BY NumbersTyped, Zenon
<1>i. Ordered(u) /\ RunKnows(u) /\ Compiled(u) /\ Ingested(u)
  BY Zenon DEF PipelineInv, TargetInv
<1>1. CASE Reindex \/ reload_build_model
  <2>1. UNCHANGED <<schedulerVars, versions, lock, watched>>
    BY <1>1, Zenon DEF Reindex, reload_build_model
  <2> QED
    BY <2>1, <1>i, Zenon DEF TargetInv, Ordered, RunKnows, Compiled, Ingested, Noted, versions, schedulerVars
<1>2. CASE LoopLocks
  <2>1. /\ scan'[u] = built[u] /\ lock = "free" /\ lock' = "loop"
        /\ UNCHANGED <<schedulerVars, want, built, indexed, seen, failed, dropped, watched>>
    BY <1>2, Zenon DEF LoopLocks
  <2>2. Ordered(u)'
    BY <2>1, <1>i, <1>n DEF Ordered, Numbers
  <2>3. RunKnows(u)' /\ Compiled(u)'
    BY <2>1, <1>i, Zenon DEF RunKnows, Compiled, Noted, schedulerVars
  <2>4. Ingested(u)'
    BY <2>1, <1>i, Zenon DEF Ingested, Noted, schedulerVars
  <2> QED
    BY <2>2, <2>3, <2>4, Zenon DEF TargetInv
<1>3. CASE DropScheduler
  BY <1>3, <1>i, Zenon DEF DropScheduler, Drop, TargetInv, Ordered, RunKnows, Compiled, Ingested, Noted, versions
<1>4. CASE JoinWorker
  <2>1. /\ worker = "exited" /\ worker' \in {"exited", "waiting"}
        /\ UNCHANGED <<want, built, indexed, seen, scan, failed, lock, watched>>
    BY <1>4, Zenon DEF JoinWorker, schedulerVars
  <2>2. dropped'[u] = IF pending_reindex \/ u \in pending_targets THEN want[u] ELSE dropped[u]
    BY <1>4, Zenon DEF JoinWorker
  <2>3. Ordered(u)' /\ RunKnows(u)'
    BY <2>1, <1>i, <1>n, Zenon DEF Ordered, RunKnows, Numbers
  <2>4. Compiled(u)'
    <3>1. CASE pending_reindex \/ u \in pending_targets
      BY <2>1, <2>2, <3>1, <1>i, <1>n DEF Compiled, Numbers
    <3>2. CASE ~ (pending_reindex \/ u \in pending_targets)
      BY <2>1, <2>2, <3>2, <1>i, <1>n, Zenon DEF Compiled, Numbers
    <3> QED
      BY <3>1, <3>2, Zenon
  <2>5. Ingested(u)'
    BY <2>1, <2>2, <1>i, <1>n, Zenon DEF Ingested, Noted, Ordered, Numbers
  <2> QED
    BY <2>3, <2>4, <2>5, Zenon DEF TargetInv
<1>5. ASSUME NEW ok \in BOOLEAN, LoopIngests(ok)  PROVE TargetInv(u)'
  <2>1. /\ lock = "loop" /\ lock' = "free"
        /\ UNCHANGED <<schedulerVars, want, built, seen, scan, failed, dropped, watched>>
    BY <1>5, Zenon DEF LoopIngests
  <2>2. indexed'[u] \in {indexed[u], built[u], scan[u]}
    BY <1>5, Zenon DEF LoopIngests, Publish
  <2>3. indexed'[u] \in Nat /\ indexed[u] <= indexed'[u] /\ indexed'[u] <= built[u]
    BY <2>1, <2>2, <1>i, <1>n DEF Ordered, Numbers
  <2>4. Ordered(u)'
    BY <2>1, <2>3, <1>i, <1>n, Zenon DEF Ordered, Numbers
  <2>5. RunKnows(u)' /\ Compiled(u)'
    BY <2>1, <1>i, Zenon DEF RunKnows, Compiled, Noted, schedulerVars
  <2>6. Ingested(u)'
    BY <2>1, <2>3, <1>i, <1>n DEF Ingested, Noted, Numbers, schedulerVars
  <2> QED
    BY <2>4, <2>5, <2>6, Zenon DEF TargetInv
<1> QED
  BY <1>1, <1>2, <1>3, <1>4, <1>5, Zenon

(* The worker begins a run with every pending intent: all changes are then     *)
(* known to it.                                                                *)
LEMMA BeginTarget ==
  ASSUME PipelineInv, NEW u \in Targets, WorkerBegins
  PROVE  TargetInv(u)'
<1>n. Numbers(u)
  BY NumbersTyped, Zenon
<1>i. Ordered(u) /\ RunKnows(u) /\ Compiled(u) /\ Ingested(u)
  BY Zenon DEF PipelineInv, TargetInv
<1>1. /\ worker = "waiting"
      /\ worker' = IF pending_compile /\ pending_targets # {} THEN "compiling" ELSE "reingesting"
      /\ run'.targets = pending_targets /\ run'.reindex = pending_reindex
      /\ pending_targets' = {} /\ pending_reindex' = FALSE
  BY Zenon DEF WorkerBegins, BeginRun
<1>2. /\ seen'[u] = want[u]
      /\ UNCHANGED <<want, built, indexed, scan, failed, dropped, lock, watched>>
  BY Zenon DEF WorkerBegins, loopVars
<1>3. pending_compile <=> pending_targets # {}
  BY Zenon DEF PipelineInv, PipelineTypes, SchedulerInv, IntentsArmed
<1>4. lock # "worker"
  BY <1>1, Zenon DEF PipelineInv, PipelineTypes
<1>5. Ordered(u)' /\ RunKnows(u)'
  BY <1>1, <1>2, <1>i, <1>n DEF Ordered, RunKnows, Numbers
<1>6. Compiled(u)'
  BY <1>1, <1>2, <1>3, <1>i, <1>n DEF Compiled, Numbers
<1>7. Ingested(u)'
  BY <1>1, <1>2, <1>4, <1>i, Zenon DEF Ingested, Noted
<1> QED
  BY <1>5, <1>6, <1>7, Zenon DEF TargetInv

(* The compile returns: what it read is built, what it failed on is given up.  *)
LEMMA CompileTarget ==
  ASSUME PipelineInv, NEW u \in Targets, NEW ok \in BOOLEAN, Compile(ok)
  PROVE  TargetInv(u)'
<1>n. Numbers(u)
  BY NumbersTyped, Zenon
<1>i. Ordered(u) /\ RunKnows(u) /\ Compiled(u) /\ Ingested(u)
  BY Zenon DEF PipelineInv, TargetInv
<1>1. /\ worker = "compiling" /\ run.reindex \in BOOLEAN
      /\ worker' = IF ok \/ run.reindex THEN "reingesting" ELSE "finished"
      /\ UNCHANGED <<pending_targets, pending_reindex>>
  BY Zenon DEF Compile, CompileDone, shared, PipelineInv, PipelineTypes, SchedulerInv, SchedulerTypeOK
<1>2. UNCHANGED <<want, indexed, seen, scan, dropped, lock, watched>>
  BY Zenon DEF Compile, loopVars
<1>3. failed'[u] = IF ~ ok /\ u \in run.targets THEN Later(failed[u], seen[u]) ELSE failed[u]
  BY Zenon DEF Compile
<1>4. PICK late \in SUBSET run.targets, done \in SUBSET run.targets :
        /\ ok => done = run.targets
        /\ built' = [v \in Targets |->
                       IF v \in done THEN Later(built[v], IF v \in late THEN want[v] ELSE seen[v])
                       ELSE built[v]]
  BY Zenon DEF Compile
<1>5. built'[u] = IF u \in done THEN Later(built[u], IF u \in late THEN want[u] ELSE seen[u])
                  ELSE built[u]
  BY <1>4, Zenon
<1>6. lock # "worker"
  BY <1>1, Zenon DEF PipelineInv, PipelineTypes
<1>7. seen[u] <= want[u]
  BY <1>i, <1>n, Zenon DEF Ordered, Numbers
<1>8. built[u] <= built'[u] /\ built'[u] <= want[u] /\ built'[u] \in Nat
  <2> DEFINE read == IF u \in late THEN want[u] ELSE seen[u]
  <2>1. read \in Nat /\ read <= want[u] /\ built[u] \in Nat /\ built[u] <= want[u]
    BY <1>7, <1>i, <1>n DEF Ordered, Numbers
  <2>2. built'[u] = IF u \in done THEN Later(built[u], read) ELSE built[u]
    BY <1>5, Zenon
  <2> HIDE DEF read
  <2>3. Later(built[u], read) \in {built[u], read} /\ built[u] <= Later(built[u], read)
    BY <2>1, LaterOf, Zenon
  <2> QED
    BY <2>1, <2>2, <2>3, <1>n DEF Numbers
<1>9. Ordered(u)'
  BY <1>2, <1>8, <1>i, <1>n DEF Ordered, Numbers
<1>10. RunKnows(u)'
  BY <1>1, <1>2, <1>i, Zenon DEF RunKnows, Noted
<1>11. Compiled(u)'
  <2>1. CASE u \in run.targets /\ ok
    <3>1. failed'[u] = failed[u] /\ u \in done
      BY <1>3, <1>4, <2>1, Zenon
    <3>2. built'[u] = Later(built[u], want[u]) \/ built'[u] = Later(built[u], seen[u])
      BY <1>5, <3>1, Zenon
    <3>3. seen[u] <= built'[u]
      <4>1. want[u] <= Later(built[u], want[u]) /\ seen[u] <= Later(built[u], seen[u])
        BY <1>n, LaterOf, Zenon DEF Numbers
      <4> QED
        BY <1>7, <1>8, <3>2, <4>1, <1>n DEF Numbers
    <3> QED
      BY <1>1, <1>2, <1>8, <3>1, <3>3, <1>i, <1>n DEF Compiled, Numbers
  <2>2. CASE u \in run.targets /\ ~ ok
    <3>1. failed'[u] \in Nat /\ failed[u] <= failed'[u] /\ seen[u] <= failed'[u]
      BY <1>3, <2>2, <1>n, LaterOf, Zenon DEF Numbers
    <3> QED
      BY <1>1, <1>2, <1>8, <3>1, <1>i, <1>n DEF Compiled, Numbers
  <2>3. CASE u \notin run.targets
    BY <1>1, <1>2, <1>3, <1>8, <2>3, <1>i, <1>n DEF Compiled, Numbers
  <2> QED
    BY <2>1, <2>2, <2>3, Zenon
<1>12. Ingested(u)'
  <2>1. CASE ok \/ run.reindex
    BY <1>1, <1>2, <1>6, <2>1, <1>i, <1>n, Zenon DEF Ingested, Numbers
  <2>2. CASE ~ ok /\ ~ run.reindex /\ u \in run.targets
    <3>1. failed'[u] \in Nat /\ seen[u] <= failed'[u]
      BY <1>3, <2>2, <1>n, LaterOf, Zenon DEF Numbers
    <3>2. CASE want[u] <= seen[u]
      BY <1>2, <1>8, <3>1, <3>2, <1>i, <1>n DEF Ingested, Numbers
    <3>3. CASE Noted(u)
      BY <1>1, <1>2, <3>3, <1>i, Zenon DEF Ingested, Noted
    <3> QED
      BY <1>1, <3>2, <3>3, <1>i, <1>n, Zenon DEF RunKnows, Numbers
  <2>3. CASE ~ ok /\ ~ run.reindex /\ u \notin run.targets
    BY <1>1, <1>2, <1>3, <1>5, <2>3, <1>i, Zenon DEF Ingested, Noted
  <2> QED
    BY <1>1, <2>1, <2>2, <2>3, Zenon
<1> QED
  BY <1>9, <1>10, <1>11, <1>12, Zenon DEF TargetInv

(* The worker's reingest, and its return to rest. *)
LEMMA ReingestTarget ==
  ASSUME PipelineInv, NEW u \in Targets,
         WorkerLocks \/ WorkerRests \/ \E ok \in BOOLEAN : WorkerIngests(ok)
  PROVE  TargetInv(u)'
<1>n. Numbers(u)
  BY NumbersTyped, Zenon
<1>i. Ordered(u) /\ RunKnows(u) /\ Compiled(u) /\ Ingested(u)
  BY Zenon DEF PipelineInv, TargetInv
<1>1. CASE WorkerLocks
  <2>1. /\ scan'[u] = built[u] /\ lock = "free" /\ lock' = "worker"
        /\ UNCHANGED <<schedulerVars, want, built, indexed, seen, failed, dropped, watched>>
    BY <1>1, Zenon DEF WorkerLocks
  <2>2. Ordered(u)'
    BY <2>1, <1>i, <1>n DEF Ordered, Numbers
  <2>3. RunKnows(u)' /\ Compiled(u)'
    BY <2>1, <1>i, Zenon DEF RunKnows, Compiled, Noted, schedulerVars
  <2>4. Ingested(u)'
    BY <2>1, <1>i, <1>n DEF Ingested, Noted, Numbers, schedulerVars
  <2> QED
    BY <2>2, <2>3, <2>4, Zenon DEF TargetInv
<1>2. CASE WorkerRests
  <2>1. /\ worker \in {"finished", "waiting"} /\ worker' \in {"waiting", "exited"}
        /\ UNCHANGED <<pending_targets, pending_reindex>>
        /\ UNCHANGED <<want, built, indexed, seen, scan, failed, dropped, lock, watched>>
    BY <1>2, Zenon DEF WorkerRests, FinishRun, WorkerExit, shared, versions, loopVars
  <2> QED
    BY <2>1, <1>i, Zenon DEF TargetInv, Ordered, RunKnows, Compiled, Ingested, Noted
<1>3. ASSUME NEW ok \in BOOLEAN, WorkerIngests(ok)  PROVE TargetInv(u)'
  <2>1. /\ lock = "worker" /\ lock' = "free"
        /\ worker = "reingesting" /\ worker' = "finished"
        /\ UNCHANGED <<pending_targets, pending_reindex, want, built, seen, scan, dropped, watched>>
    BY <1>3, Zenon DEF WorkerIngests, ReingestDone, shared
  <2>2. CASE ok
    <3>1. indexed'[u] \in {built[u], scan[u]} /\ failed' = failed
      BY <1>3, <2>2, Zenon DEF WorkerIngests, Publish
    <3>2. /\ indexed'[u] \in Nat /\ indexed[u] <= indexed'[u]
          /\ scan[u] <= indexed'[u] /\ indexed'[u] <= built[u]
      BY <2>1, <3>1, <1>i, <1>n DEF Ordered, Numbers
    <3>3. Ordered(u)' /\ RunKnows(u)' /\ Compiled(u)'
      BY <2>1, <3>1, <3>2, <1>i, <1>n, Zenon DEF Ordered, RunKnows, Compiled, Numbers
    <3>4. Ingested(u)'
      BY <2>1, <3>1, <3>2, <1>i, <1>n DEF Ingested, Noted, Numbers
    <3> QED
      BY <3>3, <3>4, Zenon DEF TargetInv
  <2>3. CASE ~ ok
    <3>1. indexed' = indexed /\ failed'[u] = Later(failed[u], seen[u])
      BY <1>3, <2>3, Zenon DEF WorkerIngests
    <3>2. failed'[u] \in Nat /\ failed[u] <= failed'[u] /\ seen[u] <= failed'[u]
      BY <3>1, <1>n, LaterOf, Zenon DEF Numbers
    <3>3. Ordered(u)' /\ RunKnows(u)'
      BY <2>1, <3>1, <1>i, <1>n, Zenon DEF Ordered, RunKnows, Numbers
    <3>4. Compiled(u)'
      BY <2>1, <3>2, <1>i, <1>n DEF Compiled, Numbers
    <3>5. Ingested(u)'
      <4>1. CASE want[u] <= seen[u]
        <5>1. built[u] <= failed'[u]
          BY <3>2, <4>1, <1>i, <1>n DEF Ordered, Numbers
        <5> QED
          BY <2>1, <3>1, <3>2, <5>1, <1>i, <1>n, Zenon DEF Ingested, Numbers
      <4>2. CASE Noted(u)
        BY <2>1, <4>2, <1>i, Zenon DEF Ingested, Noted
      <4> QED
        BY <2>1, <4>1, <4>2, <1>i, <1>n, Zenon DEF RunKnows, Numbers
    <3> QED
      BY <3>3, <3>4, <3>5, Zenon DEF TargetInv
  <2> QED
    BY <2>2, <2>3, Zenon
<1> QED
  BY <1>1, <1>2, <1>3, Zenon

(* No step of the loop, the worker, the build tool or the clock breaks it. *)
LEMMA PipelineInvStep == PipelineInv /\ [PipelineNext]_pipelineVars => PipelineInv'
<1> SUFFICES ASSUME PipelineInv, [PipelineNext]_pipelineVars  PROVE PipelineInv'
  OBVIOUS
<1>1. ASSUME NEW u \in Targets  PROVE TargetInv(u)'
  <2>1. CASE DebounceElapses \/ UNCHANGED pipelineVars
    <3>1. UNCHANGED <<pending_targets, pending_reindex, worker, run, versions, loopVars>>
      BY <2>1, Zenon DEF DebounceElapses, Elapse, pipelineVars, schedulerVars
    <3> QED
      BY <3>1, Zenon DEF PipelineInv, TargetInv, Ordered, RunKnows, Compiled, Ingested, Noted, versions, loopVars
  <2> QED
    BY <2>1, ScheduleTarget, OutsideTarget, LoopTarget, BeginTarget, CompileTarget, ReingestTarget, Zenon
       DEF PipelineNext, LoopContinues, WorkerContinues
<1>2. (indexModel = model)'
  <2>1. indexModel = model
    BY Zenon DEF PipelineInv
  <2>2. CASE \E ok \in BOOLEAN : LoopIngests(ok) \/ WorkerIngests(ok)
    BY <2>1, <2>2, Zenon DEF LoopIngests, WorkerIngests, Publish
  <2>3. CASE \E ok \in BOOLEAN : Compile(ok)
    BY <2>1, <2>3, Zenon DEF Compile, loopVars
  <2>4. CASE \E t \in Targets : schedule_save_build(t) \/ OutsideBuild(t)
    BY <2>1, <2>4, Zenon DEF schedule_save_build, OutsideBuild, loopVars
  <2>5. CASE ScheduleHeal \/ on_watched_files \/ Reindex \/ reload_build_model \/ LoopLocks
    BY <2>1, <2>5, Zenon DEF ScheduleHeal, on_watched_files, Reindex, reload_build_model, LoopLocks, loopVars
  <2>6. CASE DropScheduler \/ JoinWorker \/ WorkerBegins \/ WorkerLocks \/ WorkerRests
    BY <2>1, <2>6, Zenon DEF DropScheduler, JoinWorker, WorkerBegins, WorkerLocks, WorkerRests, loopVars
  <2>7. CASE DebounceElapses \/ UNCHANGED pipelineVars
    BY <2>1, <2>7, Zenon DEF DebounceElapses, pipelineVars, loopVars
  <2> QED
    BY <2>2, <2>3, <2>4, <2>5, <2>6, <2>7, Zenon DEF PipelineNext, LoopContinues, WorkerContinues
<1> QED
  BY <1>1, <1>2, TypesStep, Zenon DEF PipelineInv

(* For any targets, any dependency closure and any number of saves, outside    *)
(* builds, reindexes and reloads, in any interleaving of the message loop with *)
(* the scheduler's worker: between ingests the index is that of the current    *)
(* workspace, and at rest it reflects every change that was not given up on.   *)
THEOREM RestIsIndexed == PipelineSpec => []IndexAtRest
<1>1. PipelineInv => IndexAtRest
  <2> SUFFICES ASSUME PipelineInv  PROVE IndexAtRest
    BY Zenon
  <2>1. lock = "free" => indexModel = model
    BY Zenon DEF PipelineInv
  <2>2. ASSUME mloop = "ready", worker = "waiting", ~ scheduled, ~ watched, NEW u \in Targets
        PROVE  want[u] <= Later(indexed[u], Later(failed[u], dropped[u]))
    <3>1. ~ Noted(u) /\ u \notin pending_targets
      BY <2>2, Zenon DEF PipelineInv, PipelineTypes, SchedulerInv, IntentsArmed, Noted
    <3> QED
      BY <2>2, <3>1, NumbersTyped DEF PipelineInv, TargetInv, Numbers, Compiled, Ingested, Later
  <2> QED
    BY <2>1, <2>2, Zenon DEF IndexAtRest
<1> QED
  BY <1>1, PipelineInvInit, PipelineInvStep, PTL DEF PipelineSpec
===============================================================================
