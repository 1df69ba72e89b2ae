---------------------------- MODULE BuildScheduler ----------------------------
(***************************************************************************)
(* The background build-job scheduler: the message loop schedules compile- *)
(* first jobs (didSave) and reindex-only jobs (heals), a fixed debounce    *)
(* collapses them into one run, and one worker thread compiles the         *)
(* accumulated targets and re-ingests.  `Shared` is behind one mutex; each *)
(* action below is one critical section, or one step of a run outside it.  *)
(***************************************************************************)
EXTENDS Naturals

CONSTANT Targets      \* build targets

VARIABLES
  scheduled,          \* Shared: a run is pending
  due_at,             \* Shared: "none", "armed", or "elapsed"
  shutting_down,      \* Shared: set by Drop
  pending_targets,    \* Shared: targets to compile before the reingest
  pending_compile,    \* Shared: a compile-first job is requested
  pending_reindex,    \* Shared: a reindex-only job is requested
  worker,             \* what the worker thread is doing
  run                 \* the intents the run in progress drained

shared == <<scheduled, due_at, shutting_down, pending_targets, pending_compile,
            pending_reindex>>
schedulerVars == <<scheduled, due_at, shutting_down, pending_targets,
                   pending_compile, pending_reindex, worker, run>>

NoRun == [targets |-> {}, compile |-> FALSE, reindex |-> FALSE]

SchedulerInit ==
  /\ scheduled = FALSE /\ due_at = "none" /\ shutting_down = FALSE
  /\ pending_targets = {} /\ pending_compile = FALSE /\ pending_reindex = FALSE
  /\ worker = "waiting" /\ run = NoRun

-------------------------------------------------------------------------------
(* schedule: merge the intent into the pending run, arming the debounce only   *)
(* when no run is pending yet.                                                 *)
schedule(targets, compile_first) ==
  /\ ~ shutting_down
  /\ pending_targets' = IF compile_first THEN pending_targets \cup targets
                        ELSE pending_targets
  /\ pending_compile' = (pending_compile \/ compile_first)
  /\ pending_reindex' = (pending_reindex \/ ~ compile_first)
  /\ scheduled' = TRUE
  /\ due_at' = IF scheduled THEN due_at ELSE "armed"
  /\ UNCHANGED <<shutting_down, worker, run>>

schedule_reindex == schedule({}, FALSE)

(* Drop: ask the worker to exit; the caller then joins it. *)
Drop ==
  /\ ~ shutting_down
  /\ shutting_down' = TRUE
  /\ UNCHANGED <<scheduled, due_at, pending_targets, pending_compile,
                 pending_reindex, worker, run>>

-------------------------------------------------------------------------------
(* The debounce window of the pending run passes. *)
Elapse ==
  /\ due_at = "armed"
  /\ due_at' = "elapsed"
  /\ UNCHANGED <<scheduled, shutting_down, pending_targets, pending_compile,
                 pending_reindex, worker, run>>

(* worker_loop, top: a due run begins by draining every pending intent. *)
BeginRun ==
  /\ worker = "waiting"
  /\ ~ shutting_down
  /\ scheduled /\ due_at = "elapsed"
  /\ run' = [targets |-> pending_targets, compile |-> pending_compile,
             reindex |-> pending_reindex]
  /\ worker' = IF pending_compile /\ pending_targets # {} THEN "compiling"
               ELSE "reingesting"
  /\ pending_targets' = {} /\ pending_compile' = FALSE /\ pending_reindex' = FALSE
  /\ scheduled' = FALSE /\ due_at' = "none"
  /\ UNCHANGED shutting_down

(* The compile returned: its failure skips the reingest, unless a reindex-only *)
(* intent shares the run.                                                      *)
CompileDone(ok) ==
  /\ worker = "compiling"
  /\ worker' = IF ok \/ run.reindex THEN "reingesting" ELSE "finished"
  /\ UNCHANGED <<shared, run>>

(* reingest_current returned, with whatever outcome: errors are only logged. *)
ReingestDone ==
  /\ worker = "reingesting"
  /\ worker' = "finished"
  /\ UNCHANGED <<shared, run>>

(* Mutant: the pending intents are cleared when the run ends. *)
FinishRunClearsPending ==
  /\ worker = "finished"
  /\ worker' = "waiting"
  /\ run' = NoRun
  /\ pending_targets' = {} /\ pending_compile' = FALSE /\ pending_reindex' = FALSE
  /\ scheduled' = FALSE /\ due_at' = "none"
  /\ UNCHANGED shutting_down

(* The run is counted and the worker looks for the next one. *)
FinishRun ==
  /\ worker = "finished"
  /\ worker' = "waiting"
  /\ run' = NoRun
  /\ UNCHANGED shared

(* A worker that finds shutting_down set returns, pending run or not. *)
WorkerExit ==
  /\ worker = "waiting"
  /\ shutting_down
  /\ worker' = "exited"
  /\ UNCHANGED <<shared, run>>

WorkerStep ==
  \/ BeginRun
  \/ \E ok \in BOOLEAN : CompileDone(ok)
  \/ ReingestDone \/ FinishRun \/ WorkerExit

-------------------------------------------------------------------------------
(* The scheduler under any sequence of calls its owner can make: didSave       *)
(* schedules a non-empty closure of targets, everything else a reindex.        *)
SchedulerNext ==
  \/ \E targets \in (SUBSET Targets) \ {{}} : schedule(targets, TRUE)
  \/ schedule_reindex
  \/ Drop
  \/ Elapse
  \/ WorkerStep

(* The worker thread keeps running, compiles and reingests return (BSP requests *)
(* are bounded by the session's request timeout), and time passes.              *)
SchedulerSpec ==
  /\ SchedulerInit
  /\ [][SchedulerNext]_schedulerVars
  /\ WF_schedulerVars(WorkerStep)
  /\ WF_schedulerVars(Elapse)

-------------------------------------------------------------------------------
(* Type correctness of the scheduler's shared state and its worker. *)
SchedulerTypeOK ==
  /\ scheduled \in BOOLEAN
  /\ due_at \in {"none", "armed", "elapsed"}
  /\ shutting_down \in BOOLEAN
  /\ pending_targets \subseteq Targets
  /\ pending_compile \in BOOLEAN
  /\ pending_reindex \in BOOLEAN
  /\ worker \in {"waiting", "compiling", "reingesting", "finished", "exited"}
  /\ run \in [targets : SUBSET Targets, compile : BOOLEAN, reindex : BOOLEAN]

(* No intent is stranded: whenever a target, a compile or a heal is pending,   *)
(* a run is scheduled and its debounce is ticking or over, whatever run is in  *)
(* progress meanwhile; and a scheduled run always has an intent to serve, with *)
(* targets only under a compile.                                               *)
IntentsArmed ==
  /\ scheduled <=> pending_compile \/ pending_reindex
  /\ scheduled <=> due_at # "none"
  /\ pending_compile <=> pending_targets # {}
===============================================================================
