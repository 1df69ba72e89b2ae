----------------------------- MODULE DurableIndex -----------------------------
(***************************************************************************)
(* What the on-disk index promises, with no files in sight.  The index is  *)
(* a chain of immutable generations.  Committing appends the next one; a   *)
(* power loss may only forget a generation that was not yet made durable;  *)
(* a live server answers from one committed generation and moves forward   *)
(* by one; recovery resumes from whatever is committed.                    *)
(***************************************************************************)
EXTENDS Naturals

CONSTANT Payloads      \* what a generation may hold

VARIABLES
  committed,           \* the generation the commit point names
  durable,             \* the generation a power loss cannot take back
  alive,               \* is a server answering?
  serving              \* the generation it answers from

indexVars == <<committed, durable, alive, serving>>

(* Generation 0 is the empty index of a fresh store. *)
Empty == [gen |-> 0, run |-> 0, count |-> 0]

IndexInit ==
  /\ committed = Empty
  /\ durable = Empty
  /\ alive = FALSE
  /\ serving = Empty

Commit ==
  /\ alive
  /\ \E p \in Payloads :
       committed' = [gen |-> serving.gen + 1, run |-> p.run, count |-> p.count]
  /\ UNCHANGED <<durable, alive, serving>>

Sync ==
  /\ alive
  /\ durable' = committed
  /\ UNCHANGED <<committed, alive, serving>>

Serve ==
  /\ alive
  /\ durable = committed
  /\ committed.gen = serving.gen + 1
  /\ serving' = committed
  /\ UNCHANGED <<committed, durable, alive>>

Recover ==
  /\ ~alive
  /\ alive' = TRUE
  /\ serving' = committed
  /\ UNCHANGED <<committed, durable>>

Stop ==
  /\ alive' = FALSE
  /\ serving' = Empty
  /\ UNCHANGED <<committed, durable>>

LosePower ==
  /\ alive' = FALSE
  /\ serving' = Empty
  /\ committed' \in {committed, durable}
  /\ durable' = committed'

IndexNext == Commit \/ Sync \/ Serve \/ Recover \/ Stop \/ LosePower

IndexSpec == IndexInit /\ [][IndexNext]_indexVars
===============================================================================
