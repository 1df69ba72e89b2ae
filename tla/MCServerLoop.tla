---------------------------- MODULE MCServerLoop ----------------------------
(* The server loop for TLC.  A client either sends and cancels requests of    *)
(* every method, or opens and closes buffers while the build changes: which,  *)
(* is chosen once, and the product of the two is not explored.                *)
EXTENDS ServerLoop, SequencesExt

CONSTANT f

VARIABLE client           \* "asks" or "edits"

MCInit == ServerInit /\ client \in {"asks", "edits"}

Budget ==
  /\ client = "asks" => notes' = 0 /\ build' = 0
  /\ client = "edits" => /\ Len(sent') <= 1 /\ ToSet(sent') \subseteq {"initialize", "shutdown"}
                         /\ cancelled' = {}

MCNext == ServerNext /\ Budget /\ UNCHANGED client

MCSpec ==
  /\ MCInit
  /\ [][MCNext]_<<serverVars, client>>
  /\ WF_serverVars(~ Returned /\ Loop)
===============================================================================
