------------------------------ MODULE MCPeers ------------------------------
(***************************************************************************)
(* Instances, for TLC, of the two peers the server drives under deadlines: *)
(* the build server behind one BSP session, and the presentation-compiler  *)
(* island in its JVM.  They share no state: a behavior is one of one peer, *)
(* and the other stays as it begins.                                       *)
(***************************************************************************)
EXTENDS BspSession, PcIsland

CONSTANTS t1, t2, u1, x1, x2, loop, worker

VARIABLE part

all == <<part, islandVars, sessionVars>>

Init ==
    /\ part \in {"island", "session"}
    /\ IslandInit
    /\ part = "session" => outer = EmptyMirror
    /\ SessionInit

Next ==
    \/ part = "island" /\ IslandNext /\ UNCHANGED <<part, sessionVars>>
    \/ part = "session" /\ SessionNext /\ UNCHANGED <<part, islandVars>>

\* The fairness of each part's own specification
Spec ==
    /\ Init /\ [][Next]_all
    /\ WF_all(part = "island" /\ Supervising /\ UNCHANGED <<part, sessionVars>>)
    /\ WF_all(part = "island" /\ enter_dispatch_worker /\ UNCHANGED <<part, sessionVars>>)
    /\ \A n \in Generations :
          /\ WF_all(part = "island" /\ invoke_dispatch(n) /\ UNCHANGED <<part, sessionVars>>)
          /\ WF_all(part = "island" /\ ShortSlot(n) /\ UNCHANGED <<part, sessionVars>>)
    /\ \A c \in Callers :
          WF_all(/\ part = "session"
                 /\ Request(c) \/ close(c) \/ terminate(c)
                 /\ UNCHANGED <<part, islandVars>>)
    /\ WF_all(part = "session" /\ ReaderStep /\ UNCHANGED <<part, islandVars>>)

-----------------------------------------------------------------------------
\* Every operation of the session ends and no shut-down server survives it, when it
\* is the session that moves (BspSession, OperationsEnd)
SessionEnds == part = "session" => OperationsEnd
=============================================================================
