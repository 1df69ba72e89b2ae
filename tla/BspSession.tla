------------------------------ MODULE BspSession ------------------------------
(***************************************************************************)
(* One live connection to a build server: the JSON-RPC client, whose       *)
(* reader thread pairs answers with the requests in flight and runs the    *)
(* notification handlers; the session's operations, each a few bounded     *)
(* requests in a row; the reload flag the handlers set; and the teardown   *)
(* of the server process.  The message loop and the build worker share the *)
(* session, which is dropped when neither uses it any more.                *)
(*                                                                         *)
(* The build model has revisions.  Each request is answered from the       *)
(* revision of that moment, and the server announces every new one.        *)
(***************************************************************************)
EXTENDS Naturals, Sequences, FiniteSets, Functions

CONSTANTS
  Callers,        \* threads that may use the session once it is ready
  NoScala3,       \* revisions without a Scala 3 target
  MaxRequests,    \* bound: requests
  MaxLate,        \* bound: timed-out requests that may yet be answered
  MaxRevision     \* bound: revisions of the build

VARIABLES
  server,         \* the process: "up" or "exited"
  revision,       \* the build's current revision
  received,       \* requests the server has not answered
  stream,         \* what it has sent and the reader has not read
  reader,         \* the reader thread: "reading", a waiter it took, or "ended"
  pending,        \* ids with a sender in the pending map
  next_id,
  channel,        \* what was sent into the channel each caller receives from
  caller,         \* what each caller does
  closed,
  model,          \* the revisions the model in use was loaded from
  to_reload,      \* the reload flag
  missed          \* a refetch failed since the last one that did not

serverVars == <<server, revision, received>>
rpcVars == <<reader, pending, next_id, channel>>
modelVars == <<model, to_reload, missed>>
sessionVars == <<serverVars, stream, rpcVars, caller, closed, modelVars>>

LoadMethods ==
  <<"workspace/buildTargets", "buildTarget/sources", "buildTarget/scalacOptions">>

(* The operations, as the requests each makes in turn. *)
Program ==
  [boot |-> <<"build/initialize">> \o LoadMethods,
   refetch |-> LoadMethods,
   compile |-> <<"buildTarget/compile">>,
   shutdown |-> <<"build/shutdown">>]

Idle == [op |-> "idle", at |-> "idle", id |-> 0, left |-> <<>>, parts |-> <<>>]
Call(op) == [op |-> op, at |-> "ready", id |-> 0, left |-> Program[op], parts |-> <<>>]
NoModel == <<>>
NoAnswer == [kind |-> "none"]
Reading == [kind |-> "reading"]
Ended == [kind |-> "ended"]
Owner == CHOOSE c \in Callers : TRUE      \* the caller that boots and drops

(* The server process was launched, and the bootstrap uses it. *)
SessionInit ==
  /\ server = "up" /\ revision = 0 /\ received = {} /\ stream = <<>>
  /\ reader = Reading /\ pending = {} /\ next_id = 1
  /\ channel = [c \in Callers |-> NoAnswer]
  /\ caller = [c \in Callers |-> IF c = Owner THEN Call("boot") ELSE Idle]
  /\ model = NoModel
  /\ closed = FALSE /\ to_reload = FALSE /\ missed = FALSE

-------------------------------------------------------------------------------
(* JsonRpcClient.request. *)

(* Mutant: the id is not advanced. *)
register_same_id(c) ==
  /\ caller[c].at = "ready"
  /\ next_id <= MaxRequests
  /\ pending' = pending \cup {1}
  /\ next_id' = next_id
  /\ channel' = [channel EXCEPT ![c] = NoAnswer]
  /\ caller' = [caller EXCEPT ![c].at = "registered", ![c].id = 1]
  /\ UNCHANGED <<serverVars, stream, reader, closed, modelVars>>

(* A fresh id, its sender in the map.  A closed session would fail the request *)
(* at once, but none is made of one: it is closed by its last user.            *)
register(c) ==
  /\ caller[c].at = "ready" /\ ~ closed
  /\ next_id <= MaxRequests
  /\ pending' = pending \cup {next_id}
  /\ next_id' = next_id + 1
  /\ channel' = [channel EXCEPT ![c] = NoAnswer]
  /\ caller' = [caller EXCEPT ![c].at = "registered", ![c].id = next_id]
  /\ UNCHANGED <<serverVars, stream, reader, closed, modelVars>>

(* What the operation c is in does when a request fails: it is over.  A boot   *)
(* that fails shuts the session down; a refetch that fails keeps the model.    *)
Fail(c) ==
  /\ caller' = [caller EXCEPT ![c] =
                  CASE @.op = "boot" -> Call("shutdown")
                    [] @.op = "shutdown" -> [@ EXCEPT !.at = "closing"]
                    [] OTHER -> Idle]
  /\ missed' = (missed \/ caller[c].op = "refetch")
  /\ UNCHANGED <<model, to_reload>>

(* Mutant: the reload flag is cleared when the loaded model is installed. *)
Succeed_clears_flag(c, rev) ==
  LET me == caller[c]
      parts == IF Head(me.left) \in Range(LoadMethods) THEN Append(me.parts, rev) ELSE me.parts
      last == Len(me.left) = 1
              \/ (Head(me.left) = "workspace/buildTargets" /\ rev \in NoScala3)
  IN IF ~ last
     THEN /\ caller' = [caller EXCEPT ![c] =
                          [me EXCEPT !.at = "ready", !.left = Tail(@), !.parts = parts]]
          /\ UNCHANGED modelVars
     ELSE /\ caller' = [caller EXCEPT ![c] = IF @.op = "shutdown" THEN [@ EXCEPT !.at = "closing"]
                                             ELSE Idle]
          /\ model' = IF me.op \in {"boot", "refetch"} THEN parts ELSE model
          /\ missed' = (missed /\ me.op # "refetch")
          /\ to_reload' = (to_reload /\ me.op = "compile")

(* And when it succeeds: the next request, or the result.                      *)
Succeed(c, rev) ==
  LET me == caller[c]
      parts == IF Head(me.left) \in Range(LoadMethods) THEN Append(me.parts, rev) ELSE me.parts
      last == Len(me.left) = 1
              \/ (Head(me.left) = "workspace/buildTargets" /\ rev \in NoScala3)
  IN IF ~ last
     THEN /\ caller' = [caller EXCEPT ![c] =
                          [me EXCEPT !.at = "ready", !.left = Tail(@), !.parts = parts]]
          /\ UNCHANGED modelVars
     ELSE /\ caller' = [caller EXCEPT ![c] = IF @.op = "shutdown" THEN [@ EXCEPT !.at = "closing"]
                                             ELSE Idle]
          /\ model' = IF me.op \in {"boot", "refetch"} THEN parts ELSE model
          /\ missed' = (missed /\ me.op # "refetch")
          /\ UNCHANGED to_reload

(* The message is written; a server that is gone fails the request.  The pipe  *)
(* holds the few short requests that are ever unread, so the write ends.       *)
write_message(c) ==
  /\ caller[c].at = "registered"
  /\ IF server = "up"
     THEN /\ received' = received \cup {[id |-> caller[c].id, method |-> Head(caller[c].left)]}
          /\ caller' = [caller EXCEPT ![c].at = "waiting"]
          /\ UNCHANGED <<pending, modelVars>>
     ELSE pending' = pending \ {caller[c].id} /\ Fail(c) /\ UNCHANGED received
  /\ UNCHANGED <<server, revision, stream, reader, next_id, channel, closed>>

(* The channel has an answer.  A result that does not decode, or that lacks an *)
(* item of the model, is a failure.                                            *)
receive(c) ==
  /\ caller[c].at = "waiting" /\ channel[c] # NoAnswer
  /\ IF channel[c].ok THEN Succeed(c, channel[c].revision) ELSE Fail(c)
  /\ channel' = [channel EXCEPT ![c] = NoAnswer]
  /\ UNCHANGED <<serverVars, stream, reader, pending, next_id, closed>>

(* The sender is gone: the reader cleared the map. *)
disconnected(c) ==
  /\ caller[c].at = "waiting" /\ channel[c] = NoAnswer
  /\ caller[c].id \notin pending /\ reader = Ended
  /\ Fail(c)
  /\ UNCHANGED <<serverVars, stream, rpcVars, closed>>

(* The server may answer it late, or never. *)
LateAnswers ==
  Cardinality({r \in received : r.id \notin pending})
  + Len(SelectSeq(stream, LAMBDA m : m.kind = "answer" /\ m.id \notin pending))

Forgotten(c) ==
  \/ LateAnswers < MaxLate /\ UNCHANGED received
  \/ received' = {r \in received : r.id # caller[c].id}

(* Mutant: a heartbeat re-arms the wait of a handshake request for ever. *)
timeout_rearmed(c) ==
  /\ caller[c].at = "waiting" /\ channel[c] = NoAnswer
  /\ Head(caller[c].left) \notin Range(Program["boot"])
  /\ pending' = pending \ {caller[c].id}
  /\ Fail(c) /\ Forgotten(c)
  /\ UNCHANGED <<server, revision, stream, reader, next_id, channel, closed>>

(* The deadline passes first.  The reader may be about to send. *)
timeout(c) ==
  /\ caller[c].at = "waiting" /\ channel[c] = NoAnswer
  /\ pending' = pending \ {caller[c].id}
  /\ Fail(c) /\ Forgotten(c)
  /\ UNCHANGED <<server, revision, stream, reader, next_id, channel, closed>>

-------------------------------------------------------------------------------
(* A change of the build targets always sets the reload flag. *)
dispatch_notification(msg) == to_reload' = (to_reload \/ msg.kind = "didChange")

(* The reader thread.  An answer's waiter leaves the map before it is sent to; *)
(* an answer nobody waits for, and a request of the server's, is dropped.      *)
dispatch ==
  /\ reader = Reading /\ stream # <<>> /\ Head(stream).kind # "garbage"
  /\ LET msg == Head(stream)
     IN /\ reader' = IF msg.kind = "answer" /\ msg.id \in pending THEN msg ELSE reader
        /\ pending' = IF msg.kind = "answer" THEN pending \ {msg.id} ELSE pending
        /\ dispatch_notification(msg)
  /\ stream' = Tail(stream)
  /\ UNCHANGED <<serverVars, next_id, channel, caller, closed, model, missed>>

(* A receiver that timed out meanwhile is gone. *)
send_outcome ==
  /\ reader \notin {Reading, Ended}
  /\ channel' = [c \in Callers |-> IF caller[c].id = reader.id /\ caller[c].at = "waiting"
                                   THEN reader ELSE channel[c]]
  /\ reader' = Reading
  /\ UNCHANGED <<serverVars, stream, pending, next_id, caller, closed, modelVars>>

(* End of input, or what is not a message, ends it and wakes every waiter. *)
read_loop_ends ==
  /\ reader = Reading
  /\ IF stream = <<>> THEN server = "exited" ELSE Head(stream).kind = "garbage"
  /\ reader' = Ended /\ pending' = {}
  /\ UNCHANGED <<serverVars, stream, next_id, channel, caller, closed, modelVars>>

-------------------------------------------------------------------------------
(* The operations of a ready session.  The loop swaps the reload flag before   *)
(* it loads the model again.                                                   *)
Ready == model # NoModel /\ ~ closed /\ caller[Owner].op # "shutdown"
Starts(c) == Ready /\ caller[c] = Idle
UnchangedRest == UNCHANGED <<serverVars, stream, rpcVars, closed, model, missed>>

compile(c) ==
  /\ Starts(c)
  /\ caller' = [caller EXCEPT ![c] = Call("compile")]
  /\ UNCHANGED to_reload /\ UnchangedRest

refetch_model(c) ==
  /\ Starts(c) /\ c = Owner /\ to_reload
  /\ to_reload' = FALSE
  /\ caller' = [caller EXCEPT ![c] = Call("refetch")]
  /\ UnchangedRest

(* The session is dropped by its last user. *)
shutdown ==
  /\ Ready /\ \A c \in Callers : caller[c] = Idle
  /\ caller' = [caller EXCEPT ![Owner] = Call("shutdown")]
  /\ UNCHANGED to_reload /\ UnchangedRest

(* build/exit, whatever became of build/shutdown; then the process is waited   *)
(* for and, when the wait is over, killed.                                     *)
close(c) ==
  /\ caller[c].at = "closing"
  /\ closed' = TRUE
  /\ caller' = [caller EXCEPT ![c].at = "terminating"]
  /\ UNCHANGED <<serverVars, stream, rpcVars, modelVars>>

terminate(c) ==
  /\ caller[c].at = "terminating"
  /\ server' = "exited"
  /\ caller' = [caller EXCEPT ![c] = Idle]
  /\ UNCHANGED <<revision, received, stream, rpcVars, closed, modelVars>>

-------------------------------------------------------------------------------
(* The server: answers in any order, with a result, an error or a malformed    *)
(* result; announces a new revision; asks something of the client; breaks the  *)
(* framing; or exits, with its output still in the pipe.                       *)
Sends(msg) ==
  /\ server = "up"
  /\ stream' = Append(stream, msg)
  /\ UNCHANGED <<server, rpcVars, caller, closed, modelVars>>

Answer ==
  \E r \in received, ok \in BOOLEAN :
    /\ received' = received \ {r}
    /\ Sends([kind |-> "answer", id |-> r.id, method |-> r.method, ok |-> ok,
              revision |-> revision])
    /\ UNCHANGED revision

Rebuild ==
  /\ revision < MaxRevision
  /\ revision' = revision + 1
  /\ Sends([kind |-> "didChange"])
  /\ UNCHANGED received

Garble ==
  /\ Len(stream) = 0 /\ Sends([kind |-> "garbage"])
  /\ UNCHANGED <<revision, received>>

Exit ==
  /\ server = "up"
  /\ server' = "exited"
  /\ UNCHANGED <<revision, received, stream, rpcVars, caller, closed, modelVars>>

-------------------------------------------------------------------------------
Request(c) ==
  register(c) \/ write_message(c) \/ receive(c) \/ disconnected(c) \/ timeout(c)
ReaderStep == dispatch \/ send_outcome \/ read_loop_ends

SessionNext ==
  \/ \E c \in Callers :
       Request(c) \/ compile(c) \/ refetch_model(c) \/ close(c) \/ terminate(c)
  \/ shutdown \/ ReaderStep
  \/ Answer \/ Rebuild \/ Garble \/ Exit

(* The threads of this process run and deadlines pass; of the build server     *)
(* nothing is assumed.                                                         *)
SessionFairness ==
  /\ \A c \in Callers : WF_sessionVars(Request(c) \/ close(c) \/ terminate(c))
  /\ WF_sessionVars(ReaderStep)

SessionSpec == SessionInit /\ [][SessionNext]_sessionVars /\ SessionFairness

-------------------------------------------------------------------------------
(* A request is answered by the answer to it and to no other, however many     *)
(* requests of both threads are in flight, in whatever order they are          *)
(* answered, and however late: also after an earlier request timed out.        *)
OwnAnswer ==
  \A c \in Callers :
    caller[c].at = "waiting" /\ channel[c] # NoAnswer
      => channel[c].method = Head(caller[c].left)

(* No sender is left behind: the pending map holds exactly requests that some  *)
(* thread is still waiting on, whether others were answered, failed to be      *)
(* written, timed out or were cut off.                                         *)
NothingPendingAtRest ==
  \A id \in pending :
    \E c \in Callers : caller[c].id = id /\ caller[c].at \in {"registered", "waiting"}

(* A model is loaded by three requests, and the build may change in between.   *)
(* Whenever the model in use is not the current revision throughout, a reload  *)
(* is on its way: the flag is set, the announcement is still unread, or the    *)
(* refetch is running.  (A failed refetch, or a broken connection, excepted.)  *)
Stale == model # NoModel /\ \E i \in DOMAIN model : model[i] # revision

StaleModelReloads ==
  Stale /\ ~ closed /\ ~ missed /\ reader # Ended
    => \/ to_reload
       \/ \E i \in DOMAIN stream : stream[i].kind \in {"didChange", "garbage"}
       \/ caller[Owner].op \in {"refetch", "shutdown"}

(* Every operation ends, even when the server never answers, and no build      *)
(* server is left running past a session that was shut down, nor past a load   *)
(* that failed.                                                                *)
OperationsEnd ==
  /\ \A c \in Callers : caller[c] # Idle ~> caller[c] = Idle \/ next_id > MaxRequests
  /\ caller[Owner].op = "shutdown" ~> server = "exited" \/ next_id > MaxRequests
===============================================================================
