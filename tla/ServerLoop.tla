------------------------------ MODULE ServerLoop ------------------------------
(***************************************************************************)
(* The LSP server loop: an input thread that forwards frames in order but  *)
(* diverts $/cancelRequest into a bounded set, the dispatch loop, and the  *)
(* bootstrap worker whose result the loop adopts.  The build server's      *)
(* reader thread only sets a flag, which the loop drains to reload the     *)
(* build model.                                                            *)
(***************************************************************************)
EXTENDS Naturals, Sequences, FiniteSets

CONSTANTS
  Uris,             \* files of the build's targets
  Methods,          \* request methods the client uses
  MaxRequests,      \* bound: requests the client sends
  MaxNotes,         \* bound: other notifications the client sends
  MaxInitialized,   \* bound: times it sends initialized (once, by the protocol)
  MaxChanges,       \* bound: changes of the build model
  CANCEL_SET_CAP    \* size at which the cancel set is cleared

AllMethods == {"initialize", "shutdown", "references", "completion", "hover",
               "resolve", "command", "doctor", "unknown"}

ASSUME ServerConstants ==
  /\ Methods \subseteq AllMethods
  /\ {MaxRequests, MaxNotes, MaxInitialized, MaxChanges} \subseteq Nat
  /\ CANCEL_SET_CAP \in Nat \ {0}

VARIABLES
  input,              \* stdin: "open", "eof", "error", or "exit" was read
  queue,              \* the channel from the input thread to the loop
  sent,               \* the requests' methods, by id
  notes, greetings,   \* how many notifications, how many of them initialized
  cancelled,          \* the cancel set
  asked,              \* ids cancelled in time, and not dropped by the cap
  phase,              \* where the loop is in its turn
  msg,                \* the message of this turn
  answers,            \* id -> what the client was answered
  state,              \* WorkspaceState: "not_ready", "failed" or "ready"
  initialized, shutting_down,
  worker,             \* the bootstrap worker the loop tracks (bootstrap_rx)
  docs, mirror,       \* open buffers: the loop's, those the services know of
  build,              \* the build server's model, by version
  reload_requested,   \* flag set by the BSP reader thread
  owed,               \* a buildTarget/didChange is on its way
  served,             \* the model the ready services were built from
  keptOld             \* a reload failed and the previous services were kept

inputVars == <<input, queue, sent, notes, greetings>>
cancelVars == <<cancelled, asked>>
stateVars == <<state, initialized, shutting_down>>
turnVars == <<phase, msg, answers, initialized, shutting_down, docs>>
modelVars == <<build, owed, served, keptOld>>
loopVars == <<turnVars, state, mirror, worker, reload_requested, modelVars>>
serverVars == <<inputVars, cancelVars, loopVars>>

Ids == 1 .. MaxRequests
Unanswered == "none"
NoMsg == [kind |-> "none"]
NoWorker == [at |-> "none", model |-> 0]

(* What a method answers before the workspace is ready. *)
pre_ready_outcome(method) ==
  CASE method = "references" -> "not_ready_error"    \* and rename
    [] method = "completion" -> "empty"              \* and the list-valued methods
    [] method = "hover" -> "null"                    \* and the nullable methods
    [] method = "resolve" -> "echo"
    [] method = "command" -> "unavailable"

(* dispatch_request for everything but initialize and shutdown. *)
dispatch_outcome(method) ==
  IF ~ initialized THEN "not_initialized"
  ELSE IF method = "unknown" THEN "not_found"
  ELSE IF state = "ready" \/ method = "doctor" THEN "result"
  ELSE pre_ready_outcome(method)

ServerInit ==
  /\ input = "open" /\ queue = <<>> /\ sent = <<>> /\ notes = 0 /\ greetings = 0
  /\ cancelled = {} /\ asked = {}
  /\ phase = "receive" /\ msg = NoMsg /\ answers = [i \in Ids |-> Unanswered]
  /\ state = "not_ready" /\ initialized = FALSE /\ shutting_down = FALSE
  /\ worker = NoWorker
  /\ docs = {} /\ mirror = {}
  /\ build = 0 /\ owed = FALSE /\ served = 0
  /\ reload_requested = FALSE /\ keptOld = FALSE

-------------------------------------------------------------------------------
(* read_loop: the client's frames, in order.  Once the loop is gone the next   *)
(* frame finds the channel closed and ends the thread.                         *)
LoopGone == phase = "joining"

Forward(m) ==
  /\ input = "open" /\ ~ LoopGone
  /\ queue' = Append(queue, m)
  /\ UNCHANGED <<cancelVars, loopVars>>

ReadRequest(method) ==
  /\ Len(sent) < MaxRequests
  /\ sent' = Append(sent, method)
  /\ Forward([kind |-> "request", id |-> Len(sent) + 1, method |-> method])
  /\ UNCHANGED <<input, notes, greetings>>

(* "malformed" is a frame that does not parse; "other" a notification without  *)
(* effect here, or the client's response to a request of the server.           *)
Notes ==
  [kind : {"malformed", "other"}] \cup
  [kind : {"didOpen", "didClose"}, uri : Uris]

ReadNotification(m) ==
  /\ notes < MaxNotes
  /\ notes' = notes + 1
  /\ Forward(m)
  /\ UNCHANGED <<input, sent, greetings>>

ReadInitialized ==
  /\ greetings < MaxInitialized
  /\ greetings' = greetings + 1
  /\ Forward([kind |-> "initialized"])
  /\ UNCHANGED <<input, sent, notes>>

ReadExit ==
  /\ Forward([kind |-> "exit"])
  /\ input' = "exit"
  /\ UNCHANGED <<sent, notes, greetings>>

(* The client hangs up, or reading from it fails. *)
ReadEnd ==
  /\ input = "open"
  /\ \/ input' = "eof" /\ UNCHANGED queue
     \/ input' = "error" /\ queue' = Append(queue, [kind |-> "read_error"])
  /\ UNCHANGED <<sent, notes, greetings, cancelVars, loopVars>>

ReadIntoClosedChannel ==
  /\ input = "open" /\ LoopGone
  /\ input' = "eof"
  /\ UNCHANGED <<queue, sent, notes, greetings, cancelVars, loopVars>>

(* asked records the cancels that come in time.  A cancel that comes while the *)
(* request runs has the effect of one that comes after its answer.             *)
InTime(ids) == {i \in ids : answers[i] = Unanswered}

(* $/cancelRequest for a request the client has sent, answered or not.  A full *)
(* set is cleared first.                                                       *)
record_cancel(id) ==
  /\ input = "open"
  /\ IF Cardinality(cancelled) >= CANCEL_SET_CAP
     THEN cancelled' = {id} /\ asked' = (asked \ InTime(asked)) \cup InTime({id})
     ELSE cancelled' = cancelled \cup {id} /\ asked' = asked \cup InTime({id})
  /\ UNCHANGED <<inputVars, loopVars>>

-------------------------------------------------------------------------------
(* The bootstrap worker: connect to the build server, load its model, ingest   *)
(* it and send Ready; or send Failed, or die without a result.                 *)
WorkerSteps(from, to) ==
  /\ worker.at = from
  /\ worker' = [at |-> to, model |-> IF to = "ingesting" THEN build ELSE worker.model]
  /\ UNCHANGED <<inputVars, cancelVars, turnVars, state, mirror, reload_requested, modelVars>>

Connecting == WorkerSteps("starting", "connected")
LoadingModel == WorkerSteps("connected", "ingesting")
Building == WorkerSteps("ingesting", "ready")
BuildFails ==
  \E from \in {"starting", "connected", "ingesting"}, to \in {"failed", "died"} :
    WorkerSteps(from, to)

Done == {"ready", "failed", "died"}

(* The build server changes its model and, when a session is open, will say    *)
(* so; the session's reader thread then sets the loop's flag.                  *)
SessionOpen == state = "ready" \/ phase = "refetch" \/ worker.at \in {"connected", "ingesting", "ready"}

BuildChanges ==
  /\ build < MaxChanges
  /\ build' = build + 1
  /\ owed' = (owed \/ SessionOpen)
  /\ UNCHANGED <<inputVars, cancelVars, turnVars, state, mirror, worker,
                 reload_requested, served, keptOld>>

on_build_targets_changed ==
  /\ owed
  /\ owed' = FALSE
  /\ reload_requested' = TRUE
  /\ UNCHANGED <<inputVars, cancelVars, turnVars, state, mirror, worker,
                 build, served, keptOld>>

-------------------------------------------------------------------------------
Install(result, buffers) ==
  /\ worker' = NoWorker
  /\ IF result.at = "ready"
     THEN state' = "ready" /\ mirror' = buffers /\ served' = result.model /\ keptOld' = FALSE
     ELSE state' = "failed" /\ mirror' = {} /\ UNCHANGED <<served, keptOld>>

(* Mutant: a late result is adopted by a server that is shut down. *)
adopt_always == Install(worker, docs)

(* Mutant: the open buffers are not replayed into the new services. *)
adopt_without_replay ==
  IF shutting_down THEN worker' = NoWorker /\ UNCHANGED <<state, mirror, served, keptOld>>
  ELSE Install(worker, {})

(* A result that comes after shutdown is discarded; any other is installed,    *)
(* the open buffers replayed into ready services.                              *)
adopt_bootstrap ==
  IF shutting_down THEN worker' = NoWorker /\ UNCHANGED <<state, mirror, served, keptOld>>
  ELSE Install(worker, docs)

(* A turn of the loop: take the next message and adopt a finished bootstrap... *)
poll_bootstrap ==
  /\ phase = "receive" /\ queue # <<>>
  /\ msg' = Head(queue) /\ queue' = Tail(queue)
  /\ phase' = "poll_reload"
  /\ IF worker.at \in Done THEN adopt_bootstrap
     ELSE UNCHANGED <<worker, state, mirror, served, keptOld>>
  /\ UNCHANGED <<input, sent, notes, greetings, cancelVars, answers, initialized,
                 shutting_down, docs, reload_requested, build, owed>>

(* Mutant: the flag is drained before the workspace is known to be ready. *)
poll_reload_drains_first ==
  /\ phase = "poll_reload"
  /\ reload_requested' = FALSE
  /\ IF ~ shutting_down /\ state = "ready" /\ reload_requested
     THEN phase' = "refetch" /\ state' = "not_ready"
     ELSE phase' = "dispatch" /\ UNCHANGED state
  /\ UNCHANGED <<inputVars, cancelVars, msg, answers, initialized, shutting_down, worker,
                 docs, mirror, modelVars>>

(* ...drain the reload flag, once the workspace is ready... *)
poll_reload ==
  /\ phase = "poll_reload"
  /\ IF ~ shutting_down /\ state = "ready" /\ reload_requested
     THEN reload_requested' = FALSE /\ phase' = "refetch" /\ state' = "not_ready"
     ELSE phase' = "dispatch" /\ UNCHANGED <<reload_requested, state>>
  /\ UNCHANGED <<inputVars, cancelVars, msg, answers, initialized, shutting_down, worker,
                 docs, mirror, modelVars>>

(* ...refetch the model and rebuild the services over it, replaying the open   *)
(* buffers; or keep the old services when the refetch or the ingest fails...   *)
reload_build_model ==
  /\ phase = "refetch"
  /\ phase' = "dispatch" /\ state' = "ready"
  /\ \/ served' = build /\ keptOld' = FALSE /\ mirror' = mirror \cup docs
     \/ keptOld' = TRUE /\ UNCHANGED <<served, mirror>>
  /\ UNCHANGED <<inputVars, cancelVars, msg, answers, initialized, shutting_down, worker,
                 docs, reload_requested, build, owed>>

(* ...and dispatch the message.  A failed write ends the loop. *)
Dispatching(kinds) == phase = "dispatch" /\ msg.kind \in kinds /\ msg' = NoMsg

Answer(id, outcome) ==
  \/ phase' = "receive" /\ answers' = [answers EXCEPT ![id] = outcome]
  \/ phase' = "joining" /\ UNCHANGED answers

(* Mutant: initialize and shutdown can be cancelled too. *)
cancelled_lifecycle(m) == m.id \in cancelled

cancelled_before_dispatch(m) == m.id \in cancelled /\ m.method \notin {"initialize", "shutdown"}

dispatch_request ==
  /\ Dispatching({"request"})
  /\ cancelled' = cancelled \ {msg.id}
  /\ CASE cancelled_before_dispatch(msg) ->
            Answer(msg.id, "cancelled") /\ UNCHANGED <<stateVars, mirror>>
       [] msg.method = "initialize" /\ ~ cancelled_before_dispatch(msg) ->
            /\ Answer(msg.id, "result")
            /\ initialized' = TRUE
            /\ state' = IF state = "ready" THEN state ELSE "not_ready"
            /\ UNCHANGED <<shutting_down, mirror>>
       [] msg.method = "shutdown" /\ ~ cancelled_before_dispatch(msg) ->
            /\ Answer(msg.id, "result")
            /\ shutting_down' = TRUE
            /\ state' = IF shutting_down THEN state ELSE "not_ready"
            /\ mirror' = IF shutting_down THEN mirror ELSE {}
            /\ UNCHANGED initialized
       [] OTHER ->
            Answer(msg.id, dispatch_outcome(msg.method)) /\ UNCHANGED <<stateVars, mirror>>
  /\ UNCHANGED <<inputVars, asked, worker, docs, reload_requested, modelVars>>

(* spawn_bootstrap, ignored while a worker is in flight; then the watched-file *)
(* registration is written.                                                    *)
spawn_bootstrap ==
  /\ Dispatching({"initialized"})
  /\ worker' = IF worker = NoWorker THEN [at |-> "starting", model |-> 0] ELSE worker
  /\ phase' \in {"receive", "joining"}
  /\ UNCHANGED <<inputVars, cancelVars, answers, stateVars, docs, mirror,
                 reload_requested, modelVars>>

(* did_open and did_close: the loop's document store always follows, the       *)
(* services once they are ready.                                               *)
Document ==
  /\ Dispatching({"didOpen", "didClose"})
  /\ LET Follow(S) == IF msg.kind = "didOpen" THEN S \cup {msg.uri} ELSE S \ {msg.uri}
     IN docs' = Follow(docs) /\ mirror' = IF state = "ready" THEN Follow(mirror) ELSE mirror
  /\ phase' = "receive"
  /\ UNCHANGED <<inputVars, cancelVars, answers, stateVars, worker, reload_requested, modelVars>>

(* A frame that does not parse is answered with a null id. *)
Inert ==
  /\ Dispatching({"malformed", "other"})
  /\ phase' \in IF msg.kind = "malformed" THEN {"receive", "joining"} ELSE {"receive"}
  /\ UNCHANGED <<inputVars, cancelVars, answers, stateVars, worker, docs, mirror,
                 reload_requested, modelVars>>

(* exit leaves the loop and detaches a worker in flight. *)
Exit ==
  /\ Dispatching({"exit"})
  /\ phase' = "stopped" /\ worker' = NoWorker
  /\ UNCHANGED <<inputVars, cancelVars, answers, stateVars, docs, mirror,
                 reload_requested, modelVars>>

ReadError ==
  /\ Dispatching({"read_error"})
  /\ phase' = "stopped"
  /\ UNCHANGED <<inputVars, cancelVars, answers, stateVars, worker, docs, mirror,
                 reload_requested, modelVars>>

(* Mutant: a hang-up ends the loop before the queue is empty. *)
drain_bootstrap_early ==
  /\ phase = "receive" /\ input = "eof"
  /\ phase' = "stopped"
  /\ IF shutting_down \/ worker = NoWorker
     THEN worker' = NoWorker /\ UNCHANGED <<state, mirror, served, keptOld>>
     ELSE worker.at \in Done /\ adopt_bootstrap
  /\ UNCHANGED <<inputVars, cancelVars, msg, answers, initialized, shutting_down, docs,
                 reload_requested, build, owed>>

(* The client hung up and everything it sent is handled: a server that is      *)
(* shutting down detaches its worker, any other waits for it and adopts its    *)
(* result.                                                                     *)
drain_bootstrap ==
  /\ phase = "receive" /\ input = "eof" /\ queue = <<>>
  /\ phase' = "stopped"
  /\ IF shutting_down \/ worker = NoWorker
     THEN worker' = NoWorker /\ UNCHANGED <<state, mirror, served, keptOld>>
     ELSE worker.at \in Done /\ adopt_bootstrap
  /\ UNCHANGED <<inputVars, cancelVars, msg, answers, initialized, shutting_down, docs,
                 reload_requested, build, owed>>

(* After a failed write, serve returns once the input thread has ended too. *)
JoinReader ==
  /\ phase = "joining" /\ input # "open"
  /\ phase' = "broken"
  /\ UNCHANGED <<inputVars, cancelVars, msg, answers, stateVars, worker, docs, mirror,
                 reload_requested, modelVars>>

-------------------------------------------------------------------------------
Returned == phase \in {"stopped", "broken"}

Dispatch == dispatch_request \/ spawn_bootstrap \/ Document \/ Inert \/ Exit \/ ReadError

Loop == poll_bootstrap \/ poll_reload \/ reload_build_model \/ Dispatch
        \/ drain_bootstrap \/ JoinReader

Worker == Connecting \/ LoadingModel \/ Building \/ BuildFails

Client ==
  \/ \E method \in Methods : ReadRequest(method)
  \/ \E m \in Notes : ReadNotification(m)
  \/ ReadInitialized \/ ReadExit \/ ReadEnd \/ ReadIntoClosedChannel
  \/ \E id \in DOMAIN sent : record_cancel(id)

BuildServer == BuildChanges \/ on_build_targets_changed

ServerNext == ~ Returned /\ (Client \/ Loop \/ Worker \/ BuildServer)

(* The loop thread runs and its handlers return.  Nothing is assumed of the    *)
(* client, of the build server, or of a bootstrap, which may hang.             *)
ServerSpec ==
  /\ ServerInit
  /\ [][ServerNext]_serverVars
  /\ WF_serverVars(~ Returned /\ Loop)

-------------------------------------------------------------------------------
(* Cancellation is exact: a request is answered "cancelled" if and only if the *)
(* client cancelled it in time, the cap did not drop that cancel, and it is    *)
(* not initialize or shutdown.  Late cancels, which stay in the set, and the   *)
(* clearing of a full set never touch another request.                         *)
CancelsExact ==
  \A id \in Ids : answers[id] # Unanswered =>
    (answers[id] = "cancelled" <=>
       id \in asked /\ sent[id] \notin {"initialize", "shutdown"})

(* A shut-down server stays down: no bootstrap result, however late, and no    *)
(* reload makes it ready again.                                                *)
NeverResurrected == shutting_down => state # "ready"

(* Ready services know exactly the open buffers, whether those were opened and *)
(* closed before the workspace was ready, between bootstraps, or afterwards.   *)
(* (That the island may reject what it is told is in PcDiagnostics.)           *)
ServicesSeeBuffers == state = "ready" => mirror = docs

(* Both, strengthened to be inductive: the services taken out for a reload are *)
(* those of a server that is not shutting down, and still mirror the buffers.  *)
LifecycleInv ==
  /\ NeverResurrected
  /\ ServicesSeeBuffers
  /\ phase = "refetch" => ~ shutting_down /\ mirror = docs

(* No change of the build model is lost: ready services serve the build        *)
(* server's current model unless its notification is on its way, a reload is   *)
(* requested, or the last reload failed; also when the model changes during    *)
(* the bootstrap or during the reload itself.  (For a client that sends        *)
(* initialized once: a second bootstrap would share the first one's flag.)     *)
ReadyModelFresh ==
  state = "ready" /\ ~ owed /\ ~ reload_requested /\ ~ keptOld => served = build

(* Every request the client sends before it hangs up or exits is answered,     *)
(* unless writing to the client fails, even when the bootstrap hangs; and      *)
(* exit, or a hang-up after shutdown, ends the server without waiting for a    *)
(* bootstrap in flight.                                                        *)
ServerResponds ==
  /\ \A id \in Ids :
       id \in DOMAIN sent ~> answers[id] # Unanswered \/ phase \in {"joining", "broken"}
  /\ input = "exit" \/ (input = "eof" /\ shutting_down) ~> Returned
===============================================================================
