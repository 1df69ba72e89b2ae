-------------------------- MODULE ServerLoopProofs --------------------------
(***************************************************************************)
(* For any files, methods and bounds: a shut-down server is never ready    *)
(* again, ready services know exactly the open buffers, cancellation is    *)
(* exact, and no change of the build model is lost.                        *)
(***************************************************************************)
EXTENDS ServerLoop, TLAPS

(* Every step preserves LifecycleInv.  Only the loop's turn touches the state, *)
(* the buffers, or the phase; the client, the worker and the build server      *)
(* leave all of them alone.                                                    *)
LEMMA LifecycleStep ==
  LifecycleInv /\ [ServerNext]_serverVars => LifecycleInv'
<1> SUFFICES ASSUME LifecycleInv, [ServerNext]_serverVars PROVE LifecycleInv'
  OBVIOUS
<1> USE DEF LifecycleInv, NeverResurrected, ServicesSeeBuffers
<1>1. CASE Client
  <2>1. ASSUME NEW method \in Methods, ReadRequest(method) PROVE UNCHANGED loopVars
    BY <2>1 DEF ReadRequest, Forward
  <2>2. ASSUME NEW m \in Notes, ReadNotification(m) PROVE UNCHANGED loopVars
    BY <2>2 DEF ReadNotification, Forward
  <2>3. ASSUME NEW id \in DOMAIN sent, record_cancel(id) PROVE UNCHANGED loopVars
    BY <2>3 DEF record_cancel
  <2>4. ASSUME ReadInitialized \/ ReadExit \/ ReadEnd \/ ReadIntoClosedChannel
        PROVE  UNCHANGED loopVars
    BY <2>4 DEF ReadInitialized, ReadExit, ReadEnd, ReadIntoClosedChannel, Forward
  <2>5. UNCHANGED loopVars
    BY <1>1, <2>1, <2>2, <2>3, <2>4 DEF Client
  <2> QED
    BY <2>5 DEF loopVars, turnVars
<1>2. CASE Worker
  BY <1>2 DEF Worker, Connecting, LoadingModel, Building, BuildFails, WorkerSteps, turnVars
<1>3. CASE BuildServer
  BY <1>3 DEF BuildServer, BuildChanges, on_build_targets_changed, turnVars
<1>4. CASE poll_bootstrap
  BY <1>4 DEF poll_bootstrap, adopt_bootstrap, Install
<1>5. CASE poll_reload
  BY <1>5 DEF poll_reload
<1>6. CASE reload_build_model
  BY <1>6 DEF reload_build_model
<1>7. CASE dispatch_request
  <2>1. phase' # "refetch" /\ docs' = docs
    BY <1>7 DEF dispatch_request, Answer
  <2>2. CASE UNCHANGED <<stateVars, mirror>>
    BY <2>1, <2>2 DEF stateVars
  <2>3. CASE /\ state' = IF state = "ready" THEN state ELSE "not_ready"
             /\ UNCHANGED <<shutting_down, mirror>>
    BY <2>1, <2>3
  <2>4. CASE /\ shutting_down' = TRUE
             /\ state' = IF shutting_down THEN state ELSE "not_ready"
             /\ mirror' = IF shutting_down THEN mirror ELSE {}
    BY <2>1, <2>4
  <2> QED
    BY <1>7, <2>2, <2>3, <2>4 DEF dispatch_request, Answer
<1>8. CASE spawn_bootstrap \/ Inert \/ Exit \/ ReadError
  BY <1>8 DEF spawn_bootstrap, Inert, Exit, ReadError, stateVars
<1>9. CASE Document
  BY <1>9 DEF Document, Dispatching, stateVars
<1>10. CASE drain_bootstrap
  BY <1>10 DEF drain_bootstrap, adopt_bootstrap, Install
<1>11. CASE JoinReader
  BY <1>11 DEF JoinReader, stateVars
<1>12. CASE UNCHANGED serverVars
  BY <1>12 DEF serverVars, loopVars, turnVars
<1> QED
  BY <1>1, <1>2, <1>3, <1>4, <1>5, <1>6, <1>7, <1>8, <1>9, <1>10, <1>11, <1>12
     DEF ServerNext, Loop, Dispatch

(* A shut-down server never becomes ready again, and ready services mirror     *)
(* exactly the open buffers: adopt_bootstrap, poll_reload and the notification *)
(* handlers of server.rs together, for every interleaving with the bootstrap   *)
(* worker, the input thread and the build server.                              *)
THEOREM LifecycleSafe == ServerSpec => [](NeverResurrected /\ ServicesSeeBuffers)
<1>1. ServerInit => LifecycleInv
  BY DEF ServerInit, LifecycleInv, NeverResurrected, ServicesSeeBuffers
<1>2. LifecycleInv => NeverResurrected /\ ServicesSeeBuffers
  BY DEF LifecycleInv
<1> QED
  BY <1>1, <1>2, LifecycleStep, PTL DEF ServerSpec

(* Ready services know of every buffer that is open, however opening, closing, *)
(* bootstrap, reload and shutdown interleave (adopt_bootstrap's replay).       *)
THEOREM BuffersReplayed == ServerSpec => []ServicesSeeBuffers
BY LifecycleSafe, PTL

-------------------------------------------------------------------------------
(* Cancellation.  What the channel carries from the input thread to the loop. *)
Messages ==
  [kind : {"request"}, id : Ids, method : Methods] \cup Notes
    \cup [kind : {"initialized", "exit", "read_error"}]

(* A request that waits is one the client sent and nobody answered, and the    *)
(* cancel set speaks for it exactly as the client did.                         *)
Waits(m) ==
  m.kind = "request" =>
    /\ m.id \in DOMAIN sent /\ m.method = sent[m.id]
    /\ answers[m.id] = Unanswered
    /\ m.id \in cancelled <=> m.id \in asked

SameRequest(m, n) == m.kind = "request" /\ n.kind = "request" /\ m.id = n.id

(* CancelsExact, strengthened: every request in the channel or at the loop     *)
(* waits, no two are the same, and nothing is cancelled before it is sent.     *)
CancelInv ==
  /\ sent \in Seq(Methods) /\ Len(sent) <= MaxRequests
  /\ DOMAIN answers = Ids /\ \A id \in Ids \ DOMAIN sent : answers[id] = Unanswered
  /\ queue \in Seq(Messages) /\ msg \in Messages \cup {NoMsg}
  /\ cancelled \subseteq DOMAIN sent /\ asked \subseteq DOMAIN sent
  /\ Waits(msg)
  /\ \A i \in DOMAIN queue : Waits(queue[i]) /\ ~ SameRequest(msg, queue[i])
  /\ \A i, j \in DOMAIN queue : SameRequest(queue[i], queue[j]) => i = j
  /\ CancelsExact

Greets(m) == m.kind = "initialized"

(* No bootstrap has begun and no services are there. *)
Unspawned == worker = NoWorker /\ state # "ready" /\ phase # "refetch"

(* A client that greets once: until its initialized is dispatched there is no  *)
(* worker, and ready services never have a worker beside them.                 *)
GreetInv ==
  /\ queue \in Seq(Messages) /\ greetings \in Nat
  /\ \A i, j \in DOMAIN queue : Greets(queue[i]) /\ Greets(queue[j]) => i = j
  /\ \A i \in DOMAIN queue : Greets(queue[i]) => ~ Greets(msg) /\ greetings # 0 /\ Unspawned
  /\ Greets(msg) => greetings # 0 /\ Unspawned
  /\ greetings = 0 => Unspawned
  /\ state = "ready" \/ phase = "refetch" => worker = NoWorker

Noticed(model) == model = build \/ owed \/ reload_requested

(* ReadyModelFresh, strengthened: a change of the model since the worker       *)
(* loaded it is on its way to the loop, or noted there.                        *)
FreshInv ==
  /\ worker.at \in {"ingesting", "ready"} => Noticed(worker.model)
  /\ state = "ready" /\ ~ keptOld => Noticed(served)

(* What the input thread's send and the loop's receive leave in the channel. *)
LEMMA SendsOne ==
  ASSUME queue \in Seq(Messages), NEW m \in Messages, queue' = Append(queue, m)
  PROVE  /\ queue' \in Seq(Messages) /\ DOMAIN queue = 1..Len(queue)
         /\ DOMAIN queue' = 1..Len(queue) + 1 /\ Len(queue) \in Nat
         /\ \A i \in 1..Len(queue) : queue'[i] = queue[i]
         /\ queue'[Len(queue) + 1] = m
OBVIOUS

LEMMA TakesOne ==
  ASSUME queue \in Seq(Messages), queue # <<>>, queue' = Tail(queue)
  PROVE  /\ queue' \in Seq(Messages) /\ DOMAIN queue = 1..Len(queue)
         /\ DOMAIN queue' = 1..Len(queue) - 1 /\ Len(queue) \in Nat
         /\ 1 \in DOMAIN queue /\ Head(queue) = queue[1] /\ Head(queue) \in Messages
         /\ \A i \in DOMAIN queue' : queue'[i] = queue[i + 1] /\ i + 1 \in DOMAIN queue
OBVIOUS

(* The frames that are not requests. *)
LEMMA OtherFrames ==
  ASSUME \/ \E m \in Notes : ReadNotification(m)
         \/ ReadInitialized \/ ReadExit \/ ReadEnd \/ ReadIntoClosedChannel
  PROVE  /\ UNCHANGED <<sent, cancelVars, loopVars>>
         /\ \/ UNCHANGED queue
            \/ \E m \in Messages : m.kind # "request" /\ queue' = Append(queue, m)
<1>1. ASSUME NEW m \in Notes, ReadNotification(m)  PROVE queue' = Append(queue, m)
  BY <1>1 DEF ReadNotification, Forward
<1>2. \A m \in Notes : m \in Messages /\ m.kind # "request"
  BY DEF Notes, Messages
<1>3. \A k \in {"initialized", "exit", "read_error"} :
         [kind |-> k] \in Messages /\ [kind |-> k].kind # "request"
  BY DEF Messages
<1>4. CASE ReadInitialized
  BY <1>3, <1>4 DEF ReadInitialized, Forward
<1>5. CASE ReadExit
  BY <1>3, <1>5 DEF ReadExit, Forward
<1>6. CASE ReadEnd
  BY <1>3, <1>6 DEF ReadEnd
<1>7. CASE ReadIntoClosedChannel
  BY <1>7 DEF ReadIntoClosedChannel
<1>8. CASE \E m \in Notes : ReadNotification(m)
  BY <1>1, <1>2, <1>8 DEF ReadNotification, Forward
<1> QED
  BY <1>4, <1>5, <1>6, <1>7, <1>8

(* The steps that neither read a frame nor answer one. *)
LEMMA QuietSteps ==
  ASSUME \/ Worker \/ BuildServer \/ poll_reload \/ reload_build_model \/ spawn_bootstrap
         \/ Document \/ Inert \/ Exit \/ ReadError \/ drain_bootstrap \/ JoinReader
         \/ UNCHANGED serverVars
  PROVE  UNCHANGED <<queue, sent, greetings, cancelled, asked, answers>> /\ msg' \in {msg, NoMsg}
BY DEF Worker, Connecting, LoadingModel, Building, BuildFails, WorkerSteps, BuildServer, BuildChanges,
       on_build_targets_changed, poll_reload, reload_build_model, spawn_bootstrap, Document, Inert,
       Exit, ReadError, drain_bootstrap, JoinReader, Dispatching,
       serverVars, inputVars, cancelVars, loopVars, turnVars

(* A request that is not cancelled is never answered "cancelled". *)
LEMMA OutcomeNotCancelled ==
  ASSUME NEW method \in Methods, method \notin {"initialize", "shutdown"}
  PROVE  dispatch_outcome(method) # "cancelled"
BY ServerConstants DEF dispatch_outcome, pre_ready_outcome, AllMethods

LEMMA CancelInvInit == ServerInit => CancelInv
<1> SUFFICES ASSUME ServerInit  PROVE CancelInv
  OBVIOUS
<1>1. sent \in Seq(Methods) /\ Len(sent) <= MaxRequests /\ queue \in Seq(Messages)
      /\ DOMAIN queue = {} /\ DOMAIN sent = {}
  BY ServerConstants DEF ServerInit
<1>2. DOMAIN answers = Ids /\ \A id \in Ids : answers[id] = Unanswered
  BY DEF ServerInit
<1>3. msg = NoMsg /\ msg.kind # "request" /\ cancelled = {} /\ asked = {}
  BY DEF ServerInit, NoMsg
<1> QED
  BY <1>1, <1>2, <1>3 DEF CancelInv, CancelsExact, Waits

LEMMA CancelStep == CancelInv /\ [ServerNext]_serverVars => CancelInv'
<1> SUFFICES ASSUME CancelInv, [ServerNext]_serverVars  PROVE CancelInv'
  OBVIOUS
<1> USE DEF NoMsg
<1>0. /\ MaxRequests \in Nat /\ Len(sent) \in Nat /\ DOMAIN sent = 1..Len(sent)
      /\ DOMAIN sent \subseteq Ids
  BY ServerConstants DEF CancelInv, Ids
<1>1. ASSUME NEW method \in Methods, ReadRequest(method)  PROVE CancelInv'
  <2> DEFINE n == Len(sent) + 1
             m == [kind |-> "request", id |-> n, method |-> method]
  <2>1. /\ Len(sent) < MaxRequests /\ sent' = Append(sent, method) /\ queue' = Append(queue, m)
        /\ UNCHANGED <<cancelled, asked, answers, msg>>
    BY <1>1 DEF ReadRequest, Forward, cancelVars, loopVars, turnVars
  <2>2. n \in Ids /\ n \notin DOMAIN sent /\ m \in Messages
    BY <1>0, <2>1 DEF Ids, Messages
  <2>3. /\ sent' \in Seq(Methods) /\ Len(sent') = n /\ DOMAIN sent' = DOMAIN sent \cup {n}
        /\ sent'[n] = method /\ \A i \in DOMAIN sent : sent'[i] = sent[i]
    BY <1>0, <2>1 DEF CancelInv
  <2>4. /\ queue' \in Seq(Messages) /\ DOMAIN queue = 1..Len(queue)
        /\ DOMAIN queue' = 1..Len(queue) + 1 /\ Len(queue) \in Nat
        /\ \A i \in 1..Len(queue) : queue'[i] = queue[i]
        /\ queue'[Len(queue) + 1] = m
    BY <2>1, <2>2, SendsOne DEF CancelInv
  <2>5. answers[n] = Unanswered /\ n \notin cancelled /\ n \notin asked
    BY <2>2 DEF CancelInv
  <2>6. Waits(msg)' /\ \A i \in DOMAIN queue' : Waits(queue[i])'
    BY <2>1, <2>2, <2>3, <2>4, <2>5 DEF CancelInv, Waits
  <2>7. /\ \A i \in DOMAIN queue' : ~ SameRequest(msg', queue'[i])
        /\ \A i, j \in DOMAIN queue' : SameRequest(queue'[i], queue'[j]) => i = j
    BY <2>1, <2>2, <2>4 DEF CancelInv, Waits, SameRequest
  <2>8. CancelsExact'
    BY <1>0, <2>1, <2>2, <2>3, <2>5 DEF CancelInv, CancelsExact
  <2> QED
    BY <1>0, <2>1, <2>2, <2>3, <2>4, <2>6, <2>7, <2>8 DEF CancelInv
<1>2. ASSUME UNCHANGED <<sent, cancelled, asked, answers, msg>>,
             \/ UNCHANGED queue
             \/ \E m \in Messages : m.kind # "request" /\ queue' = Append(queue, m)
      PROVE  CancelInv'
  <2>1. CASE UNCHANGED queue
    BY <1>2, <2>1 DEF CancelInv, Waits, SameRequest, CancelsExact
  <2>2. CASE \E m \in Messages : m.kind # "request" /\ queue' = Append(queue, m)
    <3>1. PICK m \in Messages : m.kind # "request" /\ queue' = Append(queue, m)
      BY <2>2
    <3>2. /\ queue' \in Seq(Messages) /\ DOMAIN queue = 1..Len(queue)
          /\ DOMAIN queue' = 1..Len(queue) + 1 /\ Len(queue) \in Nat
          /\ \A i \in 1..Len(queue) : queue'[i] = queue[i]
          /\ queue'[Len(queue) + 1] = m
      BY <3>1, SendsOne DEF CancelInv
    <3>5. \A i \in DOMAIN queue' : \/ queue'[i].kind # "request"
                                   \/ i \in DOMAIN queue /\ queue'[i] = queue[i]
      BY <3>1, <3>2
    <3>3. Waits(msg)' /\ \A i \in DOMAIN queue' : Waits(queue[i])'
      BY <1>2, <3>5 DEF CancelInv, Waits
    <3>4. /\ \A i \in DOMAIN queue' : ~ SameRequest(msg', queue'[i])
          /\ \A i, j \in DOMAIN queue' : SameRequest(queue'[i], queue'[j]) => i = j
      BY <1>2, <3>5 DEF CancelInv, SameRequest
    <3> QED
      BY <1>2, <3>2, <3>3, <3>4 DEF CancelInv, CancelsExact
  <2> QED
    BY <1>2, <2>1, <2>2
<1>3. ASSUME NEW id \in DOMAIN sent, record_cancel(id)  PROVE CancelInv'
  <2>1. UNCHANGED <<queue, sent, answers, msg>>
    BY <1>3 DEF record_cancel, inputVars, loopVars, turnVars
  <2>2. /\ cancelled' \subseteq DOMAIN sent /\ asked' \subseteq DOMAIN sent
        /\ \A x \in DOMAIN sent : answers[x] = Unanswered /\ (x \in cancelled <=> x \in asked)
                                  => (x \in cancelled' <=> x \in asked')
        /\ \A x \in DOMAIN sent : answers[x] # Unanswered => (x \in asked' <=> x \in asked)
    BY <1>3 DEF record_cancel, InTime, CancelInv
  <2>3. Waits(msg)' /\ \A i \in DOMAIN queue : Waits(queue[i])'
    BY <2>1, <2>2 DEF CancelInv, Waits
  <2>4. CancelsExact'
    BY <2>1, <2>2 DEF CancelInv, CancelsExact
  <2> QED
    BY <2>1, <2>2, <2>3, <2>4 DEF CancelInv, SameRequest
<1>4. CASE poll_bootstrap
  <2>1. /\ queue # <<>> /\ msg' = Head(queue) /\ queue' = Tail(queue)
        /\ UNCHANGED <<sent, cancelled, asked, answers>>
    BY <1>4 DEF poll_bootstrap, cancelVars
  <2>2. /\ queue' \in Seq(Messages) /\ DOMAIN queue = 1..Len(queue)
        /\ DOMAIN queue' = 1..Len(queue) - 1 /\ Len(queue) \in Nat
        /\ 1 \in DOMAIN queue /\ Head(queue) = queue[1] /\ Head(queue) \in Messages
        /\ \A i \in DOMAIN queue' : queue'[i] = queue[i + 1] /\ i + 1 \in DOMAIN queue
    BY <2>1, TakesOne DEF CancelInv
  <2>3. Waits(msg)' /\ \A i \in DOMAIN queue' : Waits(queue[i])'
    BY <2>1, <2>2 DEF CancelInv, Waits
  <2>4. /\ \A i \in DOMAIN queue' : ~ SameRequest(msg', queue'[i])
        /\ \A i, j \in DOMAIN queue' : SameRequest(queue'[i], queue'[j]) => i = j
    BY <2>1, <2>2 DEF CancelInv
  <2> QED
    BY <2>1, <2>2, <2>3, <2>4 DEF CancelInv, CancelsExact
<1>5. CASE dispatch_request
  <2> DEFINE c == msg.id
  <2>1. /\ msg.kind = "request" /\ msg' = NoMsg /\ cancelled' = cancelled \ {c}
        /\ UNCHANGED <<queue, sent, asked>>
    BY <1>5 DEF dispatch_request, Dispatching, inputVars
  <2>2. /\ c \in DOMAIN sent /\ msg.method = sent[c] /\ sent[c] \in Methods
        /\ answers[c] = Unanswered /\ (c \in cancelled <=> c \in asked)
    BY <2>1 DEF CancelInv, Waits
  <2>3. \/ UNCHANGED answers
        \/ \E o : /\ answers' = [answers EXCEPT ![c] = o]
                  /\ o = "cancelled" <=> c \in cancelled /\ msg.method \notin {"initialize", "shutdown"}
    <3>1. CASE cancelled_before_dispatch(msg)
      BY <1>5, <3>1 DEF dispatch_request, Answer, cancelled_before_dispatch
    <3>2. CASE ~ cancelled_before_dispatch(msg) /\ msg.method \in {"initialize", "shutdown"}
      BY <1>5, <3>2 DEF dispatch_request, Answer
    <3>3. CASE ~ cancelled_before_dispatch(msg) /\ msg.method \notin {"initialize", "shutdown"}
      <4>1. dispatch_outcome(msg.method) # "cancelled"
        BY <2>2, <3>3, OutcomeNotCancelled
      <4>2. Answer(c, dispatch_outcome(msg.method))
        BY <1>5, <3>3 DEF dispatch_request
      <4> HIDE DEF c
      <4> QED
        BY <3>3, <4>1, <4>2 DEF Answer, cancelled_before_dispatch, c
    <3> QED
      BY <3>1, <3>2, <3>3
  <2>4. CancelsExact' /\ DOMAIN answers' = Ids
        /\ \A x \in Ids : x # c => answers'[x] = answers[x]
    BY <1>0, <2>1, <2>2, <2>3 DEF CancelInv, CancelsExact
  <2>5. \A i \in DOMAIN queue : Waits(queue[i])'
    BY <1>0, <2>1, <2>2, <2>4 DEF CancelInv, Waits, SameRequest
  <2> QED
    BY <1>0, <2>1, <2>2, <2>4, <2>5 DEF CancelInv, Waits, SameRequest
<1>6. ASSUME UNCHANGED <<queue, sent, cancelled, asked, answers>>, msg' \in {msg, NoMsg}
      PROVE  CancelInv'
  BY <1>6 DEF CancelInv, Waits, SameRequest, CancelsExact
<1>7. CASE Client
  <2>1. CASE \/ \E m \in Notes : ReadNotification(m)
             \/ ReadInitialized \/ ReadExit \/ ReadEnd \/ ReadIntoClosedChannel
    BY <1>2, <2>1, OtherFrames DEF cancelVars, loopVars, turnVars
  <2> QED
    BY <1>1, <1>3, <1>7, <2>1 DEF Client
<1> QED
  BY <1>4, <1>5, <1>6, <1>7, QuietSteps DEF ServerNext, Loop, Dispatch

(* Cancellation is exact for any number of requests and any cap of the cancel  *)
(* set: record_cancel, the clearing of a full set and the check before         *)
(* dispatch never answer "cancelled" to a request the client did not cancel,   *)
(* nor anything else to one it cancelled in time.                              *)
THEOREM CancellationExact == ServerSpec => []CancelsExact
<1>1. CancelInv => CancelsExact
  BY DEF CancelInv
<1> QED
  BY <1>1, CancelInvInit, CancelStep, PTL DEF ServerSpec

-------------------------------------------------------------------------------
(* The build model.  The frames that are not initialized, which is greeted     *)
(* once.                                                                       *)
LEMMA OtherThanGreeting ==
  ASSUME \/ \E method \in Methods : ReadRequest(method)
         \/ \E m \in Notes : ReadNotification(m)
         \/ ReadExit \/ ReadEnd \/ ReadIntoClosedChannel,
         MaxRequests \in Nat, sent \in Seq(Methods)
  PROVE  /\ UNCHANGED <<greetings, cancelVars, loopVars>>
         /\ \/ UNCHANGED queue
            \/ \E m \in Messages : ~ Greets(m) /\ queue' = Append(queue, m)
<1>1. CASE \E method \in Methods : ReadRequest(method)
  <2>1. PICK method \in Methods : ReadRequest(method)
    BY <1>1
  <2> DEFINE m == [kind |-> "request", id |-> Len(sent) + 1, method |-> method]
  <2>2. m \in Messages /\ ~ Greets(m)
    BY <2>1 DEF ReadRequest, Messages, Greets, Ids
  <2> QED
    BY <2>1, <2>2 DEF ReadRequest, Forward
<1>2. CASE \E m \in Notes : ReadNotification(m)
  <2>1. \A m \in Notes : m \in Messages /\ ~ Greets(m)
    BY DEF Notes, Messages, Greets
  <2> QED
    BY <1>2, <2>1 DEF ReadNotification, Forward
<1>3. \A k \in {"exit", "read_error"} : [kind |-> k] \in Messages /\ ~ Greets([kind |-> k])
  BY DEF Messages, Greets
<1>4. CASE ReadExit
  BY <1>3, <1>4 DEF ReadExit, Forward
<1>5. CASE ReadEnd
  BY <1>3, <1>5 DEF ReadEnd
<1>6. CASE ReadIntoClosedChannel
  BY <1>6 DEF ReadIntoClosedChannel
<1> QED
  BY <1>1, <1>2, <1>4, <1>5, <1>6

LEMMA GreetStep ==
  MaxInitialized <= 1 /\ sent \in Seq(Methods) /\ GreetInv /\ [ServerNext]_serverVars => GreetInv'
<1> SUFFICES ASSUME MaxInitialized <= 1, sent \in Seq(Methods), GreetInv, [ServerNext]_serverVars
             PROVE  GreetInv'
  OBVIOUS
<1>0. MaxRequests \in Nat /\ MaxInitialized \in Nat
  BY ServerConstants
<1>1. ASSUME UNCHANGED <<greetings, loopVars>>,
             \/ UNCHANGED queue
             \/ \E m \in Messages : ~ Greets(m) /\ queue' = Append(queue, m)
      PROVE  GreetInv'
  <2>1. queue' \in Seq(Messages)
        /\ \A i \in DOMAIN queue' : Greets(queue'[i]) => i \in DOMAIN queue /\ Greets(queue[i])
    <3>1. CASE UNCHANGED queue
      BY <3>1 DEF GreetInv
    <3>2. ASSUME NEW m \in Messages, ~ Greets(m), queue' = Append(queue, m)
          PROVE  queue' \in Seq(Messages)
                 /\ \A i \in DOMAIN queue' : Greets(queue'[i]) => i \in DOMAIN queue /\ Greets(queue[i])
      <4>1. /\ queue' \in Seq(Messages) /\ DOMAIN queue = 1..Len(queue)
            /\ DOMAIN queue' = 1..Len(queue) + 1 /\ Len(queue) \in Nat
            /\ \A i \in 1..Len(queue) : queue'[i] = queue[i]
            /\ queue'[Len(queue) + 1] = m
        BY <3>2, SendsOne DEF GreetInv
      <4> QED
        BY <3>2, <4>1
    <3> QED
      BY <1>1, <3>1, <3>2
  <2> QED
    BY <1>1, <2>1 DEF GreetInv, Unspawned, Greets, loopVars, turnVars
<1>2. CASE ReadInitialized
  <2> DEFINE m == [kind |-> "initialized"]
  <2>1. greetings = 0 /\ greetings' = 1 /\ queue' = Append(queue, m) /\ UNCHANGED loopVars
    BY <1>0, <1>2 DEF ReadInitialized, Forward, GreetInv
  <2>2. m \in Messages
    BY DEF Messages
  <2>3. /\ queue' \in Seq(Messages) /\ DOMAIN queue = 1..Len(queue)
        /\ DOMAIN queue' = 1..Len(queue) + 1 /\ Len(queue) \in Nat
        /\ \A i \in 1..Len(queue) : queue'[i] = queue[i]
    BY <2>1, <2>2, SendsOne DEF GreetInv
  <2>4. \A i \in DOMAIN queue' : Greets(queue'[i]) => i = Len(queue) + 1
    BY <2>1, <2>3 DEF GreetInv
  <2> QED
    BY <2>1, <2>3, <2>4 DEF GreetInv, Unspawned, Greets, loopVars, turnVars
<1>3. CASE poll_bootstrap
  <2>1. /\ queue # <<>> /\ msg' = Head(queue) /\ queue' = Tail(queue) /\ UNCHANGED greetings
        /\ phase = "receive" /\ phase' = "poll_reload"
    BY <1>3 DEF poll_bootstrap
  <2>2. /\ queue' \in Seq(Messages) /\ DOMAIN queue = 1..Len(queue)
        /\ DOMAIN queue' = 1..Len(queue) - 1 /\ Len(queue) \in Nat
        /\ 1 \in DOMAIN queue /\ Head(queue) = queue[1] /\ Head(queue) \in Messages
        /\ \A i \in DOMAIN queue' : queue'[i] = queue[i + 1] /\ i + 1 \in DOMAIN queue
    BY <2>1, TakesOne DEF GreetInv
  <2>3. Unspawned => Unspawned'
    BY <1>3, <2>1 DEF poll_bootstrap, Unspawned, NoWorker, Done
  <2>4. state' = "ready" => worker' = NoWorker
    BY <1>3 DEF poll_bootstrap, adopt_bootstrap, Install, GreetInv
  <2>5. /\ \A i, j \in DOMAIN queue' : Greets(queue'[i]) /\ Greets(queue'[j]) => i = j
        /\ \A i \in DOMAIN queue' : Greets(queue'[i]) => ~ Greets(queue[1]) /\ greetings # 0 /\ Unspawned
    BY <2>2 DEF GreetInv
  <2>6. Greets(msg') => greetings # 0 /\ Unspawned
    BY <2>1, <2>2 DEF GreetInv
  <2>7. phase' # "refetch" /\ greetings \in Nat /\ (greetings = 0 => Unspawned)
    BY <2>1 DEF GreetInv
  <2> QED
    BY <2>1, <2>2, <2>3, <2>4, <2>5, <2>6, <2>7 DEF GreetInv, Greets
<1>4. ASSUME UNCHANGED <<queue, greetings>>, msg' \in {msg, NoMsg}, Unspawned => Unspawned',
             state' = "ready" \/ phase' = "refetch" => worker' = NoWorker
      PROVE  GreetInv'
  BY <1>4 DEF GreetInv, Greets, NoMsg
<1>5. CASE dispatch_request
  <2>1. UNCHANGED <<queue, greetings, worker>> /\ msg' = NoMsg /\ phase' # "refetch"
    BY <1>5 DEF dispatch_request, Dispatching, Answer, inputVars
  <2>2. state' = "ready" => state = "ready"
    BY <1>5 DEF dispatch_request, stateVars
  <2> QED
    BY <1>4, <2>1, <2>2 DEF GreetInv, Unspawned
<1>6. CASE spawn_bootstrap
  <2>1. /\ Greets(msg) /\ msg' = NoMsg /\ UNCHANGED <<queue, greetings, state>> /\ phase' # "refetch"
    BY <1>6 DEF spawn_bootstrap, Dispatching, Greets, inputVars, stateVars
  <2> QED
    BY <2>1 DEF GreetInv, Unspawned, Greets, NoMsg
<1>7. CASE Worker
  <2>1. worker # NoWorker /\ UNCHANGED <<queue, greetings, msg, state, phase>>
    BY <1>7 DEF Worker, Connecting, LoadingModel, Building, BuildFails, WorkerSteps, NoWorker,
                inputVars, turnVars
  <2> QED
    BY <2>1 DEF GreetInv, Unspawned, Greets
<1>8. CASE drain_bootstrap
  <2>1. UNCHANGED <<queue, greetings, msg>> /\ phase' = "stopped"
    BY <1>8 DEF drain_bootstrap, inputVars
  <2>2. (state' = "ready" => worker' = NoWorker) /\ (Unspawned => Unspawned')
    BY <1>8 DEF drain_bootstrap, adopt_bootstrap, Install, GreetInv, Unspawned, NoWorker, Done
  <2> QED
    BY <1>4, <2>1, <2>2
<1>9. CASE BuildServer \/ poll_reload \/ reload_build_model
  <2>1. UNCHANGED <<queue, greetings, msg, worker>>
    BY <1>9 DEF BuildServer, BuildChanges, on_build_targets_changed, poll_reload, reload_build_model,
                inputVars, turnVars
  <2>2. state' = "ready" \/ phase' = "refetch" => state = "ready" \/ phase = "refetch"
    BY <1>9 DEF BuildServer, BuildChanges, on_build_targets_changed, poll_reload, reload_build_model,
                turnVars
  <2> QED
    BY <1>4, <2>1, <2>2 DEF GreetInv, Unspawned
<1>10. CASE Document \/ Inert \/ Exit \/ ReadError \/ JoinReader \/ UNCHANGED serverVars
  <2>1. /\ UNCHANGED <<queue, greetings, state>> /\ worker' \in {worker, NoWorker}
        /\ msg' \in {msg, NoMsg} /\ (phase' = "refetch" => phase = "refetch")
    BY <1>10 DEF Document, Inert, Exit, ReadError, JoinReader, Dispatching, stateVars,
                 serverVars, inputVars, loopVars, turnVars
  <2> QED
    BY <1>4, <2>1 DEF GreetInv, Unspawned
<1>11. CASE Client
  <2>1. CASE \/ \E method \in Methods : ReadRequest(method)
             \/ \E m \in Notes : ReadNotification(m)
             \/ ReadExit \/ ReadEnd \/ ReadIntoClosedChannel
    BY <1>0, <1>1, <2>1, OtherThanGreeting
  <2>2. ASSUME NEW id \in DOMAIN sent, record_cancel(id)  PROVE GreetInv'
    BY <1>1, <2>2 DEF record_cancel, inputVars
  <2> QED
    BY <1>2, <1>11, <2>1, <2>2 DEF Client
<1> QED
  BY <1>3, <1>5, <1>6, <1>7, <1>8, <1>9, <1>10, <1>11 DEF ServerNext, Loop, Dispatch

LEMMA FreshStep ==
  GreetInv /\ FreshInv /\ [ServerNext]_serverVars => FreshInv'
<1> SUFFICES ASSUME GreetInv, FreshInv, [ServerNext]_serverVars  PROVE FreshInv'
  OBVIOUS
<1> USE DEF FreshInv, Noticed
<1>1. ASSUME UNCHANGED loopVars  PROVE FreshInv'
  BY <1>1 DEF loopVars, modelVars
<1>2. CASE Client
  <2>1. ASSUME NEW method \in Methods, ReadRequest(method)  PROVE UNCHANGED loopVars
    BY <2>1 DEF ReadRequest, Forward
  <2>2. ASSUME NEW id \in DOMAIN sent, record_cancel(id)  PROVE UNCHANGED loopVars
    BY <2>2 DEF record_cancel
  <2> QED
    BY <1>1, <1>2, <2>1, <2>2, OtherFrames DEF Client
<1>3. CASE Worker
  <2>1. UNCHANGED <<state, build, owed, reload_requested, served, keptOld>>
    BY <1>3 DEF Worker, Connecting, LoadingModel, Building, BuildFails, WorkerSteps, modelVars
  <2>2. CASE LoadingModel
    BY <2>1, <2>2 DEF LoadingModel, WorkerSteps
  <2>3. CASE Connecting \/ BuildFails
    <3>1. worker'.at \notin {"ingesting", "ready"}
      BY <2>3 DEF Connecting, BuildFails, WorkerSteps
    <3> QED
      BY <2>1, <3>1
  <2>4. CASE Building
    <3>1. worker.at = "ingesting" /\ worker'.model = worker.model
      BY <2>4 DEF Building, WorkerSteps
    <3> QED
      BY <2>1, <3>1
  <2> QED
    BY <1>3, <2>2, <2>3, <2>4 DEF Worker
<1>4. CASE BuildChanges
  <2>1. UNCHANGED <<state, worker, served, keptOld, reload_requested>> /\ owed' = (owed \/ SessionOpen)
    BY <1>4 DEF BuildChanges
  <2> QED
    BY <2>1 DEF SessionOpen
<1>5. CASE on_build_targets_changed
  BY <1>5 DEF on_build_targets_changed
<1>6. CASE poll_bootstrap \/ drain_bootstrap
  <2>1. UNCHANGED <<build, owed, reload_requested>>
    BY <1>6 DEF poll_bootstrap, drain_bootstrap
  <2>2. CASE worker' \in {worker, NoWorker} /\ UNCHANGED <<state, served, keptOld>>
    BY <2>1, <2>2 DEF NoWorker
  <2>3. CASE Install(worker, docs)
    BY <2>1, <2>3 DEF Install, NoWorker
  <2> QED
    BY <1>6, <2>2, <2>3 DEF poll_bootstrap, drain_bootstrap, adopt_bootstrap
<1>7. CASE poll_reload
  <2>1. UNCHANGED <<worker, build, owed, served, keptOld>>
    BY <1>7 DEF poll_reload, modelVars
  <2>2. CASE UNCHANGED <<reload_requested, state>>
    BY <2>1, <2>2
  <2>3. CASE state = "ready" /\ state' = "not_ready"
    BY <2>1, <2>3 DEF GreetInv, NoWorker
  <2> QED
    BY <1>7, <2>2, <2>3 DEF poll_reload
<1>8. CASE reload_build_model
  BY <1>8 DEF reload_build_model, GreetInv, NoWorker
<1>9. CASE dispatch_request
  <2>1. UNCHANGED <<worker, build, owed, reload_requested, served, keptOld>>
    BY <1>9 DEF dispatch_request, modelVars
  <2>2. state' = "ready" => state = "ready"
    BY <1>9 DEF dispatch_request, stateVars
  <2> QED
    BY <2>1, <2>2
<1>10. CASE spawn_bootstrap
  <2>1. UNCHANGED <<state, build, owed, reload_requested, served, keptOld>>
        /\ worker' \in {worker, [at |-> "starting", model |-> 0]}
    BY <1>10 DEF spawn_bootstrap, stateVars, modelVars
  <2> QED
    BY <2>1
<1>11. CASE Document \/ Inert \/ Exit \/ ReadError \/ JoinReader \/ UNCHANGED serverVars
  <2>1. UNCHANGED <<state, build, owed, reload_requested, served, keptOld>>
        /\ worker' \in {worker, NoWorker}
    BY <1>11 DEF Document, Inert, Exit, ReadError, JoinReader, stateVars, modelVars,
                 serverVars, loopVars, turnVars
  <2> QED
    BY <2>1 DEF NoWorker
<1> QED
  BY <1>2, <1>3, <1>4, <1>5, <1>6, <1>7, <1>8, <1>9, <1>10, <1>11
     DEF ServerNext, Loop, Dispatch, BuildServer

(* Ready services serve the build server's current model unless its change is  *)
(* on its way, noted, or lost to a failed reload: no interleaving of the BSP   *)
(* reader's flag with the bootstrap's load, poll_reload's drain and the reload *)
(* itself drops a change, for a client that sends initialized once, as the     *)
(* protocol demands.                                                           *)
THEOREM ModelKeptFresh ==
  ASSUME MaxInitialized <= 1
  PROVE  ServerSpec => []ReadyModelFresh
<1> DEFINE Inv == CancelInv /\ GreetInv /\ FreshInv
<1>1. ServerInit => Inv
  <2>1. ServerInit => CancelInv
    BY CancelInvInit
  <2>2. ServerInit => GreetInv /\ FreshInv
    BY DEF ServerInit, GreetInv, FreshInv, Greets, Unspawned, NoWorker, NoMsg
  <2> QED
    BY <2>1, <2>2
<1>2. Inv /\ [ServerNext]_serverVars => Inv'
  BY CancelStep, GreetStep, FreshStep DEF CancelInv
<1>3. Inv => ReadyModelFresh
  BY DEF FreshInv, Noticed, ReadyModelFresh
<1> QED
  BY <1>1, <1>2, <1>3, PTL DEF ServerSpec
===============================================================================
