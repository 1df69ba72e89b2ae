-------------------------- MODULE BspSessionProofs --------------------------
(***************************************************************************)
(* Proofs about BspSession, for any callers, revisions and bounds: each    *)
(* request is answered by the answer to it, the pending map holds no       *)
(* sender of a request that is over, and a build model in use that is not  *)
(* the build's current revision throughout is always about to be loaded    *)
(* again.                                                                  *)
(***************************************************************************)
EXTENDS BspSession, TLAPS

Methods ==
  {"build/initialize", "workspace/buildTargets", "buildTarget/sources",
   "buildTarget/scalacOptions", "buildTarget/compile", "build/shutdown"}

Caller ==
  [op : {"idle", "boot", "refetch", "compile", "shutdown"},
   at : {"idle", "ready", "registered", "waiting", "closing", "terminating"},
   id : Nat, left : Seq(Methods), parts : Seq(Nat)]

Answers ==
  [kind : {"answer"}, id : Nat, method : Methods, ok : BOOLEAN, revision : Nat]

Messages == Answers \cup {[kind |-> "didChange"], [kind |-> "garbage"]}

ShapeInv ==
  /\ revision \in Nat /\ next_id \in Nat
  /\ received \in SUBSET [id : Nat, method : Methods]
  /\ stream \in Seq(Messages)
  /\ reader \in Answers \cup {Reading, Ended}
  /\ channel \in [Callers -> Answers \cup {NoAnswer}]
  /\ caller \in [Callers -> Caller]
  /\ \A c \in Callers :
       caller[c].at \in {"ready", "registered", "waiting"} => caller[c].left # <<>>

(* A request is in flight from the moment it is in the pending map. *)
Active(c) == caller[c].at \in {"registered", "waiting"}

(* No id is in flight twice, and the next one is new. *)
IdsInv ==
  /\ \A c \in Callers : Active(c) => caller[c].id < next_id
  /\ \A c, d \in Callers : Active(c) /\ Active(d) /\ caller[c].id = caller[d].id => c = d
  /\ NothingPendingAtRest

(* What is sent for an id is for the request in flight under it, if any. *)
Fits(m) ==
  /\ m.id < next_id
  /\ \A c \in Callers : Active(c) /\ caller[c].id = m.id
       => caller[c].at = "waiting" /\ m.method = Head(caller[c].left)

(* Requests, answers on their way and answers handed over all fit; the sender *)
(* of one that the reader took has left the map.                              *)
FitInv ==
  /\ \A r \in received : Fits(r)
  /\ \A i \in 1 .. Len(stream) : stream[i] \in Answers => Fits(stream[i])
  /\ reader \in Answers => Fits(reader) /\ reader.id \notin pending
  /\ \A c \in Callers : channel[c] # NoAnswer
       => /\ caller[c].at = "waiting" /\ channel[c].method = Head(caller[c].left)
          /\ caller[c].id \notin pending

Inv == ShapeInv /\ IdsInv /\ FitInv

-----------------------------------------------------------------------------
(* The caller records the operations start with. *)
LEMMA CallShape ==
  /\ Idle \in Caller
  /\ \A op \in {"boot", "refetch", "compile", "shutdown"} :
       Call(op) \in Caller /\ Call(op).at = "ready" /\ Call(op).left # <<>>
<1>1. Idle \in Caller
  BY DEF Idle, Caller
<1>2. LoadMethods \in Seq(Methods) /\ LoadMethods # <<>>
  BY DEF LoadMethods, Methods
<1>3. /\ <<"build/initialize">> \in Seq(Methods) /\ <<"build/shutdown">> \in Seq(Methods)
      /\ <<"buildTarget/compile">> \in Seq(Methods)
      /\ <<"build/shutdown">> # <<>> /\ <<"buildTarget/compile">> # <<>>
  BY DEF Methods
<1>4. <<"build/initialize">> \o LoadMethods \in Seq(Methods)
      /\ <<"build/initialize">> \o LoadMethods # <<>>
  BY <1>2, <1>3
<1>5. \A op \in {"boot", "refetch", "compile", "shutdown"} :
        Program[op] \in Seq(Methods) /\ Program[op] # <<>>
  <2>1. /\ Program["boot"] = <<"build/initialize">> \o LoadMethods
        /\ Program["refetch"] = LoadMethods
        /\ Program["compile"] = <<"buildTarget/compile">>
        /\ Program["shutdown"] = <<"build/shutdown">>
    BY Zenon DEF Program
  <2> HIDE DEF Program
  <2> QED
    BY <1>2, <1>3, <1>4, <2>1, Zenon
<1>6. ASSUME NEW op \in {"boot", "refetch", "compile", "shutdown"}
      PROVE  Call(op) \in Caller /\ Call(op).at = "ready" /\ Call(op).left # <<>>
  <2>1. Program[op] \in Seq(Methods) /\ Program[op] # <<>>
    BY <1>5, Zenon
  <2> QED
    BY <2>1 DEF Call, Caller
<1> QED
  BY <1>1, <1>6, Zenon

(* The resting values are no answers. *)
LEMMA NotAnswers ==
  /\ Reading \notin Answers /\ Ended \notin Answers /\ NoAnswer \notin Answers
  /\ Reading # Ended
  BY Zenon DEF Reading, Ended, NoAnswer, Answers

(* Nothing is in flight at first. *)
LEMMA InvInit == SessionInit => Inv
<1> SUFFICES ASSUME SessionInit PROVE Inv
  BY Zenon
<1>1. ASSUME NEW c \in Callers
      PROVE  caller[c] \in Caller /\ ~ Active(c)
             /\ (caller[c].at = "ready" => caller[c].left # <<>>)
  BY CallShape, Zenon DEF SessionInit, Active, Idle
<1>2. ShapeInv
  <2>1. caller \in [Callers -> Caller]
    BY <1>1, Zenon DEF SessionInit
  <2>2. stream \in Seq(Messages)
    BY DEF SessionInit
  <2> QED
    BY <1>1, <2>1, <2>2, Zenon DEF SessionInit, ShapeInv, Active
<1>3. IdsInv
  BY <1>1, Zenon DEF SessionInit, IdsInv, NothingPendingAtRest
<1>4. FitInv
  BY NotAnswers DEF SessionInit, FitInv
<1> QED
  BY <1>2, <1>3, <1>4, Zenon DEF Inv

-----------------------------------------------------------------------------
(* What a step may do to the requests in flight: keep one as it is, or on its *)
(* way from registered to waiting, end it, or begin one under a new id.       *)
Keeps(c) ==
  /\ Active(c) /\ caller'[c].id = caller[c].id /\ caller'[c].left = caller[c].left
  /\ caller[c].at = "waiting" => caller'[c].at = "waiting"

(* To fit after the step. *)
FitsNext(m) ==
  /\ m.id < next_id'
  /\ \A c \in Callers : Active(c)' /\ caller'[c].id = m.id
       => caller'[c].at = "waiting" /\ m.method = Head(caller'[c].left)

(* What fitted still fits, whatever requests end or begin meanwhile. *)
LEMMA FitsKept ==
  ASSUME ShapeInv, FitInv, next_id' \in Nat, next_id <= next_id',
         \A c \in Callers : Active(c)' => Keeps(c) \/ caller'[c].id = next_id
  PROVE  /\ \A r \in received : FitsNext(r)
         /\ \A i \in 1 .. Len(stream) : stream[i] \in Answers => FitsNext(stream[i])
         /\ reader \in Answers => FitsNext(reader)
<1>1. ASSUME NEW m, m.id \in Nat, Fits(m) PROVE FitsNext(m)
  <2>1. m.id < next_id'
    BY <1>1 DEF Fits, ShapeInv
  <2>2. ASSUME NEW c \in Callers, Active(c)', caller'[c].id = m.id
        PROVE  caller'[c].at = "waiting" /\ m.method = Head(caller'[c].left)
    <3>1. caller'[c].id # next_id
      BY <1>1, <2>2 DEF Fits, ShapeInv
    <3>2. Keeps(c)
      BY <2>2, <3>1, Zenon
    <3> QED
      BY <1>1, <2>2, <3>2, Zenon DEF Keeps, Fits
  <2> QED
    BY <2>1, <2>2, Zenon DEF FitsNext
<1>2. \A r \in received : r.id \in Nat /\ Fits(r)
  BY Zenon DEF ShapeInv, FitInv
<1>3. \A i \in 1 .. Len(stream) : stream[i] \in Answers => stream[i].id \in Nat /\ Fits(stream[i])
  BY Zenon DEF FitInv, Answers
<1>4. reader \in Answers => reader.id \in Nat /\ Fits(reader)
  BY Zenon DEF FitInv, Answers
<1> QED
  BY <1>1, <1>2, <1>3, <1>4, Zenon

(* The four parts of FitInv, after a step. *)
LEMMA FitsAgain ==
  ASSUME \A r \in received' : FitsNext(r),
         \A i \in 1 .. Len(stream') : stream'[i] \in Answers => FitsNext(stream'[i]),
         reader' \in Answers => FitsNext(reader') /\ reader'.id \notin pending',
         \A c \in Callers : channel'[c] # NoAnswer
           => /\ caller'[c].at = "waiting" /\ channel'[c].method = Head(caller'[c].left)
              /\ caller'[c].id \notin pending'
  PROVE  FitInv'
  BY Zenon DEF FitInv, Fits, FitsNext

(* A step that leaves connection and channels alone, and only ends requests.  *)
LEMMA QuietStep ==
  ASSUME Inv, NEW c \in Callers, NEW v \in Caller, caller' = [caller EXCEPT ![c] = v],
         v.at \notin {"registered", "waiting"}, v.at = "ready" => v.left # <<>>,
         caller[c].at = "waiting" => channel'[c] = NoAnswer,
         channel' = channel \/ channel' = [channel EXCEPT ![c] = NoAnswer],
         pending' \subseteq pending, Active(c) => caller[c].id \notin pending',
         received' \subseteq received, UNCHANGED <<revision, next_id, stream, reader>>
  PROVE  Inv'
<1> USE DEF Inv
<1>1. ASSUME NEW d \in Callers
      PROVE  IF d = c THEN caller'[d] = v /\ ~ Active(d)' ELSE caller'[d] = caller[d]
  BY Zenon DEF ShapeInv, Active
<1>2. ShapeInv'
  <2>1. caller' \in [Callers -> Caller]
    BY Zenon DEF ShapeInv
  <2>2. channel' \in [Callers -> Answers \cup {NoAnswer}]
    BY Zenon DEF ShapeInv
  <2>3. \A d \in Callers :
          caller'[d].at \in {"ready", "registered", "waiting"} => caller'[d].left # <<>>
    BY <1>1, Zenon DEF ShapeInv
  <2> QED
    BY <2>1, <2>2, <2>3, Zenon DEF ShapeInv
<1>3. \A d \in Callers : Active(d)' => d # c /\ Active(d) /\ caller'[d] = caller[d] /\ Keeps(d)
  BY <1>1, Zenon DEF Active, Keeps
<1>4. IdsInv'
  <2>1. \A d \in Callers : Active(d)' => caller'[d].id < next_id'
    BY <1>3, Zenon DEF IdsInv
  <2>2. \A d, e \in Callers : Active(d)' /\ Active(e)' /\ caller'[d].id = caller'[e].id => d = e
    BY <1>3, Zenon DEF IdsInv
  <2>3. ASSUME NEW id \in pending'
        PROVE  \E d \in Callers : caller'[d].id = id /\ caller'[d].at \in {"registered", "waiting"}
    <3>1. PICK d \in Callers : caller[d].id = id /\ Active(d)
      BY <2>3, Zenon DEF IdsInv, NothingPendingAtRest, Active
    <3>2. d # c
      BY <2>3, <3>1, Zenon
    <3> QED
      BY <1>1, <3>1, <3>2, Zenon DEF Active
  <2> QED
    BY <2>1, <2>2, <2>3, Zenon DEF IdsInv, NothingPendingAtRest
<1>5. /\ \A r \in received : FitsNext(r)
      /\ \A i \in 1 .. Len(stream) : stream[i] \in Answers => FitsNext(stream[i])
      /\ reader \in Answers => FitsNext(reader)
  BY <1>3, FitsKept DEF ShapeInv
<1>6. ASSUME NEW d \in Callers, channel'[d] # NoAnswer
      PROVE  /\ caller'[d].at = "waiting" /\ channel'[d].method = Head(caller'[d].left)
             /\ caller'[d].id \notin pending'
  BY <1>1, <1>6, Zenon DEF FitInv, ShapeInv
<1>7. reader' \in Answers => FitsNext(reader') /\ reader'.id \notin pending'
  BY <1>5, Zenon DEF FitInv
<1>8. FitInv'
  BY <1>5, <1>6, <1>7, FitsAgain, Zenon
<1> QED
  BY <1>2, <1>4, <1>8, Zenon

(* A request that fails ends the operation, or goes over to the shutdown. *)
LEMMA FailShape ==
  ASSUME ShapeInv, NEW c \in Callers, Fail(c)
  PROVE  \E v \in Caller :
           /\ caller' = [caller EXCEPT ![c] = v]
           /\ v.at \notin {"registered", "waiting"} /\ (v.at = "ready" => v.left # <<>>)
<1>1. caller[c] \in Caller
  BY Zenon DEF ShapeInv
<1>2. CASE caller[c].op = "boot"
  <2>1. caller' = [caller EXCEPT ![c] = Call("shutdown")]
    BY <1>2, Zenon DEF Fail
  <2> QED
    BY <2>1, CallShape, Zenon
<1>3. CASE caller[c].op = "shutdown"
  <2> DEFINE v == [caller[c] EXCEPT !.at = "closing"]
  <2>1. caller' = [caller EXCEPT ![c] = v]
    BY <1>3, Zenon DEF Fail
  <2>2. v \in Caller /\ v.at = "closing"
    BY <1>1, Zenon DEF Caller
  <2> QED
    BY <2>1, <2>2, Zenon
<1>4. CASE caller[c].op \notin {"boot", "shutdown"}
  <2>1. caller' = [caller EXCEPT ![c] = Idle]
    BY <1>4, Zenon DEF Fail
  <2>2. Idle.at = "idle"
    BY Zenon DEF Idle
  <2> QED
    BY <2>1, <2>2, CallShape, Zenon
<1> QED
  BY <1>2, <1>3, <1>4, Zenon

(* More than one request: some are left after the first. *)
LEMMA TailLeft ==
  ASSUME NEW s \in Seq(Methods), s # <<>>, Len(s) # 1
  PROVE  Tail(s) \in Seq(Methods) /\ Tail(s) # <<>>
<1>1. Tail(s) \in Seq(Methods) /\ Len(Tail(s)) = Len(s) - 1
  OBVIOUS
<1>2. Len(s) \in Nat /\ Len(s) # 0
  OBVIOUS
<1>3. Len(Tail(s)) # 0
  BY <1>1, <1>2
<1>4. Len(<<>>) = 0
  BY Zenon
<1>5. Tail(s) # <<>>
  BY <1>3, <1>4, Zenon
<1> QED
  BY <1>1, <1>5, Zenon

(* One that succeeds is followed by the next, or ends the operation. *)
LEMMA SucceedShape ==
  ASSUME ShapeInv, NEW c \in Callers, NEW rev \in Nat, caller[c].at = "waiting", Succeed(c, rev)
  PROVE  \E v \in Caller :
           /\ caller' = [caller EXCEPT ![c] = v]
           /\ v.at \notin {"registered", "waiting"} /\ (v.at = "ready" => v.left # <<>>)
<1> DEFINE me == caller[c]
           parts == IF Head(me.left) \in Range(LoadMethods) THEN Append(me.parts, rev) ELSE me.parts
           last == Len(me.left) = 1
                   \/ (Head(me.left) = "workspace/buildTargets" /\ rev \in NoScala3)
<1>1. me \in Caller /\ me.left # <<>> /\ me.left \in Seq(Methods) /\ parts \in Seq(Nat)
  BY DEF ShapeInv, Caller
<1>2. CASE ~ last
  <2> DEFINE v == [me EXCEPT !.at = "ready", !.left = Tail(me.left), !.parts = parts]
  <2>1. caller' = [caller EXCEPT ![c] = v]
    BY <1>2, Zenon DEF Succeed
  <2>2. Tail(me.left) \in Seq(Methods) /\ Tail(me.left) # <<>>
    BY <1>1, <1>2, TailLeft, Zenon
  <2> HIDE DEF parts
  <2>3. v \in Caller /\ v.at = "ready" /\ v.left # <<>>
    BY <1>1, <2>2, Zenon DEF Caller
  <2> QED
    BY <2>1, <2>3, Zenon
<1>3. CASE last /\ me.op = "shutdown"
  <2> DEFINE v == [me EXCEPT !.at = "closing"]
  <2>1. caller' = [caller EXCEPT ![c] = v]
    BY <1>3, Zenon DEF Succeed
  <2>2. v \in Caller /\ v.at = "closing"
    BY <1>1, Zenon DEF Caller
  <2> QED
    BY <2>1, <2>2, Zenon
<1>4. CASE last /\ me.op # "shutdown"
  <2>1. caller' = [caller EXCEPT ![c] = Idle]
    BY <1>4, Zenon DEF Succeed
  <2>2. Idle.at = "idle"
    BY Zenon DEF Idle
  <2> QED
    BY <2>1, <2>2, CallShape, Zenon
<1> QED
  BY <1>2, <1>3, <1>4, Zenon

-----------------------------------------------------------------------------
(* The steps of a request. *)
LEMMA RegisterStep == ASSUME Inv, NEW c \in Callers, register(c) PROVE Inv'
<1> USE DEF Inv
<1>1. /\ caller[c] \in Caller /\ caller[c].at = "ready" /\ ~ Active(c)
      /\ next_id \in Nat /\ next_id' = next_id + 1
  BY Zenon DEF ShapeInv, register, Active
<1>2. caller'[c].at = "registered" /\ caller'[c].id = next_id /\ caller'[c].left = caller[c].left
      /\ caller'[c] \in Caller
  BY <1>1, Zenon DEF register, ShapeInv, Caller
<1>3. \A d \in Callers : d # c => caller'[d] = caller[d] /\ channel'[d] = channel[d]
  BY Zenon DEF register, ShapeInv
<1>4. channel'[c] = NoAnswer
  BY Zenon DEF register, ShapeInv
<1>5. ShapeInv'
  <2>1. caller' \in [Callers -> Caller]
    BY <1>2, <1>3, Zenon DEF register, ShapeInv
  <2>2. channel' \in [Callers -> Answers \cup {NoAnswer}]
    BY Zenon DEF register, ShapeInv
  <2>3. \A d \in Callers :
          caller'[d].at \in {"ready", "registered", "waiting"} => caller'[d].left # <<>>
    BY <1>1, <1>2, <1>3, Zenon DEF ShapeInv
  <2> QED
    BY <1>1, <2>1, <2>2, <2>3 DEF register, ShapeInv, serverVars
<1>6. \A d \in Callers : d # c /\ Active(d)' => Keeps(d) /\ caller[d].id < next_id
  BY <1>3, Zenon DEF Active, Keeps, IdsInv
<1>7. IdsInv'
  <2>1. \A d \in Callers : Active(d)' => caller'[d].id < next_id'
    <3>1. ASSUME NEW d \in Callers PROVE caller[d].id \in Nat
      BY Zenon DEF ShapeInv, Caller
    <3> QED
      BY <1>1, <1>2, <1>3, <1>6, <3>1
  <2>2. ASSUME NEW d \in Callers, NEW e \in Callers, Active(d)', Active(e)',
               caller'[d].id = caller'[e].id
        PROVE  d = e
    <3>1. ASSUME NEW b \in Callers, b # c, Active(b)'
          PROVE  Active(b) /\ caller'[b].id = caller[b].id /\ caller'[b].id # next_id
      <4>1. Active(b) /\ caller'[b].id = caller[b].id /\ caller[b].id < next_id
        BY <1>6, <3>1, Zenon DEF Keeps
      <4>2. caller[b].id \in Nat
        BY Zenon DEF ShapeInv, Caller
      <4> QED
        BY <1>1, <4>1, <4>2
    <3> QED
      BY <1>2, <2>2, <3>1, Zenon DEF IdsInv
  <2>3. ASSUME NEW id \in pending'
        PROVE  \E d \in Callers : caller'[d].id = id /\ caller'[d].at \in {"registered", "waiting"}
    <3>1. CASE id = next_id
      BY <1>2, <3>1, Zenon
    <3>2. CASE id \in pending
      <4>1. PICK d \in Callers : caller[d].id = id /\ Active(d)
        BY <3>2, Zenon DEF IdsInv, NothingPendingAtRest, Active
      <4> QED
        BY <1>1, <1>3, <4>1, Zenon DEF Active
    <3> QED
      BY <2>3, <3>1, <3>2, Zenon DEF register
  <2> QED
    BY <2>1, <2>2, <2>3, Zenon DEF IdsInv, NothingPendingAtRest
<1>8. /\ \A r \in received : FitsNext(r)
      /\ \A i \in 1 .. Len(stream) : stream[i] \in Answers => FitsNext(stream[i])
      /\ reader \in Answers => FitsNext(reader)
  BY <1>1, <1>2, <1>6, FitsKept
<1>9. ASSUME NEW d \in Callers, channel'[d] # NoAnswer
      PROVE  /\ caller'[d].at = "waiting" /\ channel'[d].method = Head(caller'[d].left)
             /\ caller'[d].id \notin pending'
  <2>1. d # c
    BY <1>4, <1>9, Zenon
  <2>2. caller'[d] = caller[d] /\ channel'[d] = channel[d] /\ caller[d].at = "waiting"
    BY <1>3, <1>9, <2>1, Zenon DEF FitInv
  <2>3. caller[d].id < next_id /\ caller[d].id \in Nat
    BY <2>2, Zenon DEF IdsInv, Active, ShapeInv, Caller
  <2> QED
    BY <1>1, <1>9, <2>2, <2>3 DEF FitInv, register
<1>10. reader' \in Answers => FitsNext(reader') /\ reader'.id \notin pending'
  <2>1. reader \in Answers => reader.id < next_id /\ reader.id \in Nat /\ reader.id \notin pending
    BY Zenon DEF FitInv, Fits, Answers
  <2> QED
    BY <1>1, <1>8, <2>1 DEF register
<1>11. FitInv'
  BY <1>8, <1>9, <1>10, FitsAgain, Zenon DEF register, serverVars
<1> QED
  BY <1>5, <1>7, <1>11, Zenon

(* A message that could be written waits; one that could not has failed. *)
LEMMA WriteStep == ASSUME Inv, NEW c \in Callers, write_message(c) PROVE Inv'
<1> USE DEF Inv
<1>1. caller[c] \in Caller /\ caller[c].at = "registered" /\ Active(c)
      /\ caller[c].id \in Nat /\ caller[c].left \in Seq(Methods) /\ caller[c].left # <<>>
  BY Zenon DEF ShapeInv, write_message, Active, Caller
<1>2. CASE server # "up"
  <2>1. PICK v \in Caller :
           /\ caller' = [caller EXCEPT ![c] = v]
           /\ v.at \notin {"registered", "waiting"} /\ (v.at = "ready" => v.left # <<>>)
    BY <1>2, FailShape, Zenon DEF write_message
  <2> QED
    BY <1>1, <1>2, <2>1, QuietStep, Zenon DEF write_message
<1>3. CASE server = "up"
  <2> DEFINE r == [id |-> caller[c].id, method |-> Head(caller[c].left)]
  <2>1. /\ received' = received \cup {r} /\ caller' = [caller EXCEPT ![c].at = "waiting"]
        /\ UNCHANGED <<revision, pending, next_id, stream, reader, channel>>
    BY <1>3, Zenon DEF write_message
  <2>2. /\ caller'[c] \in Caller /\ caller'[c].at = "waiting"
        /\ caller'[c].id = caller[c].id /\ caller'[c].left = caller[c].left
    BY <1>1, <2>1, Zenon DEF ShapeInv, Caller
  <2>3. \A d \in Callers : d # c => caller'[d] = caller[d]
    BY <2>1, Zenon DEF ShapeInv
  <2>4. r \in [id : Nat, method : Methods]
    BY <1>1
  <2>5. ShapeInv'
    <3>1. caller' \in [Callers -> Caller]
      BY <2>1, <2>2, <2>3, Zenon DEF ShapeInv
    <3>2. \A d \in Callers :
            caller'[d].at \in {"ready", "registered", "waiting"} => caller'[d].left # <<>>
      BY <1>1, <2>2, <2>3, Zenon DEF ShapeInv
    <3> QED
      BY <2>1, <2>4, <3>1, <3>2, Zenon DEF ShapeInv
  <2>6. \A d \in Callers : /\ Active(d)' <=> Active(d)
                           /\ Active(d) => Keeps(d)
                           /\ caller'[d].id = caller[d].id
    BY <1>1, <2>2, <2>3, Zenon DEF Active, Keeps
  <2>7. IdsInv'
    BY <2>1, <2>6 DEF IdsInv, NothingPendingAtRest, Active
  <2>8. /\ \A q \in received : FitsNext(q)
        /\ \A i \in 1 .. Len(stream) : stream[i] \in Answers => FitsNext(stream[i])
        /\ reader \in Answers => FitsNext(reader)
    BY <2>1, <2>6, FitsKept DEF ShapeInv
  <2>9. FitsNext(r)
    <3>1. r.id = caller[c].id /\ r.method = Head(caller[c].left)
      BY Zenon
    <3>2. r.id < next_id'
      BY <1>1, <2>1, <3>1, Zenon DEF IdsInv
    <3>3. ASSUME NEW d \in Callers, Active(d)', caller'[d].id = r.id PROVE d = c
      BY <1>1, <2>6, <3>1, <3>3, Zenon DEF IdsInv
    <3> QED
      BY <2>2, <3>1, <3>2, <3>3, Zenon DEF FitsNext
  <2>10. ASSUME NEW d \in Callers, channel'[d] # NoAnswer
         PROVE  /\ caller'[d].at = "waiting" /\ channel'[d].method = Head(caller'[d].left)
                /\ caller'[d].id \notin pending'
    <3>1. d # c
      BY <1>1, <2>1, <2>10, Zenon DEF FitInv
    <3> QED
      BY <2>1, <2>3, <2>10, <3>1 DEF FitInv
  <2>11. FitInv'
    <3>1. reader' \in Answers => FitsNext(reader') /\ reader'.id \notin pending'
      BY <2>1, <2>8, Zenon DEF FitInv
    <3> QED
      BY <2>1, <2>8, <2>9, <2>10, <3>1, FitsAgain, Zenon
  <2> QED
    BY <2>5, <2>7, <2>11
<1> QED
  BY <1>2, <1>3, Zenon

(* An answer, an end of input or a deadline ends the request. *)
LEMMA EndStep ==
  ASSUME Inv, NEW c \in Callers, receive(c) \/ disconnected(c) \/ timeout(c)
  PROVE  Inv'
<1> USE DEF Inv
<1>1. caller[c].at = "waiting" /\ Active(c)
  BY Zenon DEF receive, disconnected, timeout, Active
<1>2. CASE receive(c)
  <2>1. channel[c] \in Answers /\ channel[c].revision \in Nat
    BY <1>2, Zenon DEF receive, ShapeInv, Answers
  <2>2. PICK v \in Caller :
           /\ caller' = [caller EXCEPT ![c] = v]
           /\ v.at \notin {"registered", "waiting"} /\ (v.at = "ready" => v.left # <<>>)
    BY <1>1, <1>2, <2>1, FailShape, SucceedShape, Zenon DEF receive
  <2>3. /\ caller[c].id \notin pending /\ pending' = pending
        /\ channel' = [channel EXCEPT ![c] = NoAnswer] /\ channel'[c] = NoAnswer
    BY <1>2, Zenon DEF receive, FitInv, ShapeInv
  <2> QED
    BY <1>2, <2>2, <2>3, QuietStep, Zenon DEF receive, serverVars
<1>3. CASE disconnected(c)
  <2>1. PICK v \in Caller :
           /\ caller' = [caller EXCEPT ![c] = v]
           /\ v.at \notin {"registered", "waiting"} /\ (v.at = "ready" => v.left # <<>>)
    BY <1>3, FailShape, Zenon DEF disconnected
  <2> QED
    BY <1>3, <2>1, QuietStep, Zenon DEF disconnected, serverVars, rpcVars
<1>4. CASE timeout(c)
  <2>1. PICK v \in Caller :
           /\ caller' = [caller EXCEPT ![c] = v]
           /\ v.at \notin {"registered", "waiting"} /\ (v.at = "ready" => v.left # <<>>)
    BY <1>4, FailShape, Zenon DEF timeout
  <2>2. received' \subseteq received
    BY <1>4, Zenon DEF timeout, Forgotten
  <2> QED
    BY <1>4, <2>1, <2>2, QuietStep, Zenon DEF timeout
<1> QED
  BY <1>2, <1>3, <1>4, Zenon

-----------------------------------------------------------------------------
(* The operations begin and end outside a request. *)
LEMMA OperationStep ==
  ASSUME Inv, NEW c \in Callers, compile(c) \/ refetch_model(c) \/ close(c) \/ terminate(c)
  PROVE  Inv'
<1> USE DEF Inv
<1>1. caller[c] \in Caller /\ ~ Active(c) /\ caller[c].at # "waiting"
  BY DEF ShapeInv, compile, refetch_model, close, terminate, Starts, Active, Idle
<1>2. CASE compile(c)
  <2>1. caller' = [caller EXCEPT ![c] = Call("compile")]
    BY <1>2, Zenon DEF compile
  <2> QED
    BY <1>1, <1>2, <2>1, CallShape, QuietStep, Zenon DEF compile, UnchangedRest, serverVars, rpcVars
<1>3. CASE refetch_model(c)
  <2>1. caller' = [caller EXCEPT ![c] = Call("refetch")]
    BY <1>3, Zenon DEF refetch_model
  <2> QED
    BY <1>1, <1>3, <2>1, CallShape, QuietStep, Zenon DEF refetch_model, UnchangedRest, serverVars, rpcVars
<1>4. CASE close(c)
  <2> DEFINE v == [caller[c] EXCEPT !.at = "terminating"]
  <2>1. caller' = [caller EXCEPT ![c] = v]
    BY <1>4, Zenon DEF close
  <2>2. v \in Caller /\ v.at = "terminating"
    BY <1>1, Zenon DEF Caller
  <2> HIDE DEF v
  <2> QED
    BY <1>1, <1>4, <2>1, <2>2, QuietStep, Zenon DEF close, serverVars, rpcVars
<1>5. CASE terminate(c)
  <2>1. caller' = [caller EXCEPT ![c] = Idle] /\ Idle.at = "idle"
    BY <1>5, Zenon DEF terminate, Idle
  <2> QED
    BY <1>1, <1>5, <2>1, CallShape, QuietStep, Zenon DEF terminate, rpcVars
<1> QED
  BY <1>2, <1>3, <1>4, <1>5, Zenon

(* The last user shuts the session down. *)
LEMMA ShutdownStep == ASSUME Inv, shutdown PROVE Inv'
<1> USE DEF Inv
<1>1. caller' = [caller EXCEPT ![Owner] = Call("shutdown")]
  BY Zenon DEF shutdown
<1>2. UNCHANGED <<revision, received, stream, reader, pending, next_id, channel>>
  BY Zenon DEF shutdown, UnchangedRest, serverVars, rpcVars
<1>3. CASE Owner \in Callers
  <2>1. ~ Active(Owner) /\ caller[Owner].at # "waiting"
    BY <1>3 DEF shutdown, Active, Idle
  <2> QED
    BY <1>1, <1>2, <1>3, <2>1, CallShape, QuietStep, Zenon
<1>4. CASE Owner \notin Callers
  <2>1. caller' = caller
    BY <1>1, <1>4, Zenon DEF ShapeInv
  <2> QED
    BY <1>2, <2>1 DEF ShapeInv, IdsInv, FitInv, Fits, Active, NothingPendingAtRest
<1> QED
  BY <1>3, <1>4, Zenon

-----------------------------------------------------------------------------
(* Steps that leave the callers and the ids alone. *)
LEMMA FitsSame ==
  ASSUME Inv, UNCHANGED <<caller, next_id>>
  PROVE  /\ \A r \in received : FitsNext(r)
         /\ \A i \in 1 .. Len(stream) : stream[i] \in Answers => FitsNext(stream[i])
         /\ reader \in Answers => FitsNext(reader)
         /\ \A c \in Callers : Active(c)' <=> Active(c)
<1>1. \A c \in Callers : (Active(c)' <=> Active(c)) /\ (Active(c) => Keeps(c))
  BY Zenon DEF Active, Keeps
<1> QED
  BY <1>1, FitsKept DEF Inv, ShapeInv

(* The reader takes a message. *)
LEMMA DispatchStep == ASSUME Inv, dispatch PROVE Inv'
<1> USE DEF Inv
<1> DEFINE msg == Head(stream)
<1>1. /\ stream \in Seq(Messages) /\ stream # <<>> /\ stream' = Tail(stream)
      /\ reader = Reading
      /\ UNCHANGED <<revision, received, next_id, channel, caller>>
  BY Zenon DEF dispatch, ShapeInv, serverVars
<1>2. msg \in Messages /\ stream' \in Seq(Messages)
      /\ msg = stream[1] /\ 1 \in 1 .. Len(stream)
      /\ \A i \in 1 .. Len(stream') : i + 1 \in 1 .. Len(stream) /\ stream'[i] = stream[i + 1]
  BY <1>1
<1>3. /\ reader' = IF msg.kind = "answer" /\ msg.id \in pending THEN msg ELSE reader
      /\ pending' = IF msg.kind = "answer" THEN pending \ {msg.id} ELSE pending
  BY Zenon DEF dispatch
<1>4. msg.kind = "answer" <=> msg \in Answers
  BY <1>2 DEF Messages, Answers
<1> HIDE DEF msg
<1>5. ShapeInv'
  BY <1>1, <1>2, <1>3, <1>4, Zenon DEF ShapeInv
<1>6. IdsInv'
  <2>1. pending' \subseteq pending
    BY <1>3, Zenon
  <2> QED
    BY <1>1, <2>1, Zenon DEF IdsInv, NothingPendingAtRest, Active
<1>7. FitInv'
  <2>1. /\ \A r \in received' : FitsNext(r)
        /\ \A i \in 1 .. Len(stream) : stream[i] \in Answers => FitsNext(stream[i])
    BY <1>1, FitsSame, Zenon
  <2>2. \A i \in 1 .. Len(stream') : stream'[i] \in Answers => FitsNext(stream'[i])
    BY <1>2, <2>1, Zenon
  <2>3. reader' \in Answers => FitsNext(reader') /\ reader'.id \notin pending'
    BY <1>1, <1>2, <1>3, <2>1, NotAnswers, Zenon
  <2>4. \A c \in Callers : channel'[c] # NoAnswer
          => /\ caller'[c].at = "waiting" /\ channel'[c].method = Head(caller'[c].left)
             /\ caller'[c].id \notin pending'
    BY <1>1, <1>3, Zenon DEF FitInv
  <2> QED
    BY <2>1, <2>2, <2>3, <2>4, FitsAgain, Zenon
<1> QED
  BY <1>5, <1>6, <1>7, Zenon

(* It hands an answer over, or ends. *)
LEMMA ReaderMoves == ASSUME Inv, send_outcome \/ read_loop_ends PROVE Inv'
<1> USE DEF Inv
<1>1. UNCHANGED <<revision, received, stream, next_id, caller>>
  BY Zenon DEF send_outcome, read_loop_ends, serverVars
<1>2. reader' \in {Reading, Ended} /\ pending' \subseteq pending
  BY Zenon DEF send_outcome, read_loop_ends
<1>3. IdsInv'
  BY <1>1, <1>2, Zenon DEF IdsInv, NothingPendingAtRest, Active
<1>4. /\ \A r \in received' : FitsNext(r)
      /\ \A i \in 1 .. Len(stream') : stream'[i] \in Answers => FitsNext(stream'[i])
  BY <1>1, FitsSame, Zenon
<1>5. reader' \in Answers => FitsNext(reader') /\ reader'.id \notin pending'
  BY <1>2, NotAnswers, Zenon
<1>6. CASE send_outcome
  <2>1. reader \in Answers /\ Fits(reader) /\ reader.id \notin pending /\ pending' = pending
    BY <1>6, Zenon DEF send_outcome, ShapeInv, FitInv
  <2>2. channel' = [c \in Callers |-> IF caller[c].id = reader.id /\ caller[c].at = "waiting"
                                       THEN reader ELSE channel[c]]
    BY <1>6, Zenon DEF send_outcome
  <2>3. ShapeInv'
    <3>1. channel' \in [Callers -> Answers \cup {NoAnswer}]
      BY <2>1, <2>2, Zenon DEF ShapeInv
    <3> QED
      BY <1>1, <1>2, <3>1, Zenon DEF ShapeInv
  <2>4. ASSUME NEW c \in Callers, channel'[c] # NoAnswer
        PROVE  /\ caller'[c].at = "waiting" /\ channel'[c].method = Head(caller'[c].left)
               /\ caller'[c].id \notin pending'
    <3>1. CASE caller[c].id = reader.id /\ caller[c].at = "waiting"
      <4>1. channel'[c] = reader /\ Active(c)
        BY <2>2, <3>1, Zenon DEF Active
      <4> QED
        BY <1>1, <2>1, <3>1, <4>1, Zenon DEF Fits
    <3>2. CASE ~ (caller[c].id = reader.id /\ caller[c].at = "waiting")
      <4>1. channel'[c] = channel[c]
        BY <2>2, <3>2, Zenon
      <4> QED
        BY <1>1, <2>1, <2>4, <4>1, Zenon DEF FitInv
    <3> QED
      BY <3>1, <3>2, Zenon
  <2> QED
    BY <1>3, <1>4, <1>5, <2>3, <2>4, FitsAgain, Zenon
<1>7. CASE read_loop_ends
  <2>1. UNCHANGED channel
    BY <1>7, Zenon DEF read_loop_ends
  <2>2. ShapeInv'
    BY <1>1, <1>2, <2>1, Zenon DEF ShapeInv
  <2>3. \A c \in Callers : channel'[c] # NoAnswer
          => /\ caller'[c].at = "waiting" /\ channel'[c].method = Head(caller'[c].left)
             /\ caller'[c].id \notin pending'
    BY <1>1, <1>2, <2>1, Zenon DEF FitInv
  <2> QED
    BY <1>3, <1>4, <1>5, <2>2, <2>3, FitsAgain, Zenon
<1> QED
  BY <1>6, <1>7, Zenon

(* What the server sends. *)
LEMMA SendStep ==
  ASSUME Inv, NEW m \in Messages, Sends(m), received' \subseteq received, revision' \in Nat,
         m \in Answers => \E r \in received : m.id = r.id /\ m.method = r.method
  PROVE  Inv'
<1> USE DEF Inv
<1>1. /\ stream' = Append(stream, m) /\ stream \in Seq(Messages)
      /\ UNCHANGED <<reader, pending, next_id, channel, caller>>
  BY Zenon DEF Sends, rpcVars, ShapeInv
<1>2. /\ stream' \in Seq(Messages) /\ Len(stream') = Len(stream) + 1
      /\ stream'[Len(stream) + 1] = m
      /\ \A i \in 1 .. Len(stream) : stream'[i] = stream[i]
  BY <1>1
<1>3. ShapeInv'
  BY <1>1, <1>2, Zenon DEF ShapeInv
<1>4. IdsInv'
  BY <1>1, Zenon DEF IdsInv, NothingPendingAtRest, Active
<1>5. /\ \A r \in received : FitsNext(r)
      /\ \A i \in 1 .. Len(stream) : stream[i] \in Answers => FitsNext(stream[i])
      /\ reader \in Answers => FitsNext(reader)
  BY <1>1, FitsSame, Zenon
<1>6. m \in Answers => FitsNext(m)
  BY <1>5 DEF FitsNext
<1>7. ASSUME NEW i \in 1 .. Len(stream'), stream'[i] \in Answers PROVE FitsNext(stream'[i])
  <2>1. i \in 1 .. Len(stream) \/ i = Len(stream) + 1
    BY <1>1, <1>2
  <2> QED
    BY <1>2, <1>5, <1>6, <1>7, <2>1, Zenon
<1>8. /\ reader' \in Answers => FitsNext(reader') /\ reader'.id \notin pending'
      /\ \A c \in Callers : channel'[c] # NoAnswer
           => /\ caller'[c].at = "waiting" /\ channel'[c].method = Head(caller'[c].left)
              /\ caller'[c].id \notin pending'
  BY <1>1, <1>5, Zenon DEF FitInv
<1>9. FitInv'
  BY <1>5, <1>7, <1>8, FitsAgain, Zenon
<1> QED
  BY <1>3, <1>4, <1>9, Zenon

(* The steps of the server: an answer fits because its request does. *)
LEMMA ServerStep == ASSUME Inv, Answer \/ Rebuild \/ Garble \/ Exit PROVE Inv'
<1> USE DEF Inv
<1>1. CASE Answer
  <2>1. PICK r \in received, ok \in BOOLEAN :
          /\ received' = received \ {r} /\ UNCHANGED revision
          /\ Sends([kind |-> "answer", id |-> r.id, method |-> r.method, ok |-> ok,
                    revision |-> revision])
    BY <1>1, Zenon DEF Answer
  <2> DEFINE m == [kind |-> "answer", id |-> r.id, method |-> r.method, ok |-> ok,
                   revision |-> revision]
  <2>2. m \in Messages /\ m.id = r.id /\ m.method = r.method
    BY Zenon DEF Messages, Answers, ShapeInv
  <2>3. Sends(m)
    BY <2>1, Zenon
  <2>4. revision' \in Nat
    BY <2>1, Zenon DEF ShapeInv
  <2> HIDE DEF m
  <2> QED
    BY <2>1, <2>2, <2>3, <2>4, SendStep, Zenon
<1>2. CASE Rebuild
  <2>1. [kind |-> "didChange"] \in Messages /\ [kind |-> "didChange"] \notin Answers
    BY Zenon DEF Messages, Answers
  <2>2. revision' \in Nat
    BY <1>2 DEF Rebuild, ShapeInv
  <2> QED
    BY <1>2, <2>1, <2>2, SendStep, Zenon DEF Rebuild
<1>3. CASE Garble
  <2>1. [kind |-> "garbage"] \in Messages /\ [kind |-> "garbage"] \notin Answers
    BY Zenon DEF Messages, Answers
  <2>2. revision' \in Nat
    BY <1>3, Zenon DEF Garble, ShapeInv
  <2> QED
    BY <1>3, <2>1, <2>2, SendStep, Zenon DEF Garble
<1>4. CASE Exit
  <2>1. UNCHANGED <<revision, received, stream, reader, pending, next_id, caller, channel>>
    BY <1>4, Zenon DEF Exit, rpcVars
  <2> QED
    BY <2>1 DEF ShapeInv, IdsInv, FitInv, Fits, Active, NothingPendingAtRest
<1> QED
  BY <1>1, <1>2, <1>3, <1>4, Zenon

-----------------------------------------------------------------------------
(* Every step keeps the invariant. *)
LEMMA InvNext == Inv /\ [SessionNext]_sessionVars => Inv'
<1> SUFFICES ASSUME Inv, [SessionNext]_sessionVars PROVE Inv'
  BY Zenon
<1>1. CASE UNCHANGED sessionVars
  <2>1. /\ revision' = revision /\ received' = received /\ stream' = stream
        /\ reader' = reader /\ pending' = pending /\ next_id' = next_id
        /\ channel' = channel /\ caller' = caller
    BY <1>1, Zenon DEF sessionVars, serverVars, rpcVars
  <2>2. ShapeInv'
    BY <2>1, Zenon DEF Inv, ShapeInv
  <2>3. IdsInv'
    BY <2>1, Zenon DEF Inv, IdsInv, Active, NothingPendingAtRest
  <2>4. FitInv'
    BY <2>1, Zenon DEF Inv, FitInv, Fits, Active
  <2> QED
    BY <2>2, <2>3, <2>4, Zenon DEF Inv
<1>2. ASSUME NEW c \in Callers,
             Request(c) \/ compile(c) \/ refetch_model(c) \/ close(c) \/ terminate(c)
      PROVE  Inv'
  BY <1>2, RegisterStep, WriteStep, EndStep, OperationStep, Zenon DEF Request
<1>3. CASE shutdown
  BY <1>3, ShutdownStep, Zenon
<1>4. CASE ReaderStep
  BY <1>4, DispatchStep, ReaderMoves, Zenon DEF ReaderStep
<1>5. CASE Answer \/ Rebuild \/ Garble \/ Exit
  BY <1>5, ServerStep, Zenon
<1> QED
  BY <1>1, <1>2, <1>3, <1>4, <1>5, Zenon DEF SessionNext

(* A request of either thread is answered by the answer to it and to no other, *)
(* however many are in flight, in whatever order they are answered, and        *)
(* however late (JsonRpcClient.request and dispatch, jsonrpc.rs).              *)
THEOREM AnswersMatch == SessionSpec => []OwnAnswer
<1>1. Inv => OwnAnswer
  BY Zenon DEF Inv, FitInv, OwnAnswer
<1> QED
  BY <1>1, InvInit, InvNext, PTL DEF SessionSpec

(* The pending map of the JSON-RPC client holds no sender of a request that    *)
(* was answered, timed out, could not be written or was cut off.               *)
THEOREM NoneLeftPending == SessionSpec => []NothingPendingAtRest
<1>1. Inv => NothingPendingAtRest
  BY Zenon DEF Inv, IdsInv
<1> QED
  BY <1>1, InvInit, InvNext, PTL DEF SessionSpec

-------------------------------------------------------------------------------
(* The client has been told of every revision since the last it loaded, or is  *)
(* going to read of it, or the connection is broken.                           *)
Announced ==
  to_reload \/ \E i \in DOMAIN stream : stream[i].kind \in {"didChange", "garbage"}

Known == Announced \/ reader = Ended

Loading == caller[Owner].op \in {"boot", "refetch"}

(* A part of the load in progress is of an earlier revision, or an answer that *)
(* is to become one.                                                           *)
Dated(m) == m \in Answers /\ m.id = caller[Owner].id /\ m.revision # revision

OldPart == \E i \in DOMAIN caller[Owner].parts : caller[Owner].parts[i] # revision

OldAnswer ==
  \/ \E i \in DOMAIN stream : Dated(stream[i])
  \/ Dated(reader)
  \/ channel[Owner] # NoAnswer /\ channel[Owner].revision # revision

LoadInv == Loading /\ (OldPart \/ (Active(Owner) /\ OldAnswer)) => Known

(* Only the owner loads and shuts down, and a session is closed before its     *)
(* server is waited for.                                                       *)
RoleInv ==
  \A c \in Callers :
    /\ c # Owner => caller[c].op \in {"idle", "compile"}
    /\ caller[c].at = "terminating" => closed

ReloadInv == RoleInv /\ LoadInv /\ StaleModelReloads

-----------------------------------------------------------------------------
(* A boot loads the first model; nothing is loaded yet. *)
LEMMA ReloadInvInit == ASSUME Callers # {}, SessionInit PROVE ReloadInv
<1>1. Owner \in Callers
  BY Zenon DEF Owner
<1>2. /\ caller[Owner] = Call("boot")
      /\ \A c \in Callers : c # Owner => caller[c] = Idle
      /\ model = <<>>
  BY <1>1, Zenon DEF SessionInit, NoModel
<1>3. RoleInv
  BY <1>2 DEF RoleInv, Idle, Call
<1>4. LoadInv
  BY <1>2 DEF LoadInv, OldPart, Active, Call
<1>5. StaleModelReloads
  BY <1>2, Zenon DEF StaleModelReloads, Stale, NoModel
<1> QED
  BY <1>3, <1>4, <1>5, Zenon DEF ReloadInv

(* Who does what, by the operations' steps. *)
LEMMA FailRole ==
  ASSUME Inv, RoleInv, NEW c \in Callers, Fail(c), closed' = closed
  PROVE  /\ RoleInv'
         /\ \A d \in Callers : d # c => caller'[d] = caller[d]
         /\ caller'[c].op = IF caller[c].op \in {"boot", "shutdown"} THEN "shutdown" ELSE "idle"
<1>1. \A d \in Callers : d # c => caller'[d] = caller[d]
  BY Zenon DEF Fail, Inv, ShapeInv
<1>2. caller[c] \in Caller
  BY Zenon DEF Inv, ShapeInv
<1>3. caller'[c] = CASE caller[c].op = "boot" -> Call("shutdown")
                     [] caller[c].op = "shutdown" -> [caller[c] EXCEPT !.at = "closing"]
                     [] OTHER -> Idle
  BY Zenon DEF Fail, Inv, ShapeInv
<1>4. /\ caller'[c].op = IF caller[c].op \in {"boot", "shutdown"} THEN "shutdown" ELSE "idle"
      /\ caller'[c].at # "terminating"
  <2>1. CASE caller[c].op = "boot"
    BY <1>3, <2>1 DEF Call
  <2>2. CASE caller[c].op = "shutdown"
    BY <1>2, <1>3, <2>2, Zenon DEF Caller
  <2>3. CASE caller[c].op \notin {"boot", "shutdown"}
    BY <1>3, <2>3 DEF Idle
  <2> QED
    BY <2>1, <2>2, <2>3, Zenon
<1>5. ASSUME NEW d \in Callers
      PROVE  (d # Owner => caller'[d].op \in {"idle", "compile"}) /\ (caller'[d].at = "terminating" => closed')
  <2>1. CASE d = c
    BY <1>4, <2>1, Zenon DEF RoleInv
  <2>2. CASE d # c
    BY <1>1, <2>2, Zenon DEF RoleInv
  <2> QED
    BY <2>1, <2>2, Zenon
<1> QED
  BY <1>1, <1>4, <1>5, Zenon DEF RoleInv

(* A request that succeeds continues the operation or ends it. *)
LEMMA SucceedRole ==
  ASSUME Inv, RoleInv, NEW c \in Callers, NEW rev, Succeed(c, rev), closed' = closed
  PROVE  /\ RoleInv'
         /\ \A d \in Callers : d # c => caller'[d] = caller[d]
         /\ to_reload' = to_reload
         /\ \/ /\ caller'[c].op = caller[c].op /\ caller'[c].at = "ready"
               /\ model' = model /\ missed' = missed
               /\ caller'[c].parts \in {caller[c].parts, Append(caller[c].parts, rev)}
            \/ /\ caller'[c].op = IF caller[c].op = "shutdown" THEN "shutdown" ELSE "idle"
               /\ missed' = (missed /\ caller[c].op # "refetch")
               /\ IF caller[c].op \in {"boot", "refetch"}
                  THEN model' \in {caller[c].parts, Append(caller[c].parts, rev)}
                  ELSE model' = model
<1> DEFINE me == caller[c]
           parts == IF Head(me.left) \in Range(LoadMethods) THEN Append(me.parts, rev) ELSE me.parts
           last == \/ Len(me.left) = 1
                   \/ (Head(me.left) = "workspace/buildTargets" /\ rev \in NoScala3)
           more == [me EXCEPT !.at = "ready", !.left = Tail(@), !.parts = parts]
           end == IF me.op = "shutdown" THEN [me EXCEPT !.at = "closing"] ELSE Idle
<1>1. me \in Caller
  BY Zenon DEF Inv, ShapeInv
<1>2. \A d \in Callers : d # c => caller'[d] = caller[d]
  BY Zenon DEF Succeed, Inv, ShapeInv
<1>3. /\ to_reload' = to_reload
      /\ \/ caller'[c] = more /\ model' = model /\ missed' = missed
         \/ /\ caller'[c] = end
            /\ missed' = (missed /\ me.op # "refetch")
            /\ model' = IF me.op \in {"boot", "refetch"} THEN parts ELSE model
  BY Zenon DEF Succeed, modelVars, Inv, ShapeInv
<1>4. more.op = me.op /\ more.at = "ready" /\ more.parts = parts
  BY <1>1, Zenon DEF Caller
<1>5. end.op = (IF me.op = "shutdown" THEN "shutdown" ELSE "idle") /\ end.at # "terminating"
  BY <1>1, Zenon DEF Caller, Idle
<1>6. parts \in {me.parts, Append(me.parts, rev)}
  BY Zenon
<1>7. (c # Owner => caller'[c].op \in {"idle", "compile"}) /\ caller'[c].at # "terminating"
  <2> HIDE DEF more, end, parts, me
  <2> QED
    BY <1>3, <1>4, <1>5, Zenon DEF RoleInv, me
<1>8. RoleInv'
  BY <1>2, <1>7, Zenon DEF RoleInv
<1> HIDE DEF more, end, parts
<1> QED
  BY <1>2, <1>3, <1>4, <1>5, <1>6, <1>8, Zenon
(* A step that leaves the owner, its answers and what it knows alone, and does *)
(* not replace the model, keeps the rest: the other callers' steps.            *)
LEMMA Bystander ==
  ASSUME LoadInv, StaleModelReloads, caller'[Owner] = caller[Owner],
         channel'[Owner] = channel[Owner],
         revision' = revision, stream' = stream, reader' = reader, to_reload' = to_reload,
         model' = model, missed => missed', closed' = closed
  PROVE  LoadInv' /\ StaleModelReloads'
<1>1. LoadInv'
  BY Zenon DEF LoadInv, Loading, OldPart, OldAnswer, Dated, Known, Announced, Active
<1>2. StaleModelReloads'
  BY Zenon DEF StaleModelReloads, Stale
<1> QED
  BY <1>1, <1>2, Zenon

(* The owner's operation fails: a failed refetch is remembered, and a failed   *)
(* boot shuts the session down.                                                *)
LEMMA OwnerFails ==
  ASSUME Inv, RoleInv, StaleModelReloads, Owner \in Callers, Fail(Owner),
         revision' = revision, stream' = stream, reader' = reader, closed' = closed
  PROVE  RoleInv' /\ LoadInv' /\ StaleModelReloads'
<1>1. /\ RoleInv'
      /\ caller'[Owner].op = IF caller[Owner].op \in {"boot", "shutdown"} THEN "shutdown" ELSE "idle"
  BY FailRole, Zenon
<1>2. LoadInv'
  BY <1>1, Zenon DEF LoadInv, Loading
<1>3. /\ model' = model /\ to_reload' = to_reload
      /\ missed' = (missed \/ caller[Owner].op = "refetch")
  BY Zenon DEF Fail
<1>4. StaleModelReloads'
  BY <1>1, <1>3, Zenon DEF StaleModelReloads, Stale
<1> QED
  BY <1>1, <1>2, <1>4, Zenon

(* The owner's request succeeds.  When that ends a load, a model with an old   *)
(* part in it comes with the news of a later revision.                         *)
LEMMA OwnerSucceeds ==
  ASSUME Inv, RoleInv, LoadInv, StaleModelReloads, Owner \in Callers,
         caller[Owner].at = "waiting", channel[Owner] # NoAnswer,
         Succeed(Owner, channel[Owner].revision),
         revision' = revision, stream' = stream, reader' = reader, closed' = closed
  PROVE  RoleInv' /\ LoadInv' /\ StaleModelReloads'
<1> DEFINE rev == channel[Owner].revision
           old == caller[Owner].parts
<1>1. /\ RoleInv' /\ to_reload' = to_reload
      /\ \/ /\ caller'[Owner].op = caller[Owner].op /\ caller'[Owner].at = "ready"
            /\ model' = model /\ missed' = missed
            /\ caller'[Owner].parts \in {old, Append(old, rev)}
         \/ /\ caller'[Owner].op = IF caller[Owner].op = "shutdown" THEN "shutdown" ELSE "idle"
            /\ missed' = (missed /\ caller[Owner].op # "refetch")
            /\ IF caller[Owner].op \in {"boot", "refetch"} THEN model' \in {old, Append(old, rev)}
               ELSE model' = model
  BY SucceedRole, Zenon
<1>2. old \in Seq(Nat)
  BY Zenon DEF Inv, ShapeInv, Caller
<1>3. ASSUME NEW new \in {old, Append(old, rev)}, NEW i \in DOMAIN new, new[i] # revision
      PROVE  OldPart \/ (Active(Owner) /\ OldAnswer)
  <2>1. CASE i \in DOMAIN old /\ new[i] = old[i]
    BY <1>3, <2>1, Zenon DEF OldPart
  <2>2. CASE new[i] = rev
    BY <1>3, <2>2, Zenon DEF OldAnswer, Active
  <2>3. (i \in DOMAIN old /\ new[i] = old[i]) \/ new[i] = rev
    <3>1. CASE new = old
      BY <3>1, Zenon
    <3>2. CASE new = Append(old, rev)
      BY <1>2, <3>2
    <3> QED
      BY <3>1, <3>2, Zenon
  <2> QED
    BY <2>1, <2>2, <2>3, Zenon
<1>4. Known' <=> Known
  BY <1>1, Zenon DEF Known, Announced
<1>5. CASE /\ caller'[Owner].op = caller[Owner].op /\ caller'[Owner].at = "ready"
           /\ model' = model /\ missed' = missed
           /\ caller'[Owner].parts \in {old, Append(old, rev)}
  <2>1. LoadInv'
    <3>1. SUFFICES ASSUME Loading', OldPart'  PROVE Known'
      BY <1>5, Zenon DEF LoadInv, Active
    <3>2. Loading
      BY <1>5, <3>1, Zenon DEF Loading
    <3>3. PICK i \in DOMAIN caller'[Owner].parts : caller'[Owner].parts[i] # revision
      BY <3>1, Zenon DEF OldPart
    <3>4. OldPart \/ (Active(Owner) /\ OldAnswer)
      BY <1>3, <1>5, <3>3, Zenon
    <3> QED
      BY <1>4, <3>2, <3>4, Zenon DEF LoadInv
  <2>2. StaleModelReloads'
    BY <1>1, <1>5, Zenon DEF StaleModelReloads, Stale
  <2> QED
    BY <1>1, <2>1, <2>2, Zenon
<1>6. CASE /\ caller'[Owner].op = IF caller[Owner].op = "shutdown" THEN "shutdown" ELSE "idle"
           /\ missed' = (missed /\ caller[Owner].op # "refetch")
           /\ IF caller[Owner].op \in {"boot", "refetch"} THEN model' \in {old, Append(old, rev)}
              ELSE model' = model
  <2>1. LoadInv'
    BY <1>6, Zenon DEF LoadInv, Loading
  <2>2. StaleModelReloads'
    <3>1. CASE Loading
      <4>1. SUFFICES ASSUME NEW i \in DOMAIN model', model'[i] # revision, reader # Ended
                     PROVE  Announced'
        BY <1>6, Zenon DEF StaleModelReloads, Stale, Announced
      <4>2. OldPart \/ (Active(Owner) /\ OldAnswer)
        BY <1>3, <1>6, <3>1, <4>1, Zenon DEF Loading
      <4>3. Known'
        BY <1>4, <3>1, <4>2, Zenon DEF LoadInv
      <4> QED
        BY <4>1, <4>3, Zenon DEF Known
    <3>2. CASE ~ Loading
      BY <1>1, <1>6, <3>2, Zenon DEF StaleModelReloads, Stale, Loading
    <3> QED
      BY <3>1, <3>2, Zenon
  <2> QED
    BY <1>1, <2>1, <2>2
<1> QED
  BY <1>1, <1>5, <1>6, Zenon
(* The steps of a request. *)
LEMMA RequestReload ==
  ASSUME Inv, ReloadInv, Owner \in Callers, NEW c \in Callers, Request(c)
  PROVE  ReloadInv'
<1> USE DEF ReloadInv
<1>0. caller \in [Callers -> Caller] /\ channel \in [Callers -> Answers \cup {NoAnswer}]
  BY Zenon DEF Inv, ShapeInv
<1>1. revision' = revision /\ stream' = stream /\ reader' = reader /\ closed' = closed
  BY Zenon DEF Request, register, write_message, receive, disconnected, timeout, serverVars, rpcVars
<1>2. CASE register(c)
  <2>1. /\ caller' = [caller EXCEPT ![c].at = "registered", ![c].id = next_id]
        /\ channel' = [channel EXCEPT ![c] = NoAnswer]
        /\ model' = model /\ to_reload' = to_reload /\ missed' = missed
    BY <1>2, Zenon DEF register, modelVars
  <2>2. /\ \A d \in Callers : d # c => caller'[d] = caller[d] /\ channel'[d] = channel[d]
        /\ channel'[c] = NoAnswer
    BY <1>0, <2>1, Zenon
  <2>3. /\ caller'[c].op = caller[c].op /\ caller'[c].at = "registered" /\ caller'[c].id = next_id
        /\ caller'[c].parts = caller[c].parts
    BY <1>0, <2>1, Zenon DEF Caller
  <2>4. RoleInv'
    BY <1>1, <2>2, <2>3, Zenon DEF RoleInv
  <2>5. CASE c # Owner
    BY <1>1, <2>1, <2>2, <2>4, <2>5, Bystander, Zenon
  <2>6. CASE c = Owner
    <3>1. \A m \in Answers : Fits(m) => m.id # next_id
      BY DEF Fits, Inv, ShapeInv, Answers
    <3>2. ~ OldAnswer'
      <4>1. ASSUME NEW i \in DOMAIN stream, stream[i] \in Answers  PROVE stream[i].id # next_id
        BY <3>1, <4>1 DEF Inv, ShapeInv, FitInv
      <4>2. reader \in Answers => reader.id # next_id
        BY <3>1, Zenon DEF Inv, FitInv
      <4> QED
        BY <1>1, <2>2, <2>3, <2>6, <4>1, <4>2, Zenon DEF OldAnswer, Dated
    <3>3. LoadInv'
      BY <1>1, <2>1, <2>3, <2>6, <3>2, Zenon DEF LoadInv, Loading, OldPart, Known, Announced
    <3>4. StaleModelReloads'
      BY <1>1, <2>1, <2>3, <2>6, Zenon DEF StaleModelReloads, Stale
    <3> QED
      BY <2>4, <3>3, <3>4, Zenon
  <2> QED
    BY <2>5, <2>6, Zenon
<1>3. ASSUME Fail(c), channel' = channel \/ channel' = [channel EXCEPT ![c] = NoAnswer]
      PROVE  ReloadInv'
  <2>1. CASE c # Owner
    <3>1. RoleInv' /\ caller'[Owner] = caller[Owner]
      BY <1>1, <1>3, <2>1, FailRole, Zenon
    <3>2. channel'[Owner] = channel[Owner]
      BY <1>0, <1>3, <2>1, Zenon
    <3>3. model' = model /\ to_reload' = to_reload /\ (missed => missed')
      BY <1>3, Zenon DEF Fail
    <3> QED
      BY <1>1, <3>1, <3>2, <3>3, Bystander, Zenon
  <2>2. CASE c = Owner
    BY <1>1, <1>3, <2>2, OwnerFails, Zenon
  <2> QED
    BY <2>1, <2>2
<1>4. CASE write_message(c)
  <2>1. CASE server = "up"
    <3>1. /\ caller' = [caller EXCEPT ![c].at = "waiting"] /\ channel' = channel
          /\ caller[c].at = "registered"
          /\ model' = model /\ to_reload' = to_reload /\ missed' = missed
      BY <1>4, <2>1, Zenon DEF write_message, modelVars
    <3>2. /\ \A d \in Callers : d # c => caller'[d] = caller[d]
          /\ caller'[c].op = caller[c].op /\ caller'[c].at = "waiting"
          /\ caller'[c].id = caller[c].id /\ caller'[c].parts = caller[c].parts
      BY <1>0, <3>1, Zenon DEF Caller
    <3>3. RoleInv'
      BY <1>1, <3>2, Zenon DEF RoleInv
    <3>4. CASE c # Owner
      BY <1>1, <3>1, <3>2, <3>3, <3>4, Bystander, Zenon
    <3>5. CASE c = Owner
      <4>1. LoadInv'
        BY <1>1, <3>1, <3>2, <3>5 DEF LoadInv, Loading, OldPart, OldAnswer, Dated, Known, Announced, Active
      <4>2. StaleModelReloads'
        BY <1>1, <3>1, <3>2, <3>5, Zenon DEF StaleModelReloads, Stale
      <4> QED
        BY <3>3, <4>1, <4>2
    <3> QED
      BY <3>4, <3>5
  <2>2. CASE server # "up"
    BY <1>3, <1>4, <2>2, Zenon DEF write_message
  <2> QED
    BY <2>1, <2>2, Zenon
<1>5. CASE receive(c)
  <2>1. CASE ~ channel[c].ok
    BY <1>3, <1>5, <2>1, Zenon DEF receive
  <2>2. CASE channel[c].ok
    <3>1. /\ caller[c].at = "waiting" /\ channel[c] # NoAnswer /\ Succeed(c, channel[c].revision)
          /\ channel' = [channel EXCEPT ![c] = NoAnswer]
      BY <1>5, <2>2, Zenon DEF receive
    <3>2. CASE c = Owner
      BY <1>1, <3>1, <3>2, OwnerSucceeds, Zenon
    <3>3. CASE c # Owner
      <4>1. caller[c].op \in {"idle", "compile"}
        BY <3>3, Zenon DEF RoleInv
      <4>2. /\ RoleInv' /\ caller'[Owner] = caller[Owner]
            /\ to_reload' = to_reload /\ model' = model /\ (missed => missed')
        BY <1>1, <3>1, <3>3, <4>1, SucceedRole, Zenon
      <4>3. channel'[Owner] = channel[Owner]
        BY <1>0, <3>1, <3>3, Zenon
      <4> QED
        BY <1>1, <4>2, <4>3, Bystander, Zenon
    <3> QED
      BY <3>2, <3>3, Zenon
  <2> QED
    BY <2>1, <2>2, Zenon
<1>6. CASE disconnected(c) \/ timeout(c)
  BY <1>3, <1>6, Zenon DEF disconnected, timeout, rpcVars
<1> QED
  BY <1>2, <1>4, <1>5, <1>6, Zenon DEF Request
(* The operations begin and the teardown ends.  The refetch swaps the flag     *)
(* when no load is in progress, so no part is of an earlier revision.          *)
LEMMA OperationReload ==
  ASSUME Inv, ReloadInv, Owner \in Callers,
         \/ shutdown
         \/ \E c \in Callers : compile(c) \/ refetch_model(c) \/ close(c) \/ terminate(c)
  PROVE  ReloadInv'
<1> USE DEF ReloadInv
<1>0. caller \in [Callers -> Caller]
  BY Zenon DEF Inv, ShapeInv
<1>1. /\ revision' = revision /\ stream' = stream /\ reader' = reader /\ channel' = channel
      /\ model' = model /\ missed' = missed
  BY Zenon DEF shutdown, compile, refetch_model, close, terminate, UnchangedRest, serverVars, rpcVars,
         modelVars
<1>2. ASSUME NEW c \in Callers, compile(c)  PROVE ReloadInv'
  <2>1. /\ caller[c] = Idle /\ to_reload' = to_reload /\ closed' = closed
        /\ caller'[c] = Call("compile") /\ \A d \in Callers : d # c => caller'[d] = caller[d]
    BY <1>0, <1>2, Zenon DEF compile, Starts, UnchangedRest
  <2>2. RoleInv'
    BY <2>1 DEF RoleInv, Call
  <2>3. CASE c # Owner
    BY <1>1, <2>1, <2>2, <2>3, Bystander, Zenon
  <2>4. CASE c = Owner
    BY <1>1, <2>1, <2>2, <2>4 DEF LoadInv, Loading, Call, Idle, StaleModelReloads, Stale
  <2> QED
    BY <2>3, <2>4, Zenon
<1>3. ASSUME NEW c \in Callers, refetch_model(c)  PROVE ReloadInv'
  <2>1. /\ c = Owner /\ closed' = closed
        /\ caller'[c] = Call("refetch") /\ \A d \in Callers : d # c => caller'[d] = caller[d]
    BY <1>0, <1>3, Zenon DEF refetch_model, UnchangedRest
  <2>2. RoleInv'
    BY <2>1 DEF RoleInv, Call
  <2>3. LoadInv'
    BY <2>1 DEF LoadInv, OldPart, Active, Call
  <2>4. StaleModelReloads'
    BY <2>1 DEF StaleModelReloads, Call
  <2> QED
    BY <2>2, <2>3, <2>4, Zenon
<1>4. CASE shutdown
  <2>1. /\ closed' = closed /\ caller'[Owner] = Call("shutdown")
        /\ \A d \in Callers : d # Owner => caller'[d] = caller[d]
    BY <1>0, <1>4, Zenon DEF shutdown, UnchangedRest
  <2>2. RoleInv'
    BY <2>1 DEF RoleInv, Call
  <2> QED
    BY <2>1, <2>2 DEF LoadInv, Loading, StaleModelReloads, Call
<1>5. ASSUME NEW c \in Callers, close(c)  PROVE ReloadInv'
  <2>1. /\ closed' = TRUE /\ to_reload' = to_reload /\ caller[c].at = "closing"
        /\ caller' = [caller EXCEPT ![c].at = "terminating"]
    BY <1>5, Zenon DEF close, modelVars
  <2>2. \A d \in Callers : caller'[d].op = caller[d].op /\ caller'[d].parts = caller[d].parts
                           /\ caller'[d].id = caller[d].id /\ (Active(d)' => Active(d))
    BY <1>0, <2>1, Zenon DEF Caller, Active
  <2>3. RoleInv'
    BY <2>1, <2>2, Zenon DEF RoleInv
  <2>4. LoadInv'
    BY <1>1, <2>1, <2>2, Zenon DEF LoadInv, Loading, OldPart, OldAnswer, Dated, Known, Announced
  <2> QED
    BY <2>1, <2>3, <2>4, Zenon DEF StaleModelReloads
<1>6. ASSUME NEW c \in Callers, terminate(c)  PROVE ReloadInv'
  <2>1. /\ closed' = closed /\ to_reload' = to_reload /\ caller[c].at = "terminating"
        /\ caller'[c] = Idle /\ \A d \in Callers : d # c => caller'[d] = caller[d]
    BY <1>0, <1>6, Zenon DEF terminate, modelVars
  <2>2. RoleInv'
    BY <2>1 DEF RoleInv, Idle
  <2>3. closed'
    BY <2>1, Zenon DEF RoleInv
  <2>4. LoadInv'
    <3>1. CASE c = Owner
      BY <2>1, <3>1 DEF LoadInv, Loading, Idle
    <3>2. CASE c # Owner
      BY <1>1, <2>1, <3>2, Zenon DEF LoadInv, Loading, OldPart, OldAnswer, Dated, Known, Announced, Active
    <3> QED
      BY <3>1, <3>2, Zenon
  <2> QED
    BY <2>2, <2>3, <2>4, Zenon DEF StaleModelReloads
<1> QED
  BY <1>2, <1>3, <1>4, <1>5, <1>6, Zenon

(* Steps of the reader and of the server leave the callers and the model: they *)
(* announce what is new, or make no part and no answer older than it was.      *)
LEMMA Observed ==
  ASSUME ReloadInv, caller' = caller, model' = model, missed' = missed, closed' = closed, Known'
  PROVE  ReloadInv'
BY Zenon DEF ReloadInv, RoleInv, LoadInv, StaleModelReloads, Known, Announced

LEMMA Unobserved ==
  ASSUME ReloadInv, caller' = caller, model' = model, missed' = missed, closed' = closed,
         revision' = revision, OldAnswer' => OldAnswer, Known => Known',
         reader' = Ended => reader = Ended
  PROVE  ReloadInv'
<1>1. RoleInv'
  BY Zenon DEF ReloadInv, RoleInv
<1>2. LoadInv'
  BY Zenon DEF ReloadInv, LoadInv, Loading, OldPart, Active
<1>3. StaleModelReloads'
  BY Zenon DEF ReloadInv, StaleModelReloads, Stale, Known, Announced
<1> QED
  BY <1>1, <1>2, <1>3, Zenon DEF ReloadInv

(* The reader: an announcement it reads sets the flag, and an answer it takes  *)
(* or hands over is the one that was on its way.                               *)
LEMMA ReaderReload ==
  ASSUME Inv, ReloadInv, Owner \in Callers, ReaderStep
  PROVE  ReloadInv'
<1>0. caller' = caller /\ model' = model /\ missed' = missed /\ closed' = closed /\ revision' = revision
  BY Zenon DEF ReaderStep, dispatch, send_outcome, read_loop_ends, serverVars, modelVars
<1>1. CASE dispatch
  <2> DEFINE msg == Head(stream)
  <2>1. /\ reader = Reading /\ stream \in Seq(Messages) /\ stream # <<>> /\ stream' = Tail(stream)
        /\ msg.kind # "garbage" /\ reader' \in {msg, Reading} /\ channel' = channel
        /\ to_reload' = (to_reload \/ msg.kind = "didChange")
        /\ (reader' = msg /\ msg.kind = "answer") \/ reader' = Reading
    BY <1>1, Zenon DEF dispatch, dispatch_notification, Inv, ShapeInv
  <2>2. /\ msg = stream[1] /\ 1 \in DOMAIN stream
        /\ \A i \in DOMAIN stream' : i + 1 \in DOMAIN stream /\ stream'[i] = stream[i + 1]
        /\ \A i \in DOMAIN stream : i = 1 \/ (i - 1 \in DOMAIN stream' /\ stream'[i - 1] = stream[i])
    BY <2>1
  <2>3. reader' # Ended
    BY <2>1 DEF Ended, Reading
  <2>4. Known => Known'
    <3>1. ASSUME NEW i \in DOMAIN stream, stream[i].kind \in {"didChange", "garbage"}
          PROVE  Announced'
      BY <2>1, <2>2, <3>1, Zenon DEF Announced
    <3>2. reader # Ended
      BY <2>1, Zenon DEF Ended, Reading
    <3> QED
      BY <2>1, <3>1, <3>2, Zenon DEF Known, Announced
  <2>5. OldAnswer' => OldAnswer
    <3>1. Reading \notin Answers
      BY NotAnswers, Zenon
    <3>2. Dated(reader)' => Dated(reader')
      BY <1>0, Zenon DEF Dated
    <3>3. Dated(reader') => \E i \in DOMAIN stream : Dated(stream[i])
      BY <2>1, <2>2, <3>1 DEF Dated
    <3>4. (\E i \in DOMAIN stream : Dated(stream[i]))' => \E i \in DOMAIN stream : Dated(stream[i])
      BY <1>0, <2>2 DEF Dated
    <3> QED
      BY <1>0, <2>1, <3>2, <3>3, <3>4, Zenon DEF OldAnswer
  <2> QED
    BY <1>0, <2>3, <2>4, <2>5, Unobserved, Zenon
<1>2. CASE send_outcome
  <2>1. /\ reader \in Answers /\ reader' = Reading /\ stream' = stream /\ to_reload' = to_reload
        /\ channel'[Owner] \in {reader, channel[Owner]}
        /\ channel'[Owner] # channel[Owner] => caller[Owner].id = reader.id
    BY <1>2, Zenon DEF send_outcome, modelVars, Inv, ShapeInv
  <2>2. reader # Ended /\ reader' # Ended /\ reader' \notin Answers
    BY <2>1, NotAnswers, Zenon
  <2>3. OldAnswer' => OldAnswer
    BY <1>0, <2>1, <2>2, Zenon DEF OldAnswer, Dated
  <2>4. Known => Known'
    BY <2>1, <2>2, Zenon DEF Known, Announced
  <2> QED
    BY <1>0, <2>2, <2>3, <2>4, Unobserved, Zenon
<1>3. CASE read_loop_ends
  <2>1. reader' = Ended
    BY <1>3, Zenon DEF read_loop_ends
  <2> QED
    BY <1>0, <2>1, Observed, Zenon DEF Known
<1> QED
  BY <1>1, <1>2, <1>3, Zenon DEF ReaderStep
(* The server: a new revision goes out with its announcement behind every      *)
(* answer of the old one, and an answer is of the revision of its moment.      *)
LEMMA ServerReload ==
  ASSUME Inv, ReloadInv, Owner \in Callers, Answer \/ Rebuild \/ Garble \/ Exit
  PROVE  ReloadInv'
<1>0. /\ caller' = caller /\ model' = model /\ missed' = missed /\ closed' = closed
      /\ reader' = reader /\ channel' = channel /\ to_reload' = to_reload
  BY Zenon DEF Answer, Rebuild, Garble, Exit, Sends, rpcVars, modelVars
<1>1. stream \in Seq(Messages)
  BY Zenon DEF Inv, ShapeInv
<1>2. CASE Answer
  <2>1. PICK r \in received, ok \in BOOLEAN :
          /\ stream' = Append(stream, [kind |-> "answer", id |-> r.id, method |-> r.method,
                                       ok |-> ok, revision |-> revision])
          /\ revision' = revision
    BY <1>2, Zenon DEF Answer, Sends
  <2> DEFINE msg == [kind |-> "answer", id |-> r.id, method |-> r.method, ok |-> ok,
                     revision |-> revision]
  <2>2. /\ \A i \in DOMAIN stream : i \in DOMAIN stream' /\ stream'[i] = stream[i]
        /\ \A i \in DOMAIN stream' : (i \in DOMAIN stream /\ stream'[i] = stream[i])
                                     \/ stream'[i] = msg
    BY <1>1, <2>1
  <2>3. msg.revision = revision
    BY Zenon
  <2> HIDE DEF msg
  <2>4. OldAnswer' => OldAnswer
    BY <1>0, <2>1, <2>2, <2>3, ZenonT(60) DEF OldAnswer, Dated
  <2>5. Known => Known'
    BY <1>0, <2>2, Zenon DEF Known, Announced
  <2> QED
    BY <1>0, <2>1, <2>4, <2>5, Unobserved, Zenon
<1>3. CASE Rebuild \/ Garble
  <2>1. PICK kind \in {"didChange", "garbage"} : stream' = Append(stream, [kind |-> kind])
    BY <1>3, Zenon DEF Rebuild, Garble, Sends
  <2>2. Len(stream) + 1 \in DOMAIN stream' /\ stream'[Len(stream) + 1] = [kind |-> kind]
    BY <1>1, <2>1
  <2>3. [kind |-> kind].kind = kind
    BY Zenon
  <2>4. Known'
    BY <2>2, <2>3, Zenon DEF Known, Announced
  <2> QED
    BY <1>0, <2>4, Observed, Zenon
<1>4. CASE Exit
  <2>1. stream' = stream /\ revision' = revision
    BY <1>4, Zenon DEF Exit
  <2> QED
    BY <1>0, <2>1, Unobserved, Zenon DEF OldAnswer, Dated, Known, Announced
<1> QED
  BY <1>2, <1>3, <1>4, Zenon

LEMMA ReloadInvStep ==
  ASSUME Inv, ReloadInv, Callers # {}, [SessionNext]_sessionVars
  PROVE  ReloadInv'
<1>1. Owner \in Callers
  BY Zenon DEF Owner
<1>2. CASE UNCHANGED sessionVars
  <2>1. /\ caller' = caller /\ model' = model /\ missed' = missed /\ closed' = closed
        /\ reader' = reader /\ channel' = channel /\ to_reload' = to_reload
        /\ stream' = stream /\ revision' = revision
    BY <1>2, Zenon DEF sessionVars, serverVars, rpcVars, modelVars
  <2> QED
    BY <2>1, Unobserved, Zenon DEF OldAnswer, Dated, Known, Announced
<1> QED
  BY <1>1, <1>2, RequestReload, OperationReload, ReaderReload, ServerReload, Zenon DEF SessionNext

(* For any callers, any number of requests, time-outs and late answers, and    *)
(* any revisions announced while a model is being loaded: a model in use with  *)
(* a part that is not current is going to be loaded again, unless its last     *)
(* refetch failed or the connection is over.  No announcement that falls       *)
(* between two requests of a load, or between the swap of the flag and the     *)
(* first of them, is lost.                                                     *)
THEOREM StaleIsReloaded ==
  ASSUME Callers # {}
  PROVE  SessionSpec => []StaleModelReloads
<1>1. SessionInit => Inv /\ ReloadInv
  BY InvInit, ReloadInvInit, Zenon
<1>2. (Inv /\ ReloadInv) /\ [SessionNext]_sessionVars => (Inv /\ ReloadInv)'
  BY InvNext, ReloadInvStep, Zenon
<1>3. ReloadInv => StaleModelReloads
  BY Zenon DEF ReloadInv
<1> QED
  BY <1>1, <1>2, <1>3, PTL DEF SessionSpec
===============================================================================
