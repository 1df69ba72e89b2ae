---------------------------- MODULE PcIslandProofs ----------------------------
(***************************************************************************)
(* Proofs about the presentation-compiler island, for any targets, buffers *)
(* and texts and any cap on abandoned generations: between calls the       *)
(* service's buffers, the supervisor's replay source and the compiler's    *)
(* maps are the same, the lane is free and the busy marker can be trusted, *)
(* whichever requests were refused or overran and however recovery went.   *)
(***************************************************************************)
EXTENDS PcIsland, FiniteSetTheorems, SequenceTheorems, TLAPS

InSlot(g) == lane[g].at \in {"running", "refusing"}
Job(r, waits) == <<[request |-> r, awaited |-> waits]>>

\* A set of buffers is a function from finitely many uris to a target and a text
BuffersForm(b) ==
    /\ IsFiniteSet(DOMAIN b) /\ b = [u \in DOMAIN b |-> b[u]]
    /\ \A u \in DOMAIN b : b[u] = [target |-> b[u].target, text |-> b[u].text]

MirrorForm(m) ==
    /\ m = [targets |-> m.targets, buffers |-> m.buffers]
    /\ IsFiniteSet(m.targets) /\ BuffersForm(m.buffers)

\* The requests that a replay of m is made of
Reopen(b, u) == DidOpen(b[u].target, u, b[u].text)
ReplaySet(m) == {RegisterTarget(t) : t \in m.targets} \cup {Reopen(m.buffers, u) : u \in DOMAIN m.buffers}

\* A lane left behind finishes the one job it has, which nobody waits for
Abandoned(g) ==
    \/ lane[g].at \in {"idle", "gone"} /\ lane[g].queue = <<>>
    \/ InSlot(g) /\ lane[g].queue # <<>> /\ lane[g].queue = Job(Head(lane[g].queue).request, FALSE)

\* The lanes of all generations, the receiver that is staged, the busy marker
LanesInv ==
    /\ active \in Generations /\ loans \in Nat
    /\ lane = [g \in Generations |-> [at |-> lane[g].at, queue |-> lane[g].queue]]
    /\ \A g \in Generations : (g < active => Abandoned(g)) /\ (g > active => lane[g] = NoLane)
    /\ staged \in {NoGeneration, active}
    /\ staged = active => lane[active].at = "none"
    /\ jvm = "ready" /\ lane[active].at = "none" => staged = active /\ loans > 0
    /\ jvm # "ready" => active = 0 /\ loans = 0 /\ lane[active].at = "none"
    /\ jvm = "registered" => staged = active
    /\ busy \in Generations => InSlot(busy)
    /\ InSlot(active) => busy = active

\* The boot replays what the service has: what the island has already is part of
\* it, the rest is still to be opened, and the query comes last
ReplayLeft(rs, o, m) ==
    /\ rs # <<>> /\ rs \in Seq(ReplaySet(o) \cup {rs[Len(rs)]}) /\ rs[Len(rs)].op = "query"
    /\ \A i \in 1 .. Len(rs) - 1 : rs[i] \in ReplaySet(o)
    /\ \A u \in DOMAIN m.buffers : u \in DOMAIN o.buffers /\ m.buffers[u] = o.buffers[u]
    /\ \A u \in DOMAIN o.buffers \ DOMAIN m.buffers :
          \E i \in 1 .. Len(rs) - 1 : rs[i] = Reopen(o.buffers, u)
BootReplay == ReplayLeft(todo, outer, mirror)

\* The caller is in the boot: in JNI_CreateJavaVM, or at the rendezvous
Boots == {"creating", "rendezvous"}

OneQuery == todo # <<>> /\ todo = <<Head(todo)>> /\ Head(todo).op = "query"

\* The call that holds the mutex
CallInv ==
    /\ call \in {None, "document", "query", "reload", "boot"} /\ driver \in BOOLEAN
    /\ call = None <=> todo = <<>>
    /\ ~ driver => call \in {None, "boot"}
    /\ call = "boot" /\ driver => OneQuery
    /\ call = "boot" /\ ~ driver => OneQuery \/ (BootReplay /\ Len(todo) > 1)
    /\ driver \/ (call = "boot" /\ ~ OneQuery) => jvm = "ready"
    /\ jvm = "absent" \/ sup \in Boots => mirror = EmptyMirror /\ facade = EmptyMirror
    /\ MirrorForm(outer) /\ MirrorForm(mirror)

Free == reply = None /\ lane[active].queue = <<>> /\ lane[active].at \in {"none", "idle"}
Asked(r) == reply = None /\ lane[active].queue = Job(r, TRUE) /\ lane[active].at # "gone"
Replied == reply \in {"done", "status"} /\ lane[active].queue = <<>> /\ lane[active].at = "idle"

\* Nothing is asked of the island
IdleInv ==
    /\ Free /\ facade = mirror
    /\ driver => outer.buffers = mirror.buffers
    /\ driver /\ call # "boot" => lane[active].at = "idle"
    /\ sup \in Boots => Booting /\ OneQuery

\* The first request of the call is in the lane, or its outcome has come
WaitingInv ==
    /\ todo # <<>> /\ jvm = "ready"
    /\ driver => outer.buffers = mirror.buffers
    /\ ~ driver => BootReplay /\ Len(todo) > 1
    /\ \/ /\ Asked(Head(todo))
          /\ facade = IF lane[active].at = "running" THEN observe(mirror, Head(todo)) ELSE mirror
       \/ /\ Replied
          /\ facade = IF reply = "done" THEN observe(mirror, Head(todo)) ELSE mirror

\* The request has overrun: the mirror has it, the service not yet
RecoveryInv ==
    /\ driver /\ todo # <<>> /\ facade = mirror
    /\ BuffersAfter(outer.buffers, Head(todo)) = mirror.buffers
    /\ Head(todo).op \in {"query", "close"}

SupInv ==
    /\ sup \in {"idle", "creating", "rendezvous", "waiting", "restarting", "grace", "attaching", "replaying"}
    /\ sup \in {"idle", "creating", "rendezvous"} => IdleInv
    /\ sup = "waiting" => WaitingInv
    /\ sup \in {"restarting", "grace", "attaching", "replaying"} => RecoveryInv
    /\ sup \in {"restarting", "grace"} =>
          reply = None /\ Abandoned(active) /\ lane[active].at # "gone"
    /\ sup = "attaching" => Free /\ replays \in Seq(ReplaySet(mirror))
    /\ sup = "replaying" =>
          /\ replays # <<>> /\ replays \in Seq(ReplaySet(mirror))
          /\ Asked(Head(replays)) \/ Replied

InStep == LanesInv /\ CallInv /\ SupInv
IslandInv == fatal \in BOOLEAN /\ (~ fatal => InStep)

-------------------------------------------------------------------------------
(* What a request makes of a mirror                                            *)

\* Nothing open is a set of buffers
LEMMA EmptyForm == MirrorForm(EmptyMirror)
<1>1. DOMAIN <<>> = {} /\ <<>> = [u \in DOMAIN <<>> |-> <<>>[u]]
  OBVIOUS
<1>2. IsFiniteSet({})
  BY FS_EmptySet, Zenon
<1>3. EmptyMirror.targets = {} /\ EmptyMirror.buffers = <<>>
  BY Zenon DEF EmptyMirror
<1>4. EmptyMirror = [targets |-> EmptyMirror.targets, buffers |-> EmptyMirror.buffers]
  BY Zenon DEF EmptyMirror
<1>5. BuffersForm(<<>>)
  BY <1>1, <1>2, Zenon DEF BuffersForm
<1>6. QED
  BY <1>2, <1>3, <1>4, <1>5, Zenon DEF MirrorForm

\* An open inserts or refreshes, a change refreshes, a close drops
LEMMA OpenedForm ==
  ASSUME NEW b, BuffersForm(b), NEW v, NEW h, h = [target |-> h.target, text |-> h.text]
  PROVE  BuffersForm([u \in DOMAIN b \cup {v} |-> IF u = v THEN h ELSE b[u]])
<1>1. IsFiniteSet(DOMAIN b \cup {v})
  BY FS_AddElement, Zenon DEF BuffersForm
<1>2. PICK c : c = [u \in DOMAIN b \cup {v} |-> IF u = v THEN h ELSE b[u]]
  BY Zenon
<1>3. DOMAIN c = DOMAIN b \cup {v} /\ c = [u \in DOMAIN c |-> c[u]]
  BY <1>2, Zenon
<1>4. \A u \in DOMAIN c : c[u] = [target |-> c[u].target, text |-> c[u].text]
  <2>1. SUFFICES ASSUME NEW u \in DOMAIN c PROVE c[u] = [target |-> c[u].target, text |-> c[u].text]
    BY Zenon
  <2>2. CASE u = v
    <3>1. c[u] = h
      BY <1>2, <1>3, <2>2, Zenon
    <3>2. QED
      BY <3>1, Zenon
  <2>3. CASE u # v
    <3>1. c[u] = b[u] /\ u \in DOMAIN b
      BY <1>2, <1>3, <2>3, Zenon
    <3>2. b[u] = [target |-> b[u].target, text |-> b[u].text]
      BY <3>1, Zenon DEF BuffersForm
    <3>3. QED
      BY <3>1, <3>2, Zenon
  <2>4. QED
    BY <2>2, <2>3, Zenon
<1>5. BuffersForm(c)
  BY <1>1, <1>3, <1>4, Zenon DEF BuffersForm
<1>6. QED
  BY <1>2, <1>5, Zenon

\* Any request makes a set of buffers of one
LEMMA BuffersKept ==
  ASSUME NEW b, BuffersForm(b), NEW r
  PROVE  BuffersForm(BuffersAfter(b, r))
<1>1. CASE r.op = "open"
  <2>1. PICK h : h = [target |-> r.target, text |-> r.text]
    BY Zenon
  <2>2. h = [target |-> h.target, text |-> h.text]
    BY <2>1, Zenon
  <2>3. BuffersAfter(b, r) = [u \in DOMAIN b \cup {r.uri} |-> IF u = r.uri THEN h ELSE b[u]]
    BY <1>1, <2>1, Zenon DEF BuffersAfter
  <2>4. QED
    <3>1. BuffersForm([u \in DOMAIN b \cup {r.uri} |-> IF u = r.uri THEN h ELSE b[u]])
      BY <2>2, OpenedForm
    <3>2. QED
      BY <2>3, <3>1, Zenon
<1>2. CASE r.op = "change" /\ r.uri \in DOMAIN b
  <2>1. PICK c : c = BuffersAfter(b, r)
    BY Zenon
  <2>2. c = [b EXCEPT ![r.uri].text = r.text]
    BY <1>2, <2>1, Zenon DEF BuffersAfter
  <2>3. DOMAIN c = DOMAIN b /\ c = [u \in DOMAIN c |-> c[u]]
    BY <2>2, Zenon
  <2>4. \A u \in DOMAIN c : c[u] = IF u = r.uri THEN [b[u] EXCEPT !.text = r.text] ELSE b[u]
    BY <2>2, <2>3, Zenon
  <2>5. \A u \in DOMAIN c : b[u] = [target |-> b[u].target, text |-> b[u].text]
    BY <2>3, Zenon DEF BuffersForm
  <2>6. \A u \in DOMAIN c : c[u] = [target |-> c[u].target, text |-> c[u].text]
    <3>1. SUFFICES ASSUME NEW u \in DOMAIN c PROVE c[u] = [target |-> c[u].target, text |-> c[u].text]
      BY Zenon
    <3>2. PICK h : h = b[u] /\ h = [target |-> h.target, text |-> h.text]
      BY <2>5, Zenon
    <3>3. [h EXCEPT !.text = r.text] = [target |-> h.target, text |-> r.text]
      BY <3>2
    <3>4. c[u] = [target |-> h.target, text |-> r.text] \/ c[u] = [target |-> h.target, text |-> h.text]
      BY <2>4, <3>2, <3>3, Zenon
    <3>5. QED
      BY <3>4, Zenon
  <2>7. QED
    BY <2>1, <2>3, <2>6, Zenon DEF BuffersForm
<1>3. CASE r.op = "close"
  <2>1. PICK c : c = BuffersAfter(b, r)
    OBVIOUS
  <2>2. c = [u \in DOMAIN b \ {r.uri} |-> b[u]]
    BY <1>3, <2>1, Zenon DEF BuffersAfter
  <2>3. DOMAIN c = DOMAIN b \ {r.uri} /\ c = [u \in DOMAIN c |-> c[u]] /\ \A u \in DOMAIN c : u \in DOMAIN b /\ c[u] = b[u]
    BY <2>2, Zenon
  <2>4. IsFiniteSet(DOMAIN c)
    <3>1. IsFiniteSet(DOMAIN b)
      BY Zenon DEF BuffersForm
    <3>2. IsFiniteSet(DOMAIN b \ {r.uri})
      BY <3>1, FS_RemoveElement, Zenon
    <3>3. QED
      BY <2>3, <3>2, Zenon
  <2>5. \A u \in DOMAIN c : c[u] = [target |-> c[u].target, text |-> c[u].text]
    BY <2>3, Zenon DEF BuffersForm
  <2>6. QED
    BY <2>1, <2>3, <2>4, <2>5, Zenon DEF BuffersForm
<1>4. CASE r.op # "open" /\ ~ (r.op = "change" /\ r.uri \in DOMAIN b) /\ r.op # "close"
  BY <1>4, Zenon DEF BuffersAfter
<1>5. QED
  BY <1>1, <1>2, <1>3, <1>4, Zenon

\* Any request makes a mirror of one
LEMMA ObserveForm ==
  ASSUME NEW m, MirrorForm(m), NEW r
  PROVE  /\ MirrorForm(observe(m, r))
         /\ observe(m, r).buffers = BuffersAfter(m.buffers, r)
         /\ observe(m, r).targets = TargetsAfter(m.targets, r)
<1>1. PICK o : o = observe(m, r)
  OBVIOUS
<1>2. /\ o.targets = TargetsAfter(m.targets, r) /\ o.buffers = BuffersAfter(m.buffers, r)
      /\ o = [targets |-> o.targets, buffers |-> o.buffers]
  BY <1>1, Zenon DEF observe
<1>3. IsFiniteSet(o.targets)
  <2>1. IsFiniteSet(m.targets)
    BY Zenon DEF MirrorForm
  <2>2. IsFiniteSet(m.targets \cup {r.target})
    BY <2>1, FS_AddElement, Zenon
  <2>3. QED
    BY <1>2, <2>1, <2>2, Zenon DEF TargetsAfter
<1>4. BuffersForm(o.buffers)
  BY <1>2, BuffersKept, Zenon DEF MirrorForm
<1>5. QED
  BY <1>1, <1>2, <1>3, <1>4, Zenon DEF MirrorForm

\* A query changes nothing
LEMMA QueryChangesNothing ==
  ASSUME NEW r, r.op = "query"
  PROVE  /\ \A b : BuffersAfter(b, r) = b
         /\ \A m : MirrorForm(m) => observe(m, r) = m
<1>1. \A b : BuffersAfter(b, r) = b
  BY Zenon DEF BuffersAfter
<1>2. \A ts : TargetsAfter(ts, r) = ts
  BY Zenon DEF TargetsAfter
<1>3. QED
  BY <1>1, <1>2, Zenon DEF observe, MirrorForm

\* Replaying to a mirror what it holds changes nothing
LEMMA ReplayChangesNothing ==
  ASSUME NEW m, MirrorForm(m), NEW q \in ReplaySet(m)
  PROVE  observe(m, q) = m
<1>0. m = [targets |-> m.targets, buffers |-> m.buffers] /\ BuffersForm(m.buffers)
  BY Zenon DEF MirrorForm
<1>1. CASE \E t \in m.targets : q = RegisterTarget(t)
  <2>1. PICK t \in m.targets : q = RegisterTarget(t)
    BY <1>1, Zenon
  <2>2. q.op = "register" /\ q.target = t
    BY <2>1, Zenon DEF RegisterTarget
  <2>3. BuffersAfter(m.buffers, q) = m.buffers
    BY <2>2, Zenon DEF BuffersAfter
  <2>4. TargetsAfter(m.targets, q) = m.targets
    BY <2>2, Zenon DEF TargetsAfter
  <2>5. QED
    BY <1>0, <2>3, <2>4, Zenon DEF observe
<1>2. CASE \E u \in DOMAIN m.buffers : q = Reopen(m.buffers, u)
  <2>1. PICK b : b = m.buffers
    BY Zenon
  <2>2. PICK v \in DOMAIN b : q = Reopen(b, v)
    BY <1>2, <2>1, Zenon
  <2>3. q.op = "open" /\ q.uri = v /\ q.target = b[v].target /\ q.text = b[v].text
    BY <2>2, Zenon DEF Reopen, DidOpen
  <2>4. [target |-> q.target, text |-> q.text] = b[v] /\ b = [u \in DOMAIN b |-> b[u]]
    BY <1>0, <2>1, <2>3, Zenon DEF BuffersForm
  <2>5. BuffersAfter(b, q) = [u \in DOMAIN b \cup {v} |-> IF u = v THEN b[v] ELSE b[u]]
    BY <2>3, <2>4, Zenon DEF BuffersAfter
  <2>6. DOMAIN b \cup {v} = DOMAIN b
    BY Zenon
  <2>7. [u \in DOMAIN b |-> IF u = v THEN b[v] ELSE b[u]] = [u \in DOMAIN b |-> b[u]]
    BY Zenon
  <2>8. BuffersAfter(b, q) = b
    BY <2>4, <2>5, <2>6, <2>7, Zenon
  <2>9. TargetsAfter(m.targets, q) = m.targets
    BY <2>3, Zenon DEF TargetsAfter
  <2>10. QED
    BY <1>0, <2>1, <2>8, <2>9, Zenon DEF observe
<1>3. QED
  BY <1>1, <1>2, Zenon DEF ReplaySet

-------------------------------------------------------------------------------
(* Replays                                                                     *)

\* A listing of a finite set lists its members
LEMMA ListingLists ==
  ASSUME NEW S, IsFiniteSet(S)
  PROVE  /\ Cardinality(S) \in Nat
         /\ \A i \in 1 .. Cardinality(S) : Listing(S)[i] \in S
         /\ \A x \in S : \E i \in 1 .. Cardinality(S) : Listing(S)[i] = x
<1>1. PICK n : n = Cardinality(S)
  BY Zenon
<1>2. n \in Nat /\ ExistsBijection(1 .. n, S)
  BY <1>1, FS_CardinalityType, Zenon
<1>3. PICK f \in [1 .. n -> S] : \A x \in S : \E i \in 1 .. n : f[i] = x
  BY <1>2, Zenon DEF ExistsBijection, Bijection, Surjection
<1>4. Range(f) = S
  BY <1>3, Zenon DEF Range
<1>5. PICK s : s = Listing(S)
  BY Zenon
<1>6. s \in [1 .. n -> S] /\ Range(s) = S
  BY <1>1, <1>4, <1>5, Zenon DEF Listing
<1>7. /\ \A i \in 1 .. n : s[i] \in S
      /\ \A x \in S : \E i \in 1 .. n : s[i] = x
  BY <1>6, Zenon DEF Range
<1>8. QED
  BY <1>1, <1>2, <1>5, <1>7, Zenon

\* The replay of a mirror registers its targets and opens every buffer it has
LEMMA ReplayOpensAll ==
  ASSUME NEW m, MirrorForm(m), NEW rs, rs = replay_requests(m)
  PROVE  /\ rs \in Seq(ReplaySet(m))
         /\ \A u \in DOMAIN m.buffers : \E i \in 1 .. Len(rs) : rs[i] = Reopen(m.buffers, u)
<1>0. IsFiniteSet(m.targets) /\ IsFiniteSet(DOMAIN m.buffers)
  BY Zenon DEF MirrorForm, BuffersForm
<1>1. PICK R : R = ReplaySet(m)
  BY Zenon
<1>2. PICK b : b = m.buffers
  BY Zenon
<1>3. PICK k : k = Cardinality(m.targets)
  BY Zenon
<1>4. PICK n : n = Cardinality(DOMAIN b)
  BY Zenon
<1>5. PICK us : us = Listing(DOMAIN b)
  BY Zenon
<1>6. /\ n \in Nat /\ \A i \in 1 .. n : us[i] \in DOMAIN b
      /\ \A u \in DOMAIN b : \E i \in 1 .. n : us[i] = u
  <2>1. IsFiniteSet(DOMAIN b)
    BY <1>0, <1>2, Zenon
  <2>2. Cardinality(DOMAIN b) \in Nat
    BY <2>1, ListingLists, Zenon
  <2>3. \A i \in 1 .. Cardinality(DOMAIN b) : Listing(DOMAIN b)[i] \in DOMAIN b
    BY <2>1, ListingLists, Zenon
  <2>4. \A u \in DOMAIN b : \E i \in 1 .. Cardinality(DOMAIN b) : Listing(DOMAIN b)[i] = u
    BY <2>1, ListingLists, Zenon
  <2>5. QED
    BY <1>4, <1>5, <2>2, <2>3, <2>4, Zenon
<1>7. PICK r1 : r1 = registrations(m.targets)
  OBVIOUS
<1>8. PICK r2 : r2 = opens(b)
  BY Zenon
<1>9. k \in Nat /\ \A i \in 1 .. k : RegisterTarget(Listing(m.targets)[i]) \in R
  BY <1>0, <1>1, <1>3, ListingLists, Zenon DEF ReplaySet
<1>10. r1 \in Seq(R) /\ Len(r1) = k
  <2>1. r1 = [i \in 1 .. k |-> RegisterTarget(Listing(m.targets)[i])]
    BY <1>3, <1>7, Zenon DEF registrations
  <2>2. QED
    BY <1>9, <2>1
<1>11. r2 = [i \in 1 .. n |-> Reopen(b, us[i])]
  BY <1>4, <1>5, <1>8, Zenon DEF opens, Reopen
<1>12. \A i \in 1 .. n : Reopen(b, us[i]) \in R
  BY <1>1, <1>2, <1>6, Zenon DEF ReplaySet
<1>13. r2 \in Seq(R) /\ Len(r2) = n /\ \A i \in 1 .. n : r2[i] = Reopen(b, us[i])
  BY <1>6, <1>11, <1>12
<1>14. rs = r1 \o r2
  BY <1>2, <1>7, <1>8, Zenon DEF replay_requests
<1>15. /\ rs \in Seq(R) /\ Len(rs) = k + n
       /\ \A i \in 1 .. k + n : rs[i] = IF i <= k THEN r1[i] ELSE r2[i - k]
  BY <1>10, <1>13, <1>14, ConcatProperties
<1>16. ASSUME NEW u \in DOMAIN b
       PROVE  \E i \in 1 .. Len(rs) : rs[i] = Reopen(b, u)
  <2>1. PICK i \in 1 .. n : us[i] = u
    BY <1>6, Zenon
  <2>2. k + i \in 1 .. k + n /\ ~ (k + i <= k) /\ (k + i) - k = i
    BY <1>6, <1>9
  <2>3. rs[k + i] = r2[i]
    BY <1>15, <2>2, Zenon
  <2>4. QED
    BY <1>13, <1>15, <2>1, <2>2, <2>3, Zenon
<1>17. QED
  BY <1>1, <1>2, <1>15, <1>16, Zenon

\* A replay that is over has opened every buffer
LEMMA ReplayOver ==
  ASSUME NEW rs, NEW o, NEW m, MirrorForm(o), MirrorForm(m), ReplayLeft(rs, o, m), Len(rs) = 1
  PROVE  rs = <<Head(rs)>> /\ Head(rs).op = "query" /\ o.buffers = m.buffers
<1>1. PICK S : rs \in Seq(S)
  BY Zenon DEF ReplayLeft
<1>2. rs = <<rs[1]>> /\ Head(rs) = rs[1] /\ rs[Len(rs)] = rs[1]
  BY <1>1
<1>3. Head(rs).op = "query"
  BY <1>2, Zenon DEF ReplayLeft
<1>4. ~ \E i \in 1 .. Len(rs) - 1 : TRUE
  OBVIOUS
<1>5. PICK a, b : a = o.buffers /\ b = m.buffers
  BY Zenon
<1>6. DOMAIN a = DOMAIN b /\ \A u \in DOMAIN a : a[u] = b[u]
  <2>1. \A u \in DOMAIN b : u \in DOMAIN a /\ b[u] = a[u]
    BY <1>5, Zenon DEF ReplayLeft
  <2>2. \A u \in DOMAIN a : u \in DOMAIN b
    BY <1>4, <1>5, Zenon DEF ReplayLeft
  <2>3. QED
    BY <2>1, <2>2, Zenon
<1>7. a = [u \in DOMAIN a |-> a[u]] /\ b = [u \in DOMAIN b |-> b[u]]
  BY <1>5, Zenon DEF MirrorForm, BuffersForm
<1>8. [u \in DOMAIN a |-> a[u]] = [u \in DOMAIN a |-> b[u]]
  BY <1>6, Zenon
<1>9. a = b
  BY <1>6, <1>7, <1>8, Zenon
<1>10. QED
  BY <1>2, <1>3, <1>5, <1>9, Zenon

\* A replay that is not over has a target to register or a buffer to open next
LEMMA ReplayHead ==
  ASSUME NEW rs, NEW o, NEW m, ReplayLeft(rs, o, m), Len(rs) > 1
  PROVE  Head(rs).op \in {"register", "open"}
<1>1. PICK S : rs \in Seq(S)
  BY Zenon DEF ReplayLeft
<1>2. 1 \in 1 .. Len(rs) - 1 /\ Head(rs) = rs[1]
  BY <1>1
<1>3. Head(rs) \in ReplaySet(o)
  BY <1>2, Zenon DEF ReplayLeft
<1>4. \A t : RegisterTarget(t).op = "register"
  BY Zenon DEF RegisterTarget
<1>5. \A b, u : Reopen(b, u).op = "open"
  BY Zenon DEF Reopen, DidOpen
<1>6. QED
  BY <1>3, <1>4, <1>5, Zenon DEF ReplaySet

\* A replay goes on with what it has not opened yet
LEMMA ReplayShifts ==
  ASSUME NEW rs, NEW o, NEW m, MirrorForm(o), MirrorForm(m), ReplayLeft(rs, o, m), Len(rs) > 1
  PROVE  ReplayLeft(Tail(rs), o, observe(m, Head(rs)))
<1>0. PICK S : S = ReplaySet(o) \cup {rs[Len(rs)]} /\ rs \in Seq(S)
  BY Zenon DEF ReplayLeft
<1>n. PICK n \in Nat : n = Len(rs) /\ n > 1
  <2>1. Len(rs) \in Nat
    BY <1>0, LenProperties, Zenon
  <2>2. QED
    BY <2>1, Zenon
<1>1. PICK t : t = Tail(rs)
  BY Zenon
<1>2. t \in Seq(S) /\ Len(t) = n - 1 /\ t # <<>> /\ (\A i \in 1 .. n - 1 : t[i] = rs[i + 1])
      /\ t[Len(t)] = rs[Len(rs)] /\ Head(rs) = rs[1]
  <2>1. rs \in Seq(S) /\ rs # <<>>
    BY <1>0, Zenon DEF ReplayLeft
  <2>2. Head(rs) = rs[1] /\ t \in Seq(S) /\ Len(t) = Len(rs) - 1 /\ \A i \in 1 .. Len(t) : t[i] = rs[i + 1]
    BY <1>1, <2>1, HeadTailProperties
  <2>3. Len(t) = n - 1 /\ n - 1 \in 1 .. n - 1 /\ n - 1 + 1 = n
    BY <1>n, <2>2
  <2>4. t # <<>>
    BY <1>n, <2>3
  <2>5. t[n - 1] = rs[n]
    BY <2>2, <2>3, Zenon
  <2>6. QED
    BY <1>n, <2>2, <2>3, <2>4, <2>5, Zenon
<1>3. \A i \in 1 .. Len(rs) - 1 : rs[i] \in ReplaySet(o)
  BY Zenon DEF ReplayLeft
<1>4. \A i \in 1 .. Len(t) - 1 : t[i] \in ReplaySet(o)
  BY <1>n, <1>1, <1>2, <1>3
<1>5. t \in Seq(ReplaySet(o) \cup {t[Len(t)]}) /\ t[Len(t)].op = "query"
  BY <1>0, <1>2, Zenon DEF ReplayLeft
<1>6. PICK q, a, b, c : q = Head(rs) /\ a = o.buffers /\ b = m.buffers /\ c = observe(m, q).buffers
  BY Zenon
<1>7. c = BuffersAfter(b, q)
  BY <1>6, ObserveForm, Zenon
<1>8. /\ \A u \in DOMAIN b : u \in DOMAIN a /\ b[u] = a[u]
      /\ \A u \in DOMAIN a \ DOMAIN b : \E i \in 1 .. n - 1 : rs[i] = Reopen(a, u)
  BY <1>n, <1>6, Zenon DEF ReplayLeft
<1>9. q \in ReplaySet(o)
  BY <1>n, <1>1, <1>2, <1>3, <1>6
<1>10. /\ \A u \in DOMAIN c : u \in DOMAIN a /\ c[u] = a[u]
       /\ \A u \in DOMAIN a \ DOMAIN c : u \notin DOMAIN b /\ Reopen(a, u) # q
  <2>1. CASE \E x \in o.targets : q = RegisterTarget(x)
    <3>1. q.op = "register"
      BY <2>1 DEF RegisterTarget
    <3>2. c = b
      BY <1>7, <3>1, Zenon DEF BuffersAfter
    <3>3. \A u : Reopen(a, u).op = "open"
      BY Zenon DEF Reopen, DidOpen
    <3>4. \A u : Reopen(a, u) # q
      BY <3>1, <3>3, Zenon
    <3>5. QED
      BY <1>8, <3>2, <3>4, Zenon
  <2>2. CASE \E w \in DOMAIN a : q = Reopen(a, w)
    <3>1. PICK w \in DOMAIN a : q = Reopen(a, w)
      BY <2>2, Zenon
    <3>2. q.op = "open" /\ q.uri = w /\ q.target = a[w].target /\ q.text = a[w].text
      BY <3>1, Zenon DEF Reopen, DidOpen
    <3>3. [target |-> q.target, text |-> q.text] = a[w]
      BY <1>6, <3>2, Zenon DEF MirrorForm, BuffersForm
    <3>4. c = [u \in DOMAIN b \cup {w} |-> IF u = w THEN a[w] ELSE b[u]]
      BY <1>7, <3>2, <3>3, Zenon DEF BuffersAfter
    <3>5. DOMAIN c = DOMAIN b \cup {w} /\ \A u \in DOMAIN c : c[u] = IF u = w THEN a[w] ELSE b[u]
      BY <3>4, Zenon
    <3>6. \A u : Reopen(a, u).uri = u
      BY Zenon DEF Reopen, DidOpen
    <3>7. \A u : Reopen(a, u) = q => u = w
      BY <3>2, <3>6, Zenon
    <3>8. QED
      BY <1>8, <3>5, <3>7, Zenon
  <2>3. QED
    BY <1>6, <1>9, <2>1, <2>2, Zenon DEF ReplaySet
<1>11. ASSUME NEW u \in DOMAIN a \ DOMAIN c PROVE \E i \in 1 .. Len(t) - 1 : t[i] = Reopen(a, u)
  <2>1. Reopen(a, u) # q
    BY <1>10, Zenon
  <2>2. PICK i \in 1 .. n - 1 : rs[i] = Reopen(a, u)
    BY <1>8, <1>10, Zenon
  <2>3. i # 1
    BY <1>2, <1>6, <2>1, <2>2, Zenon
  <2>4. i - 1 \in 1 .. Len(t) - 1 /\ t[i - 1] = rs[i]
    <3>1. i - 1 \in 1 .. (n - 1) - 1 /\ i - 1 \in 1 .. n - 1 /\ (i - 1) + 1 = i
      BY <2>3
    <3>2. t[i - 1] = rs[(i - 1) + 1] /\ Len(t) = n - 1
      BY <1>2, <3>1, Zenon
    <3>3. QED
      BY <3>1, <3>2, Zenon
  <2>5. QED
    BY <2>2, <2>4, Zenon
<1>12. QED
  BY <1>1, <1>2, <1>4, <1>5, <1>6, <1>10, <1>11, Zenon DEF ReplayLeft

-------------------------------------------------------------------------------
(* Calls into the service                                                      *)

\* The invariant of the lanes is about the lanes and the JVM only
LEMMA LanesFrame ==
  ASSUME LanesInv, UNCHANGED <<jvm, active, staged, busy, lane, loans>>
  PROVE  LanesInv'
<1>1. \A g : (InSlot(g)' <=> InSlot(g)) /\ (Abandoned(g)' <=> Abandoned(g))
  BY Zenon DEF InSlot, Abandoned
<1>2. QED
  BY <1>1, Zenon DEF LanesInv

\* Between calls the supervisor is idle
LEMMA CallerIdle ==
  ASSUME CallInv, SupInv, call = None
  PROVE  sup = "idle" /\ IdleInv /\ todo = <<>>
<1>1. todo = <<>>
  BY Zenon DEF CallInv
<1>2. sup \notin Boots
  BY <1>1, Zenon DEF SupInv, IdleInv, OneQuery, Boots
<1>3. QED
  BY <1>1, <1>2, Zenon DEF SupInv, WaitingInv, RecoveryInv, Boots

\* A call begins: whatever it is to ask of the island, or nothing
LEMMA CallBegins ==
  ASSUME InStep, call = None, UNCHANGED <<jvm, supVars, active, laneVars, facade>>, driver' = driver,
         MirrorForm(outer'), driver => outer'.buffers = outer.buffers,
         call' = None <=> todo' = <<>>,
         \/ call' = None
         \/ call' \in {"document", "query", "reload"} /\ driver
         \/ call' = "boot" /\ ~ driver /\ OneQuery'
  PROVE  InStep'
<1>0. LanesInv /\ CallInv /\ SupInv
  BY Zenon DEF InStep
<1>1. sup = "idle" /\ IdleInv /\ todo = <<>>
  BY <1>0, CallerIdle, Zenon
<1>2. LanesInv'
  BY <1>0, LanesFrame, Zenon DEF laneVars
<1>3. UNCHANGED <<sup, reply, mirror, fatal, replays, lane>>
  BY Zenon DEF supVars, laneVars
<1>4. driver \in BOOLEAN /\ MirrorForm(mirror) /\ (driver => jvm = "ready") /\ (jvm = "absent" => mirror = EmptyMirror /\ facade = EmptyMirror)
  BY <1>0, Zenon DEF CallInv
<1>5. None # "boot"
  BY Zenon DEF None
<1>6. CallInv'
  <2>1. call' \in {None, "document", "query", "reload", "boot"} /\ (~ driver => call' \in {None, "boot"})
    BY Zenon
  <2>2. (call' = "boot" => ~ driver /\ OneQuery')
    BY <1>5, Zenon
  <2>3. MirrorForm(mirror)'
    BY <1>3, <1>4, Zenon
  <2>4. MirrorForm(outer)'
    BY Zenon
  <2>5. sup' \notin Boots
    BY <1>1, <1>3, Zenon DEF Boots
  <2>6. QED
    BY <1>3, <1>4, <2>1, <2>2, <2>3, <2>4, <2>5, Zenon DEF CallInv
<1>7. IdleInv'
  <2>1. Free'
    BY <1>1, <1>3, Zenon DEF IdleInv, Free
  <2>2. facade' = mirror' /\ (driver' => outer'.buffers = mirror'.buffers)
    BY <1>1, <1>3, Zenon DEF IdleInv
  <2>3. driver' => lane'[active'].at = "idle"
    BY <1>1, <1>3, <1>5, Zenon DEF IdleInv
  <2>4. sup' \notin Boots
    BY <1>1, <1>3 DEF Boots
  <2>5. QED
    BY <2>1, <2>2, <2>3, <2>4, Zenon DEF IdleInv
<1>8. SupInv'
  <2>1. sup' = "idle"
    BY <1>1, <1>3, Zenon
  <2>2. QED
    BY <1>7, <2>1, Zenon DEF SupInv
<1>9. QED
  BY <1>2, <1>6, <1>8, Zenon DEF InStep

\* A notification is noted by a cold island and begins a call of a booted one
LEMMA NotifyBegins ==
  ASSUME InStep, Calling, NEW r, Notify(r)
  PROVE  InStep'
<1>0. CallInv /\ MirrorForm(outer) /\ call = None /\ todo = <<>>
  BY Zenon DEF InStep, CallInv, Calling
<1>1. UNCHANGED <<jvm, supVars, active, laneVars, facade>> /\ driver' = driver
  BY Zenon DEF Calling, Notify
<1>2. CASE driver
  <2>1. call' = "document" /\ todo' = <<r>> /\ outer' = outer
    BY <1>2, Zenon DEF Notify
  <2>2. call' # None /\ todo' # <<>>
    BY <2>1, Zenon DEF None
  <2>3. MirrorForm(outer') /\ outer'.buffers = outer.buffers
    BY <1>0, <2>1, Zenon
  <2>4. QED
    BY <1>0, <1>1, <1>2, <2>1, <2>2, <2>3, CallBegins, Zenon
<1>3. CASE ~ driver
  <2>1. outer' = [outer EXCEPT !.buffers = BuffersAfter(outer.buffers, r)] /\ call' = None /\ todo' = <<>>
    BY <1>0, <1>3, Zenon DEF Notify
  <2>2. outer'.targets = outer.targets /\ outer'.buffers = BuffersAfter(outer.buffers, r)
        /\ outer' = [targets |-> outer'.targets, buffers |-> outer'.buffers]
    <3>1. outer = [targets |-> outer.targets, buffers |-> outer.buffers]
      BY <1>0, Zenon DEF MirrorForm
    <3>2. QED
      BY <2>1, <3>1, Zenon
  <2>3. BuffersForm(BuffersAfter(outer.buffers, r)) /\ IsFiniteSet(outer.targets)
    BY <1>0, BuffersKept, Zenon DEF MirrorForm
  <2>4. MirrorForm(outer')
    BY <2>2, <2>3, Zenon DEF MirrorForm
  <2>5. QED
    BY <1>0, <1>1, <1>3, <2>1, <2>4, CallBegins, Zenon
<1>4. QED
  BY <1>2, <1>3, Zenon

\* A query begins a call, which boots a cold island
LEMMA QueryBegins ==
  ASSUME InStep, NEW u, query_reply(u)
  PROVE  InStep'
<1>0. CallInv /\ MirrorForm(outer) /\ call = None /\ driver \in BOOLEAN
  BY Zenon DEF InStep, CallInv, Calling, query_reply
<1>1. /\ UNCHANGED <<jvm, supVars, active, laneVars, facade>> /\ driver' = driver /\ outer' = outer
      /\ call' = (IF driver THEN "query" ELSE "boot") /\ todo' = <<Query(u)>>
  BY Zenon DEF Calling, query_reply
<1>2. todo' # <<>> /\ call' # None
  BY <1>1, Zenon DEF None
<1>3. OneQuery'
  <2>1. Head(todo') = Query(u) /\ Query(u).op = "query"
    BY <1>1 DEF Query
  <2>2. QED
    BY <1>1, <1>2, <2>1, Zenon DEF OneQuery
<1>4. MirrorForm(outer') /\ outer'.buffers = outer.buffers
  BY <1>0, <1>1, Zenon
<1>5. (call' = "query" /\ driver) \/ (call' = "boot" /\ ~ driver)
  BY <1>1, Zenon
<1>6. QED
  BY <1>0, <1>1, <1>2, <1>3, <1>4, <1>5, CallBegins, Zenon

\* A reload replaces the targets and opens buffers: of a cold island at once, of a
\* booted one by its call
LEMMA ReloadBegins ==
  ASSUME InStep, NEW ts \in SUBSET Targets, NEW owner, reload(ts, owner)
  PROVE  InStep'
<1>0. CallInv /\ MirrorForm(outer) /\ call = None /\ todo = <<>>
  BY Zenon DEF InStep, CallInv, Calling, reload
<1> DEFINE Owned(text) == [u \in {u \in Uris : owner[u] \in ts} |-> [target |-> owner[u], text |-> text[u]]]
<1>a. PICK text :
         IF driver
         THEN /\ outer' = [outer EXCEPT !.targets = ts]
              /\ call' = IF todo' = <<>> THEN None ELSE "reload"
         ELSE /\ outer' = [targets |-> ts,
                           buffers |-> [u \in DOMAIN outer.buffers \cup DOMAIN Owned(text) |->
                                          IF u \in DOMAIN Owned(text) THEN Owned(text)[u] ELSE outer.buffers[u]]]
              /\ UNCHANGED <<call, todo>>
  BY Zenon DEF reload
<1>1. PICK owned : owned = Owned(text)
  BY Zenon
<1>2. UNCHANGED <<jvm, supVars, active, laneVars, facade>> /\ driver' = driver
  BY Zenon DEF Calling, reload
<1>3. IsFiniteSet(ts)
  BY FS_Subset, IslandConstants, Zenon
<1>4. CASE driver
  <2>1. outer = [targets |-> outer.targets, buffers |-> outer.buffers]
    BY <1>0, Zenon DEF MirrorForm
  <2>2. outer' = [outer EXCEPT !.targets = ts] /\ call' = IF todo' = <<>> THEN None ELSE "reload"
    BY <1>a, <1>4, Zenon
  <2>3. outer'.targets = ts /\ outer'.buffers = outer.buffers /\ outer' = [targets |-> outer'.targets, buffers |-> outer'.buffers]
    BY <2>1, <2>2, Zenon
  <2>4. MirrorForm(outer')
    BY <1>0, <1>3, <2>3, Zenon DEF MirrorForm
  <2>5. (call' = None <=> todo' = <<>>) /\ call' \in {None, "reload"}
    BY <2>2, Zenon DEF None
  <2>6. call' = None \/ (call' \in {"document", "query", "reload"} /\ driver)
    BY <1>4, <2>5, Zenon
  <2>7. QED
    BY <1>0, <1>2, <2>3, <2>4, <2>5, <2>6, CallBegins, Zenon
<1>5. CASE ~ driver
  <2>1. PICK b : b = [u \in DOMAIN outer.buffers \cup DOMAIN owned |->
                         IF u \in DOMAIN owned THEN owned[u] ELSE outer.buffers[u]]
    BY Zenon
  <2>2. outer' = [targets |-> ts, buffers |-> b] /\ call' = None /\ todo' = <<>>
    BY <1>a, <1>0, <1>1, <1>5, <2>1, Zenon
  <2>3. outer'.targets = ts /\ outer'.buffers = b /\ outer' = [targets |-> outer'.targets, buffers |-> outer'.buffers]
    BY <2>2, Zenon
  <2>4. DOMAIN owned \in SUBSET Uris /\ \A u \in DOMAIN owned : owned[u] = [target |-> owner[u], text |-> text[u]]
    BY <1>1, Zenon
  <2>5. BuffersForm(b)
    <3>1. IsFiniteSet(DOMAIN owned)
      BY <2>4, FS_Subset, IslandConstants, Zenon
    <3>2. IsFiniteSet(DOMAIN outer.buffers)
      BY <1>0, Zenon DEF MirrorForm, BuffersForm
    <3>3. IsFiniteSet(DOMAIN outer.buffers \cup DOMAIN owned)
      BY <3>1, <3>2, FS_Union, Zenon
    <3>4. DOMAIN b = DOMAIN outer.buffers \cup DOMAIN owned /\ b = [u \in DOMAIN b |-> b[u]]
      BY <2>1, Zenon
    <3>5. ASSUME NEW u \in DOMAIN b PROVE b[u] = [target |-> b[u].target, text |-> b[u].text]
      <4>1. CASE u \in DOMAIN owned
        <5>1. b[u] = [target |-> owner[u], text |-> text[u]]
          BY <2>1, <2>4, <3>4, <4>1, Zenon
        <5>2. QED
          BY <5>1, Zenon
      <4>2. CASE u \notin DOMAIN owned
        <5>1. b[u] = outer.buffers[u] /\ u \in DOMAIN outer.buffers
          BY <2>1, <3>4, <4>2, Zenon
        <5>2. QED
          BY <1>0, <5>1, Zenon DEF MirrorForm, BuffersForm
      <4>3. QED
        BY <4>1, <4>2, Zenon
    <3>6. QED
      BY <3>3, <3>4, <3>5, Zenon DEF BuffersForm
  <2>6. MirrorForm(outer')
    BY <1>3, <2>3, <2>5, Zenon DEF MirrorForm
  <2>7. QED
    BY <1>0, <1>2, <1>5, <2>2, <2>6, CallBegins, Zenon
<1>6. QED
  BY <1>4, <1>5, Zenon

\* A change of the configuration only forgets why the boot failed
LEMMA ConfigBegins ==
  ASSUME InStep, on_config_changed
  PROVE  InStep'
<1>1. CallInv /\ MirrorForm(outer) /\ call = None /\ todo = <<>>
  BY Zenon DEF InStep, CallInv, Calling, on_config_changed
<1>2. UNCHANGED <<jvm, supVars, active, laneVars, facade>> /\ driver' = driver /\ outer' = outer /\ call' = None /\ todo' = <<>>
  BY <1>1, Zenon DEF Calling, on_config_changed
<1>3. MirrorForm(outer') /\ outer'.buffers = outer.buffers
  BY <1>1, <1>2, Zenon
<1>4. QED
  BY <1>1, <1>2, <1>3, CallBegins, Zenon

LEMMA CallsKeep ==
  ASSUME InStep, ServiceCalls
  PROVE  InStep'
<1>1. \A t, u, x : did_open(t, u, x) => Calling /\ Notify(DidOpen(t, u, x))
  BY Zenon DEF did_open
<1>2. \A u, x : did_change(u, x) => Calling /\ Notify(DidChange(u, x))
  BY Zenon DEF did_change
<1>3. \A u : did_close(u) => Calling /\ Notify(DidClose(u))
  BY Zenon DEF did_close
<1>4. CASE Calling /\ \E r : Notify(r)
  BY <1>4, NotifyBegins, Zenon
<1>5. CASE \E u : query_reply(u)
  BY <1>5, QueryBegins, Zenon
<1>6. CASE \E ts \in SUBSET Targets, owner \in [Uris -> Targets \cup {None}] : reload(ts, owner)
  BY <1>6, ReloadBegins, Zenon
<1>7. QED
  BY <1>1, <1>2, <1>3, <1>4, <1>5, <1>6, ConfigBegins, Zenon DEF ServiceCalls

-------------------------------------------------------------------------------
(* The end of a request                                                        *)

\* A call of a booted island goes on with its next request, or returns
LEMMA WarmResumes ==
  ASSUME CallInv, driver, todo # <<>>, NEW outcome, Resume(outcome),
         jvm' = jvm, sup' = "idle", MirrorForm(mirror')
  PROVE  /\ CallInv' /\ driver' /\ call' # "boot"
         /\ outer'.buffers = IF outcome # "status" THEN BuffersAfter(outer.buffers, Head(todo)) ELSE outer.buffers
<1>0. call \in {"document", "query", "reload", "boot"} /\ (call = "boot" => OneQuery) /\ jvm = "ready"
      /\ MirrorForm(outer) /\ None # "boot"
  <2>1. call # None
    BY Zenon DEF CallInv
  <2>2. QED
    BY <2>1, Zenon DEF CallInv, None
<1>1. driver'
  BY Zenon DEF Resume
<1>2. call' = (IF todo' = <<>> THEN None ELSE call)
  BY Zenon DEF Resume
<1>3. call = "boot" => todo' = <<>>
  <2>1. SUFFICES ASSUME OneQuery PROVE todo' = <<>>
    BY <1>0, Zenon
  <2>2. Tail(todo) = <<>> /\ Head(todo).op = "query"
    <3>1. PICK x : todo = <<x>>
      BY <2>1, Zenon DEF OneQuery
    <3>2. QED
      BY <2>1, <3>1 DEF OneQuery
  <2>3. QED
    BY <2>2, Zenon DEF Resume
<1>4. (call' = None <=> todo' = <<>>) /\ call' \in {None, "document", "query", "reload"} /\ call' # "boot"
  BY <1>0, <1>2, <1>3, Zenon DEF None
<1>5. /\ outer'.buffers = IF outcome # "status" THEN BuffersAfter(outer.buffers, Head(todo)) ELSE outer.buffers
      /\ MirrorForm(outer')
  <2>0. outer = [targets |-> outer.targets, buffers |-> outer.buffers] /\ IsFiniteSet(outer.targets)
    BY <1>0, Zenon DEF MirrorForm
  <2>1. CASE outcome # "status" /\ call # "boot"
    <3>1. outer' = [outer EXCEPT !.buffers = BuffersAfter(outer.buffers, Head(todo))]
      BY <2>1, Zenon DEF Resume
    <3>2. outer'.targets = outer.targets /\ outer'.buffers = BuffersAfter(outer.buffers, Head(todo))
          /\ outer' = [targets |-> outer'.targets, buffers |-> outer'.buffers]
      BY <2>0, <3>1, Zenon
    <3>3. BuffersForm(BuffersAfter(outer.buffers, Head(todo)))
      BY <1>0, BuffersKept, Zenon DEF MirrorForm
    <3>4. MirrorForm(outer')
      BY <2>0, <3>2, <3>3, Zenon DEF MirrorForm
    <3>5. QED
      BY <2>1, <3>2, <3>4, Zenon
  <2>2. CASE outcome = "status"
    <3>1. outer' = outer
      BY <2>2, Zenon DEF Resume
    <3>2. QED
      BY <1>0, <2>2, <3>1, Zenon
  <2>3. CASE call = "boot"
    <3>1. outer' = outer
      BY <2>3, Zenon DEF Resume
    <3>2. BuffersAfter(outer.buffers, Head(todo)) = outer.buffers
      BY <1>0, <2>3, QueryChangesNothing, Zenon DEF OneQuery
    <3>3. QED
      BY <1>0, <3>1, <3>2, Zenon
  <2>4. QED
    BY <2>1, <2>2, <2>3, Zenon
<1>6. CallInv'
  <2>1. driver' \in BOOLEAN
    BY <1>1, Zenon DEF Resume
  <2>2. MirrorForm(outer)' /\ MirrorForm(mirror)'
    BY <1>5, Zenon
  <2>3. jvm' = "ready" /\ jvm' # "absent" /\ sup' \notin Boots
    BY <1>0, Zenon DEF Boots
  <2>4. QED
    BY <1>1, <1>4, <2>1, <2>2, <2>3, Zenon DEF CallInv
<1>7. QED
  BY <1>1, <1>4, <1>5, <1>6, Zenon

\* Recovery that is not fatal leaves the island as the mirror has it
LEMMA RecoveryEnds ==
  ASSUME CallInv, RecoveryInv, Recovered(FALSE), UNCHANGED <<jvm, mirror, facade>>, Free', lane'[active'].at = "idle"
  PROVE  CallInv' /\ SupInv'
<1>1. driver /\ todo # <<>> /\ Resume("timeout") /\ sup' = "idle" /\ facade = mirror
      /\ BuffersAfter(outer.buffers, Head(todo)) = mirror.buffers
  BY Zenon DEF RecoveryInv, Recovered
<1>2. MirrorForm(mirror')
  BY Zenon DEF CallInv
<1>3. /\ CallInv' /\ driver' /\ call' # "boot"
      /\ outer'.buffers = IF "timeout" # "status" THEN BuffersAfter(outer.buffers, Head(todo)) ELSE outer.buffers
  BY <1>1, <1>2, WarmResumes, Zenon
<1>4. outer'.buffers = mirror'.buffers /\ facade' = mirror'
  BY <1>1, <1>3, Zenon
<1>5. sup' \notin Boots
  BY <1>1, Zenon DEF Boots
<1>6. IdleInv'
  BY <1>3, <1>4, <1>5, Zenon DEF IdleInv
<1>7. SupInv'
  BY <1>1, <1>6, Zenon DEF SupInv
<1>8. QED
  BY <1>3, <1>7, Zenon

-------------------------------------------------------------------------------
(* Lanes                                                                       *)

\* What the active lane is to do may change: the invariant tells where the
\* threads are
LEMMA LanesAt ==
  ASSUME LanesInv, UNCHANGED <<jvm, active, staged, busy, loans>>,
         lane' = [g \in Generations |-> [at |-> lane'[g].at, queue |-> lane'[g].queue]],
         \A g \in Generations : lane'[g].at = lane[g].at /\ (g # active => lane'[g] = lane[g])
  PROVE  LanesInv'
<1>1. active \in Generations /\ \A g \in Generations : g \in Int
  BY IslandConstants DEF LanesInv, Generations
<1>2. \A g \in Generations : InSlot(g)' <=> InSlot(g)
  BY Zenon DEF InSlot
<1>3. \A g \in Generations : g # active => (Abandoned(g)' <=> Abandoned(g))
  BY <1>2, Zenon DEF Abandoned
<1>4. \A g \in Generations : (g < active => Abandoned(g)') /\ (g > active => lane'[g] = NoLane)
  <2>1. SUFFICES ASSUME NEW g \in Generations PROVE (g < active => Abandoned(g)') /\ (g > active => lane'[g] = NoLane)
    BY Zenon
  <2>2. (g < active => Abandoned(g)) /\ (g > active => lane[g] = NoLane)
    BY Zenon DEF LanesInv
  <2>3. (g < active \/ g > active) => g # active
    BY <1>1
  <2>4. QED
    BY <1>3, <2>2, <2>3, Zenon
<1>5. lane'[active].at = lane[active].at
  BY <1>1, Zenon
<1>6. (busy \in Generations => InSlot(busy)') /\ (InSlot(active)' => busy = active)
  BY <1>1, <1>2, Zenon DEF LanesInv
<1>7. QED
  BY <1>1, <1>4, <1>5, <1>6, Zenon DEF LanesInv

\* One lane is set, the others stay
LEMMA AtSet ==
  ASSUME LanesInv, NEW g \in Generations, NEW x, lane' = [lane EXCEPT ![g].at = x]
  PROVE  /\ lane' = [h \in Generations |-> [at |-> lane'[h].at, queue |-> lane'[h].queue]]
         /\ lane'[g].at = x /\ lane'[g].queue = lane[g].queue
         /\ \A h \in Generations : h # g => lane'[h] = lane[h]
<1>1. lane = [h \in Generations |-> [at |-> lane[h].at, queue |-> lane[h].queue]]
  BY Zenon DEF LanesInv
<1>2. \A h \in Generations : lane[h] = [at |-> lane[h].at, queue |-> lane[h].queue]
  BY <1>1, Zenon
<1>3. DOMAIN lane = Generations
  BY <1>1, Zenon
<1>4. lane' = [h \in Generations |-> IF h = g THEN [lane[g] EXCEPT !.at = x] ELSE lane[h]]
  BY <1>3, Zenon
<1>5. [lane[g] EXCEPT !.at = x] = [at |-> x, queue |-> lane[g].queue]
  <2>1. PICK l : l = lane[g] /\ l = [at |-> l.at, queue |-> l.queue]
    BY <1>2, Zenon
  <2>2. [l EXCEPT !.at = x] = [at |-> x, queue |-> l.queue]
    BY <2>1
  <2>3. QED
    BY <2>1, <2>2, Zenon
<1>6. lane'[g] = [at |-> x, queue |-> lane[g].queue] /\ \A h \in Generations : h # g => lane'[h] = lane[h]
  BY <1>4, <1>5, Zenon
<1>7. \A h \in Generations : lane'[h] = [at |-> lane'[h].at, queue |-> lane'[h].queue]
  BY <1>2, <1>6, Zenon
<1>8. lane' = [h \in Generations |-> lane'[h]]
  BY <1>4, Zenon
<1>9. lane'[g].at = x /\ lane'[g].queue = lane[g].queue
  BY <1>6
<1>10. lane' = [h \in Generations |-> [at |-> lane'[h].at, queue |-> lane'[h].queue]]
  BY <1>7, <1>8
<1>11. QED
  BY <1>6, <1>9, <1>10, Zenon

\* A request is sent down the lane of the active generation
LEMMA SendKeeps ==
  ASSUME LanesInv, lane[active].queue = <<>>, NEW r, Send(r), UNCHANGED <<jvm, active, staged, busy, loans>>
  PROVE  LanesInv' /\ lane'[active].queue = Job(r, TRUE) /\ lane'[active].at = lane[active].at
<1>1. lane = [h \in Generations |-> [at |-> lane[h].at, queue |-> lane[h].queue]] /\ active \in Generations
  BY Zenon DEF LanesInv
<1>2. \A h \in Generations : lane[h] = [at |-> lane[h].at, queue |-> lane[h].queue]
  BY <1>1, Zenon
<1>3. DOMAIN lane = Generations
  BY <1>1, Zenon
<1>4. Append(lane[active].queue, [request |-> r, awaited |-> TRUE]) = Job(r, TRUE)
  BY DEF Job
<1>5. lane' = [lane EXCEPT ![active].queue = Job(r, TRUE)]
  BY <1>4, Zenon DEF Send
<1>6. lane' = [h \in Generations |-> IF h = active THEN [lane[active] EXCEPT !.queue = Job(r, TRUE)] ELSE lane[h]]
  BY <1>3, <1>5, Zenon
<1>7. [lane[active] EXCEPT !.queue = Job(r, TRUE)] = [at |-> lane[active].at, queue |-> Job(r, TRUE)]
  <2>1. PICK l : l = lane[active] /\ l = [at |-> l.at, queue |-> l.queue]
    BY <1>1, <1>2, Zenon
  <2>2. \A q : [l EXCEPT !.queue = q] = [at |-> l.at, queue |-> q]
    BY <2>1
  <2>3. QED
    BY <2>1, <2>2, Zenon
<1>8. lane'[active] = [at |-> lane[active].at, queue |-> Job(r, TRUE)] /\ \A h \in Generations : h # active => lane'[h] = lane[h]
  BY <1>1, <1>6, <1>7, Zenon
<1>9. lane' = [h \in Generations |-> lane'[h]]
  BY <1>6, Zenon
<1>10. \A h \in Generations : lane'[h] = [at |-> lane'[h].at, queue |-> lane'[h].queue] /\ lane'[h].at = lane[h].at
  BY <1>2, <1>8
<1>11. lane' = [h \in Generations |-> [at |-> lane'[h].at, queue |-> lane'[h].queue]]
  BY <1>9, <1>10, Zenon
<1>12. \A h \in Generations : h # active => lane'[h] = lane[h]
  BY <1>8, Zenon
<1>13. LanesInv'
  BY <1>10, <1>11, <1>12, LanesAt, Zenon
<1>14. QED
  BY <1>1, <1>8, <1>10, <1>13

-------------------------------------------------------------------------------
(* Boot                                                                        *)

\* The call, its buffers and the mirror stay
LEMMA CallFrame ==
  ASSUME CallInv, UNCHANGED <<outer, driver, call, todo, jvm>>,
         UNCHANGED mirror \/ (driver /\ MirrorForm(mirror')),
         UNCHANGED <<sup, mirror, facade>> \/ (jvm = "ready" /\ sup' \notin Boots)
  PROVE  CallInv'
<1>1. ~ driver => mirror' = mirror
  BY Zenon
<1>2. OneQuery' <=> OneQuery
  BY Zenon DEF OneQuery
<1>3. ~ driver => (BootReplay' <=> BootReplay)
  BY <1>1, Zenon DEF BootReplay
<1>4. MirrorForm(outer') /\ MirrorForm(mirror')
  BY Zenon DEF CallInv
<1>5. jvm' = "absent" \/ sup' \in Boots => mirror' = EmptyMirror /\ facade' = EmptyMirror
  <2>1. CASE UNCHANGED <<sup, mirror, facade>>
    BY <2>1, Zenon DEF CallInv
  <2>2. CASE jvm = "ready" /\ sup' \notin Boots
    BY <2>2, Zenon
  <2>3. QED
    BY <2>1, <2>2, Zenon
<1>6. QED
  BY <1>2, <1>3, <1>4, <1>5, Zenon DEF CallInv

LEMMA CreateKeeps ==
  ASSUME InStep, create_java_vm
  PROVE  InStep'
<1>0. LanesInv /\ CallInv /\ SupInv /\ sup = "idle" /\ call = "boot" /\ ~ driver /\ Len(todo) = 1
  BY Zenon DEF InStep, create_java_vm, Booting
<1>1. IdleInv
  BY <1>0, Zenon DEF SupInv
<1>2. OneQuery
  BY <1>0 DEF CallInv
<1>3. CASE UNCHANGED jvm /\ \E why : FailBoot(why)
  <2>1. call' = None /\ todo' = <<>> /\ UNCHANGED <<outer, driver, supVars, active, laneVars, facade>>
    BY <1>3, Zenon DEF FailBoot
  <2>2. UNCHANGED <<sup, reply, mirror, lane, active, facade, staged, busy, loans>>
    BY <2>1, Zenon DEF supVars, laneVars
  <2>3. LanesInv'
    BY <1>0, <1>3, <2>2, LanesFrame, Zenon
  <2>4. CallInv'
    <3>1. MirrorForm(outer') /\ MirrorForm(mirror') /\ driver' \in BOOLEAN /\ ~ driver'
      BY <1>0, <2>1, <2>2, Zenon DEF CallInv
    <3>2. jvm' = "absent" \/ sup' \in Boots => mirror' = EmptyMirror /\ facade' = EmptyMirror
      BY <1>0, <1>3, <2>2, Zenon DEF CallInv
    <3>3. None # "boot"
      BY Zenon DEF None
    <3>4. QED
      BY <2>1, <3>1, <3>2, <3>3, Zenon DEF CallInv
  <2>5. IdleInv' /\ sup' = "idle"
    <3>1. Free'
      BY <1>1, <2>2, Zenon DEF IdleInv, Free
    <3>2. sup' \notin Boots /\ sup' = "idle" /\ ~ driver' /\ facade' = mirror'
      BY <1>0, <1>1, <2>1, <2>2, Zenon DEF IdleInv, Boots
    <3>3. QED
      BY <3>1, <3>2, Zenon DEF IdleInv
  <2>6. SupInv'
    BY <2>5, Zenon DEF SupInv
  <2>7. QED
    BY <2>3, <2>4, <2>6, Zenon DEF InStep
<1>4. CASE /\ jvm = "absent" /\ jvm' = "premain" /\ sup' = "creating"
           /\ UNCHANGED <<serviceVars, reply, mirror, active, laneVars, facade>>
  <2>1. UNCHANGED <<outer, driver, call, todo, reply, mirror, lane, active, facade, staged, busy, loans>>
    BY <1>4, Zenon DEF serviceVars, laneVars
  <2>2. LanesInv'
    <3>1. \A g : (InSlot(g)' <=> InSlot(g)) /\ (Abandoned(g)' <=> Abandoned(g))
      BY <2>1, Zenon DEF InSlot, Abandoned
    <3>2. jvm # "ready" /\ jvm' # "ready" /\ jvm' # "registered"
      BY <1>4, Zenon
    <3>3. QED
      BY <1>0, <2>1, <3>1, <3>2, Zenon DEF LanesInv
  <2>3. OneQuery'
    BY <1>2, <2>1, Zenon DEF OneQuery
  <2>4. mirror = EmptyMirror /\ facade = EmptyMirror
    BY <1>0, <1>4, Zenon DEF CallInv
  <2>5. CallInv'
    <3>1. MirrorForm(outer') /\ MirrorForm(mirror') /\ driver' \in BOOLEAN /\ ~ driver' /\ call' = "boot"
      BY <1>0, <2>1, Zenon DEF CallInv
    <3>2. call' # None /\ todo' # <<>>
      BY <2>3, <3>1, Zenon DEF None, OneQuery
    <3>3. QED
      BY <2>1, <2>3, <2>4, <3>1, <3>2, Zenon DEF CallInv
  <2>6. IdleInv'
    <3>1. Free' /\ Booting'
      BY <1>0, <1>1, <2>1, Zenon DEF IdleInv, Free, Booting
    <3>2. ~ driver'
      BY <1>0, <2>1, Zenon
    <3>3. QED
      BY <2>1, <2>3, <2>4, <3>1, <3>2, Zenon DEF IdleInv
  <2>7. SupInv'
    BY <1>4, <2>6, Zenon DEF SupInv
  <2>8. QED
    BY <2>2, <2>5, <2>7, Zenon DEF InStep
<1>5. QED
  BY <1>3, <1>4, Zenon DEF create_java_vm

\* A premain that registers, or is refused, or loans its thread
LEMMA PremainKeeps ==
  ASSUME InStep, register_pc_vtable \/ dispatch_loop
  PROVE  InStep'
<1>0. LanesInv /\ CallInv /\ SupInv
  BY Zenon DEF InStep
<1>1. jvm \in {"premain", "registered"} /\ jvm' \in {"registered", "refused", "silent", "ready"}
  BY Zenon DEF register_pc_vtable, dispatch_loop
<1>2. UNCHANGED <<serviceVars, supVars, active, busy, lane, facade>>
  BY Zenon DEF register_pc_vtable, dispatch_loop
<1>3. UNCHANGED <<outer, driver, call, todo, sup, reply, mirror, replays, active, busy, lane, facade>>
  BY <1>2, Zenon DEF serviceVars, supVars
<1>4. jvm # "ready" /\ jvm # "absent" /\ jvm' # "absent"
  BY <1>1, Zenon
<1>5. active = 0 /\ loans = 0 /\ lane[active].at = "none"
  BY <1>0, <1>4, Zenon DEF LanesInv
<1>6. ~ driver /\ (call = "boot" => OneQuery)
  BY <1>0, <1>4, Zenon DEF CallInv
<1>7. OneQuery' <=> OneQuery
  BY <1>3, Zenon DEF OneQuery
<1>8. LanesInv'
  <2>1. \A g : (InSlot(g)' <=> InSlot(g)) /\ (Abandoned(g)' <=> Abandoned(g))
    BY <1>3, Zenon DEF InSlot, Abandoned
  <2>2. CASE register_pc_vtable
    <3>1. (jvm' = "registered" /\ staged' = active) \/ (jvm' \in {"refused", "silent"} /\ staged' = staged)
      BY <1>5, <2>2, Zenon DEF register_pc_vtable
    <3>2. loans' = loans
      BY <2>2, Zenon DEF register_pc_vtable
    <3>3. QED
      BY <1>0, <1>3, <1>5, <2>1, <3>1, <3>2, Zenon DEF LanesInv
  <2>3. CASE dispatch_loop
    <3>1. jvm = "registered" /\ jvm' = "ready" /\ staged' = staged /\ loans' = 1
      BY <2>3, Zenon DEF dispatch_loop
    <3>2. QED
      BY <1>0, <1>3, <1>5, <2>1, <3>1 DEF LanesInv
  <2>4. QED
    BY <2>2, <2>3, Zenon
<1>9. CallInv'
  <2>1. MirrorForm(outer') /\ MirrorForm(mirror') /\ driver' \in BOOLEAN /\ ~ driver'
    BY <1>0, <1>3, <1>6, Zenon DEF CallInv
  <2>2. sup' \in Boots => mirror' = EmptyMirror /\ facade' = EmptyMirror
    BY <1>0, <1>3, Zenon DEF CallInv
  <2>3. call' \in {None, "boot"} /\ (call' = None <=> todo' = <<>>) /\ (call' = "boot" => OneQuery')
    BY <1>0, <1>3, <1>6, <1>7, Zenon DEF CallInv
  <2>4. QED
    BY <1>4, <2>1, <2>2, <2>3, Zenon DEF CallInv
<1>10. sup \in {"idle", "creating", "rendezvous"} /\ IdleInv
  BY <1>0, <1>4, <1>6, Zenon DEF SupInv, WaitingInv, RecoveryInv
<1>11. IdleInv'
  BY <1>3, <1>7, <1>10, Zenon DEF IdleInv, Free, Booting
<1>12. SupInv'
  BY <1>3, <1>10, <1>11, Zenon DEF SupInv
<1>13. QED
  BY <1>8, <1>9, <1>12, Zenon DEF InStep

\* The caller goes on to the rendezvous when the premain returns
LEMMA PremainReturned ==
  ASSUME InStep, premain_returns
  PROVE  InStep'
<1>0. LanesInv /\ CallInv /\ SupInv /\ sup = "creating" /\ sup' = "rendezvous"
  BY Zenon DEF InStep, premain_returns
<1>1. UNCHANGED <<outer, driver, call, todo, jvm, reply, mirror, active, staged, busy, lane, loans, facade>>
  BY Zenon DEF premain_returns, serviceVars, laneVars
<1>2. sup \in Boots /\ sup' \in Boots /\ IdleInv
  BY <1>0, Zenon DEF Boots, SupInv
<1>3. LanesInv'
  BY <1>0, <1>1, LanesFrame, Zenon
<1>4. (OneQuery' <=> OneQuery) /\ (BootReplay' <=> BootReplay) /\ (Booting' <=> Booting)
  BY <1>1, Zenon DEF OneQuery, BootReplay, Booting
<1>5. CallInv'
  BY <1>0, <1>1, <1>2, <1>4, Zenon DEF CallInv
<1>6. IdleInv'
  BY <1>1, <1>2, <1>4, Zenon DEF IdleInv, Free
<1>7. SupInv'
  BY <1>0, <1>6, Zenon DEF SupInv
<1>8. QED
  BY <1>3, <1>5, <1>7, Zenon DEF InStep

\* The boot has the targets and the mirrored buffers to replay before its query,
\* or gives up
LEMMA RendezvousKeeps ==
  ASSUME InStep, wait_for_registration
  PROVE  InStep'
<1>0. LanesInv /\ CallInv /\ SupInv /\ sup = "rendezvous" /\ sup' = "idle"
  BY Zenon DEF InStep, wait_for_registration
<1>1. IdleInv /\ call = "boot" /\ ~ driver /\ Len(todo) = 1 /\ OneQuery
  BY <1>0, Zenon DEF SupInv, IdleInv, Booting, Boots
<1>2. mirror = EmptyMirror /\ facade = EmptyMirror /\ MirrorForm(outer) /\ MirrorForm(mirror)
  BY <1>0, Zenon DEF CallInv, Boots
<1>3. UNCHANGED <<outer, jvm, reply, mirror, lane, active, facade, staged, busy, loans>>
  BY Zenon DEF wait_for_registration, laneVars
<1>4. LanesInv'
  BY <1>0, <1>3, LanesFrame, Zenon
<1>5. MirrorForm(outer') /\ MirrorForm(mirror') /\ None # "boot" /\ sup' \notin Boots
  BY <1>0, <1>2, <1>3, Zenon DEF None, Boots
<1>6. Free' /\ facade' = mirror'
  BY <1>1, <1>3, Zenon DEF IdleInv, Free
<1>7. CASE jvm # "ready"
  <2>1. call' = None /\ todo' = <<>> /\ driver' = driver
    BY <1>7, Zenon DEF wait_for_registration
  <2>2. CallInv'
    BY <1>0, <1>1, <1>2, <1>3, <1>5, <2>1, Zenon DEF CallInv
  <2>3. IdleInv'
    BY <1>1, <1>5, <1>6, <2>1, Zenon DEF IdleInv
  <2>4. SupInv'
    BY <1>0, <2>3, Zenon DEF SupInv
  <2>5. QED
    BY <1>4, <2>2, <2>4, Zenon DEF InStep
<1>8. CASE jvm = "ready"
  <2>1. PICK rs : rs = replay_requests(outer)
    BY Zenon
  <2>2. todo' = rs \o todo /\ driver' = (Len(todo') = 1) /\ call' = call
    BY <1>8, <2>1, Zenon DEF wait_for_registration
  <2>3. /\ rs \in Seq(ReplaySet(outer))
        /\ \A u \in DOMAIN outer.buffers : \E i \in 1 .. Len(rs) : rs[i] = Reopen(outer.buffers, u)
    BY <1>2, <2>1, ReplayOpensAll, Zenon
  <2>4. PICK q : todo = <<q>> /\ q.op = "query"
    BY <1>1, Zenon DEF OneQuery
  <2>5. PICK t : t = rs \o <<q>>
    BY Zenon
  <2>6. Len(rs) \in Nat /\ t \in Seq(ReplaySet(outer) \cup {q}) /\ Len(t) = Len(rs) + 1 /\ t[Len(t)] = q
        /\ \A i \in 1 .. Len(rs) : t[i] = rs[i]
    BY <2>3, <2>5
  <2>7. t # <<>> /\ Len(t) - 1 = Len(rs)
    BY <2>6
  <2>8. \A i \in 1 .. Len(rs) : rs[i] \in ReplaySet(outer)
    BY <2>3
  <2>9. DOMAIN mirror.buffers = {}
    BY <1>2 DEF EmptyMirror
  <2>10. ReplayLeft(t, outer, mirror)
    <3>1. \A u \in DOMAIN outer.buffers \ DOMAIN mirror.buffers : \E i \in 1 .. Len(t) - 1 : t[i] = Reopen(outer.buffers, u)
      BY <2>3, <2>6, <2>7, Zenon
    <3>2. \A u \in DOMAIN mirror.buffers : u \in DOMAIN outer.buffers /\ mirror.buffers[u] = outer.buffers[u]
      BY <2>9, Zenon
    <3>3. \A i \in 1 .. Len(t) - 1 : t[i] \in ReplaySet(outer)
      BY <2>6, <2>7, <2>8, Zenon
    <3>4. QED
      BY <2>4, <2>6, <2>7, <3>1, <3>2, <3>3, Zenon DEF ReplayLeft
  <2>11. todo' = t /\ BootReplay'
    BY <1>3, <2>2, <2>4, <2>5, <2>10, Zenon DEF BootReplay
  <2>12. driver' \in BOOLEAN /\ (driver' => Len(t) = 1) /\ (~ driver' => Len(t) > 1)
    <3>1. driver' \in BOOLEAN /\ (driver' <=> Len(t) = 1)
      BY <2>2, <2>11, Zenon
    <3>2. Len(t) # 1 => Len(t) > 1
      BY <2>6
    <3>3. QED
      BY <3>1, <3>2, Zenon
  <2>13. Len(t) = 1 => OneQuery' /\ outer.buffers = mirror.buffers
    BY <1>2, <2>7, <2>10, <2>11, ReplayOver, Zenon DEF OneQuery
  <2>14. CallInv'
    <3>1. call' = "boot" /\ call' # None /\ todo' # <<>> /\ jvm' = "ready" /\ jvm' # "absent"
      BY <1>1, <1>3, <1>5, <1>8, <2>2, <2>7, <2>11, Zenon
    <3>2. ~ driver' => Len(todo') > 1
      BY <2>11, <2>12, Zenon
    <3>3. driver' => OneQuery'
      BY <2>12, <2>13, Zenon
    <3>4. QED
      BY <1>5, <2>11, <2>12, <3>1, <3>2, <3>3, Zenon DEF CallInv
  <2>15. IdleInv'
    BY <1>1, <1>3, <1>5, <1>6, <2>2, <2>12, <2>13, Zenon DEF IdleInv
  <2>16. SupInv'
    BY <1>0, <2>15 DEF SupInv
  <2>17. QED
    BY <1>4, <2>14, <2>16, Zenon DEF InStep
<1>9. QED
  BY <1>7, <1>8, Zenon

-------------------------------------------------------------------------------
(* The request of a call                                                       *)

LEMMA RequestKeeps ==
  ASSUME InStep, request
  PROVE  InStep'
<1>0. LanesInv /\ CallInv /\ SupInv /\ sup = "idle" /\ sup' = "waiting" /\ todo # <<>> /\ (Booting => driver) /\ Send(Head(todo))
  BY Zenon DEF InStep, request
<1>1. IdleInv /\ Free
  BY <1>0, Zenon DEF SupInv, IdleInv
<1>2. UNCHANGED <<outer, driver, call, todo, jvm, reply, mirror, active, facade, staged, busy, loans>>
  BY Zenon DEF request, serviceVars
<1>3. LanesInv' /\ lane'[active].queue = Job(Head(todo), TRUE) /\ lane'[active].at = lane[active].at
  BY <1>0, <1>1, <1>2, SendKeeps, Zenon DEF Free
<1>4. ~ driver => BootReplay /\ Len(todo) > 1 /\ call = "boot" /\ ~ OneQuery
  <2>1. SUFFICES ASSUME ~ driver PROVE BootReplay /\ Len(todo) > 1 /\ call = "boot" /\ ~ OneQuery
    BY Zenon
  <2>2. call = "boot"
    BY <1>0, <2>1, Zenon DEF CallInv
  <2>3. Len(todo) # 1
    BY <1>0, <2>1, <2>2, Zenon DEF Booting
  <2>4. ~ OneQuery
    <3>1. \A x : Len(<<x>>) = 1
      BY Zenon
    <3>2. QED
      BY <2>3, <3>1, Zenon DEF OneQuery
  <2>5. QED
    BY <1>0, <2>1, <2>2, <2>4, Zenon DEF CallInv
<1>5. jvm = "ready"
  BY <1>0, <1>4, Zenon DEF CallInv
<1>6. CallInv'
  <2>1. sup' \notin Boots
    BY <1>0, Zenon DEF Boots
  <2>2. QED
    BY <1>0, <1>2, <1>5, <2>1, CallFrame, Zenon
<1>7. WaitingInv'
  <2>1. lane[active].at # "gone" /\ lane[active].at # "running" /\ reply = None /\ facade = mirror
        /\ (driver => outer.buffers = mirror.buffers)
    BY <1>1, Zenon DEF Free, IdleInv
  <2>2. Asked(Head(todo))'
    BY <1>2, <1>3, <2>1, Zenon DEF Asked
  <2>3. facade' = IF lane'[active'].at = "running" THEN observe(mirror', Head(todo')) ELSE mirror'
    BY <1>2, <1>3, <2>1, Zenon
  <2>4. ~ driver' => BootReplay' /\ Len(todo') > 1
    BY <1>2, <1>4, Zenon DEF BootReplay
  <2>5. QED
    BY <1>0, <1>2, <1>5, <2>1, <2>2, <2>3, <2>4, Zenon DEF WaitingInv
<1>8. SupInv'
  BY <1>0, <1>7, Zenon DEF SupInv
<1>9. QED
  BY <1>3, <1>6, <1>8, Zenon DEF InStep

\* An outcome in time, in a booted island and during the boot
LEMMA ReplyKeeps ==
  ASSUME InStep, reply_in_time
  PROVE  InStep'
<1>0. LanesInv /\ CallInv /\ SupInv /\ sup = "waiting" /\ reply # None /\ sup' = "idle" /\ reply' = None /\ Resume(reply)
  BY Zenon DEF InStep, reply_in_time
<1>1. WaitingInv
  BY <1>0, Zenon DEF SupInv
<1>2. UNCHANGED <<jvm, active, facade, staged, busy, lane, loans>>
  BY Zenon DEF reply_in_time, laneVars
<1>3. Replied /\ facade = (IF reply = "done" THEN observe(mirror, Head(todo)) ELSE mirror)
  BY <1>0, <1>1, Zenon DEF WaitingInv, Asked
<1>4. mirror' = facade
  BY <1>3, Zenon DEF reply_in_time
<1>5. MirrorForm(mirror) /\ MirrorForm(outer) /\ MirrorForm(mirror') /\ todo # <<>> /\ jvm = "ready"
  <2>1. MirrorForm(mirror) /\ MirrorForm(outer) /\ todo # <<>> /\ jvm = "ready"
    BY <1>0, <1>1, Zenon DEF CallInv, WaitingInv
  <2>2. QED
    BY <1>3, <1>4, <2>1, ObserveForm, Zenon
<1>6. LanesInv'
  BY <1>0, <1>2, LanesFrame, Zenon
<1>7. Free' /\ facade' = mirror' /\ lane'[active'].at = "idle" /\ sup' \notin Boots
  <2>1. sup' \notin Boots /\ lane[active].at \in {"none", "idle"}
    BY <1>0, <1>3, Zenon DEF Replied, Boots
  <2>2. QED
    BY <1>0, <1>2, <1>3, <1>4, <2>1, Zenon DEF Replied, Free
<1>8. reply = "done" \/ reply = "status"
  BY <1>3, Zenon DEF Replied
<1>9. SUFFICES CallInv' /\ (driver' => outer'.buffers = mirror'.buffers)
  <2>1. ASSUME CallInv', driver' => outer'.buffers = mirror'.buffers PROVE InStep'
    <3>1. IdleInv'
      BY <1>7, <2>1, Zenon DEF IdleInv
    <3>2. SupInv'
      BY <1>0, <3>1, Zenon DEF SupInv
    <3>3. QED
      BY <1>6, <2>1, <3>2, Zenon DEF InStep
  <2>2. QED
    BY <2>1, Zenon
<1>10. CASE driver
  <2>1. CallInv' /\ outer'.buffers = IF reply # "status" THEN BuffersAfter(outer.buffers, Head(todo)) ELSE outer.buffers
    BY <1>0, <1>2, <1>5, <1>10, WarmResumes, Zenon
  <2>2. outer.buffers = mirror.buffers
    BY <1>1, <1>10, Zenon DEF WaitingInv
  <2>3. CASE reply = "done"
    <3>1. mirror'.buffers = BuffersAfter(mirror.buffers, Head(todo))
      BY <1>3, <1>4, <1>5, <2>3, ObserveForm, Zenon
    <3>2. reply # "status"
      BY <2>3, Zenon
    <3>3. QED
      BY <2>1, <2>2, <3>1, <3>2, Zenon
  <2>4. CASE reply = "status"
    <3>1. reply # "done"
      BY <2>4, Zenon
    <3>2. mirror' = mirror
      BY <1>3, <1>4, <3>1, Zenon
    <3>3. QED
      BY <2>1, <2>2, <2>4, <3>2, Zenon
  <2>5. QED
    BY <1>8, <2>3, <2>4, Zenon
<1>11. CASE ~ driver
  <2>1. ReplayLeft(todo, outer, mirror) /\ Len(todo) > 1 /\ call = "boot" /\ driver \in BOOLEAN
    BY <1>0, <1>1, <1>5, <1>11, Zenon DEF CallInv, WaitingInv, BootReplay
  <2>2. Head(todo).op \in {"register", "open"}
    BY <2>1, ReplayHead, Zenon
  <2>3. outer' = outer
    BY <1>0, <2>1, Zenon DEF Resume
  <2>4. jvm' # "absent" /\ None # "boot" /\ MirrorForm(outer') /\ MirrorForm(mirror')
    BY <1>2, <1>5, <2>3, Zenon DEF None
  <2>5. CASE reply = "status"
    <3>1. todo' = <<>> /\ call' = None
      BY <1>0, <2>1, <2>2, <2>5, Zenon DEF Resume
    <3>2. driver' = (driver \/ (call = "boot" /\ Len(todo') = 1))
      BY <1>0, Zenon DEF Resume
    <3>3. Len(todo') # 1
      BY <3>1
    <3>4. driver' \in BOOLEAN /\ ~ driver'
      BY <1>11, <3>2, <3>3, Zenon
    <3>5. QED
      BY <1>7, <2>4, <3>1, <3>4, Zenon DEF CallInv
  <2>6. CASE reply = "done"
    <3>1. reply # "status"
      BY <2>6
    <3>2. todo' = Tail(todo) /\ driver' = (driver \/ (call = "boot" /\ Len(todo') = 1))
          /\ call' = (IF todo' = <<>> THEN None ELSE call)
      BY <1>0, <3>1, Zenon DEF Resume
    <3>3. ReplayLeft(todo', outer', mirror')
      BY <1>3, <1>4, <1>5, <2>1, <2>3, <2>6, <3>2, ReplayShifts, Zenon
    <3>4. todo' # <<>> /\ call' = "boot" /\ Len(todo') \in Nat /\ Len(todo') # 0
      <4>1. todo' # <<>>
        BY <3>3, Zenon DEF ReplayLeft
      <4>2. PICK S : todo' \in Seq(S)
        BY <3>3, Zenon DEF ReplayLeft
      <4>3. QED
        BY <2>1, <3>2, <4>1, <4>2
    <3>5. driver' \in BOOLEAN /\ (driver' <=> Len(todo') = 1)
      BY <1>11, <2>1, <3>2, Zenon
    <3>6. Len(todo') = 1 => OneQuery' /\ outer'.buffers = mirror'.buffers
      BY <1>5, <2>4, <3>3, <3>4, ReplayOver, Zenon DEF OneQuery
    <3>7. Len(todo') # 1 => Len(todo') > 1
      <4>1. \A n \in Nat : n # 0 /\ n # 1 => n > 1
        OBVIOUS
      <4>2. QED
        BY <3>4, <4>1, Zenon
    <3>8. BootReplay'
      BY <3>3, Zenon DEF BootReplay
    <3>9. CallInv'
      <4>1. jvm' = "ready"
        BY <1>2, <1>5, Zenon
      <4>2. QED
        BY <1>7, <2>4, <3>4, <3>5, <3>6, <3>7, <3>8, <4>1, Zenon DEF CallInv
    <3>10. QED
      BY <3>5, <3>6, <3>9, Zenon
  <2>7. QED
    BY <1>8, <2>5, <2>6, Zenon
<1>12. QED
  BY <1>10, <1>11, Zenon

-------------------------------------------------------------------------------
(* Recovery                                                                    *)

\* Giving up leaves the jobs where they are, with nobody waiting for them
LEMMA GivenUp ==
  ASSUME LanesInv, lane' = GiveUp
  PROVE  /\ lane' = [g \in Generations |-> [at |-> lane'[g].at, queue |-> lane'[g].queue]]
         /\ \A g \in Generations :
               /\ lane'[g].at = lane[g].at
               /\ lane[g].queue = <<>> => lane'[g].queue = <<>>
               /\ \A r, w : lane[g].queue = Job(r, w) => lane'[g].queue = Job(r, FALSE)
<1>1. \A g \in Generations : lane[g] = [at |-> lane[g].at, queue |-> lane[g].queue]
  <2>1. lane = [h \in Generations |-> [at |-> lane[h].at, queue |-> lane[h].queue]]
    BY Zenon DEF LanesInv
  <2>2. QED
    BY <2>1, Zenon
<1> DEFINE Left(q) == [i \in DOMAIN q |-> [q[i] EXCEPT !.awaited = FALSE]]
<1>2. lane' = [g \in Generations |-> [lane[g] EXCEPT !.queue = Left(lane[g].queue)]]
  BY Zenon DEF GiveUp
<1>3. Left(<<>>) = <<>>
  OBVIOUS
<1>4. ASSUME NEW r, NEW w PROVE Left(Job(r, w)) = Job(r, FALSE)
  <2>1. PICK j : j = [request |-> r, awaited |-> w]
    BY Zenon
  <2>a. \A f : [j EXCEPT !.awaited = f] = [request |-> r, awaited |-> f]
    BY <2>1
  <2>2. [j EXCEPT !.awaited = FALSE] = [request |-> r, awaited |-> FALSE]
    BY <2>a, Zenon
  <2>3. PICK k : k = [j EXCEPT !.awaited = FALSE]
    BY Zenon
  <2>4. Job(r, w) = <<j>> /\ Job(r, FALSE) = <<k>>
    BY <2>1, <2>2, <2>3, Zenon DEF Job
  <2>5. DOMAIN <<j>> = 1 .. 1 /\ <<j>>[1] = j
    OBVIOUS
  <2>6. Left(<<j>>) = <<k>>
    <3>a. \A i \in 1 .. 1 : <<j>>[i] = j
      OBVIOUS
    <3>b. \A i \in 1 .. 1 : [<<j>>[i] EXCEPT !.awaited = FALSE] = k
      BY <2>3, <3>a, Zenon
    <3>1. Left(<<j>>) = [i \in 1 .. 1 |-> k]
      BY <2>5, <3>b, Zenon
    <3>2. [i \in 1 .. 1 |-> k] = <<k>>
      OBVIOUS
    <3>3. QED
      BY <3>1, <3>2, Zenon
  <2>7. QED
    BY <2>4, <2>6, Zenon
<1>5. ASSUME NEW g \in Generations
      PROVE  lane'[g] = [at |-> lane[g].at, queue |-> Left(lane[g].queue)]
  <2>1. PICK l : l = lane[g] /\ l = [at |-> l.at, queue |-> l.queue]
    BY <1>1, Zenon
  <2>2. \A q : [l EXCEPT !.queue = q] = [at |-> l.at, queue |-> q]
    BY <2>1
  <2>3. lane'[g] = [lane[g] EXCEPT !.queue = Left(lane[g].queue)]
    BY <1>2, Zenon
  <2>4. QED
    BY <2>1, <2>2, <2>3, Zenon
<1>6. \A g \in Generations : lane'[g].at = lane[g].at /\ lane'[g].queue = Left(lane[g].queue)
  <2>1. SUFFICES ASSUME NEW g \in Generations PROVE lane'[g].at = lane[g].at /\ lane'[g].queue = Left(lane[g].queue)
    BY Zenon
  <2>2. PICK q : q = Left(lane[g].queue)
    BY Zenon
  <2>3. lane'[g] = [at |-> lane[g].at, queue |-> q]
    BY <1>5, <2>2, Zenon
  <2>4. QED
    BY <2>2, <2>3
<1>7. lane' = [g \in Generations |-> [at |-> lane[g].at, queue |-> Left(lane[g].queue)]]
  <2>1. lane' = [g \in Generations |-> lane'[g]]
    BY <1>2, Zenon
  <2>2. QED
    BY <1>5, <2>1, Zenon
<1> HIDE DEF Left
<1>8. lane' = [g \in Generations |-> [at |-> lane'[g].at, queue |-> lane'[g].queue]]
  BY <1>6, <1>7, Zenon
<1>9. \A g \in Generations : lane[g].queue = <<>> => lane'[g].queue = <<>>
  BY <1>3, <1>6, Zenon
<1>10. \A g \in Generations : \A r, w : lane[g].queue = Job(r, w) => lane'[g].queue = Job(r, FALSE)
  <2>1. SUFFICES ASSUME NEW g \in Generations, NEW r, NEW w, lane[g].queue = Job(r, w)
                 PROVE  lane'[g].queue = Job(r, FALSE)
    BY Zenon
  <2>2. Left(Job(r, w)) = Job(r, FALSE)
    BY <1>4, Zenon
  <2>3. QED
    BY <1>6, <2>1, <2>2, Zenon
<1>11. QED
  BY <1>6, <1>8, <1>9, <1>10, Zenon

\* A request that overruns its deadline is in the compiler: the mirror has it, and
\* so has the compiler, or it is a query
LEMMA OverrunKeeps ==
  ASSUME InStep, overrun
  PROVE  InStep'
<1>0. /\ LanesInv /\ CallInv /\ SupInv /\ sup = "waiting" /\ Overrun /\ reply = None
      /\ lane' = GiveUp /\ mirror' = observe(mirror, Head(todo)) /\ sup' = "restarting"
  BY Zenon DEF InStep, overrun, Overrun
<1>1. WaitingInv
  BY <1>0, Zenon DEF SupInv
<1>2. UNCHANGED <<outer, driver, call, todo, jvm, reply, active, facade, staged, busy, loans>>
  BY Zenon DEF overrun, serviceVars
<1>3. PICK r : r = Head(todo)
  BY Zenon
<1>4. lane[active].queue = Job(r, TRUE) /\ lane[active].at # "gone"
      /\ facade = IF lane[active].at = "running" THEN observe(mirror, r) ELSE mirror
  <2>1. ~ Replied
    BY <1>0, Zenon DEF Replied, None
  <2>2. QED
    BY <1>1, <1>3, <2>1, Zenon DEF WaitingInv, Asked
<1>5. jvm = "ready" /\ active \in Generations /\ todo # <<>>
  BY <1>0, <1>1, Zenon DEF WaitingInv, LanesInv
<1>6. \/ lane[active].at = "running" /\ r.op \in {"query", "close"}
      \/ lane[active].at = "refusing" /\ r.op = "query"
  <2>1. \A x : Len(<<x>>) = 1 /\ Head(<<x>>) = x
    OBVIOUS
  <2>2. Len(lane[active].queue) = 1 /\ Head(lane[active].queue) = [request |-> r, awaited |-> TRUE]
    BY <1>4, <2>1, Zenon DEF Job
  <2>3. Head(lane[active].queue).request = r
    BY <2>2
  <2>4. ~ (Len(lane[active].queue) > 1)
    BY <2>2
  <2>5. lane[active].at = "none" => staged = active /\ loans > 0
    BY <1>0, <1>5, Zenon DEF LanesInv
  <2>6. InCompiler(active)
    BY <1>0, <2>4, <2>5, Zenon DEF Overrun
  <2>7. QED
    BY <2>3, <2>6, Zenon DEF InCompiler
<1>7. driver /\ outer.buffers = mirror.buffers
  <2>1. SUFFICES ASSUME ~ driver PROVE FALSE
    BY <1>1, Zenon DEF WaitingInv
  <2>2. r.op \in {"register", "open"}
    BY <1>1, <1>3, <2>1, ReplayHead, Zenon DEF WaitingInv, BootReplay
  <2>3. QED
    BY <1>6, <2>2, Zenon
<1>8. MirrorForm(mirror) /\ MirrorForm(mirror') /\ mirror'.buffers = BuffersAfter(mirror.buffers, r)
  BY <1>0, <1>3, ObserveForm, Zenon DEF CallInv
<1>9. facade = mirror'
  <2>1. CASE lane[active].at = "running"
    BY <1>0, <1>3, <1>4, <2>1, Zenon
  <2>2. CASE lane[active].at = "refusing" /\ r.op = "query"
    <3>1. lane[active].at # "running"
      BY <2>2, Zenon
    <3>2. observe(mirror, r) = mirror
      BY <1>8, <2>2, QueryChangesNothing, Zenon
    <3>3. QED
      BY <1>0, <1>3, <1>4, <3>1, <3>2, Zenon
  <2>3. QED
    BY <1>6, <2>1, <2>2, Zenon
<1>10. /\ lane' = [g \in Generations |-> [at |-> lane'[g].at, queue |-> lane'[g].queue]]
       /\ \A g \in Generations :
             /\ lane'[g].at = lane[g].at
             /\ lane[g].queue = <<>> => lane'[g].queue = <<>>
             /\ \A q, w : lane[g].queue = Job(q, w) => lane'[g].queue = Job(q, FALSE)
  BY <1>0, GivenUp, Zenon
<1>11. \A g \in Generations : g # active => lane'[g] = lane[g]
  <2>1. SUFFICES ASSUME NEW g \in Generations, g # active PROVE lane'[g] = lane[g]
    BY Zenon
  <2>2. g < active \/ g > active
    BY <1>5, <2>1, IslandConstants DEF Generations
  <2>3. lane'[g].queue = lane[g].queue
    <3>1. CASE g < active
      <4>1. lane[g].queue = <<>> \/ \E q : lane[g].queue = Job(q, FALSE)
        BY <1>0, <3>1, Zenon DEF LanesInv, Abandoned
      <4>2. QED
        BY <1>10, <4>1, Zenon
    <3>2. CASE g > active
      <4>1. lane[g] = NoLane
        BY <1>0, <3>2, Zenon DEF LanesInv
      <4>2. lane[g].queue = <<>>
        BY <4>1 DEF NoLane
      <4>3. QED
        BY <1>10, <4>2, Zenon
    <3>3. QED
      BY <2>2, <3>1, <3>2, Zenon
  <2>4. lane[g] = [at |-> lane[g].at, queue |-> lane[g].queue]
    <3>1. lane = [h \in Generations |-> [at |-> lane[h].at, queue |-> lane[h].queue]]
      BY <1>0, Zenon DEF LanesInv
    <3>2. QED
      BY <3>1, Zenon
  <2>5. lane'[g] = [at |-> lane'[g].at, queue |-> lane'[g].queue]
    BY <1>10, Zenon
  <2>6. QED
    BY <1>10, <2>3, <2>4, <2>5, Zenon
<1>12. LanesInv'
  BY <1>0, <1>2, <1>10, <1>11, LanesAt, Zenon
<1>13. CallInv'
  <2>1. sup' \notin Boots
    BY <1>0, Zenon DEF Boots
  <2>2. QED
    BY <1>0, <1>2, <1>5, <1>7, <1>8, <2>1, CallFrame, Zenon
<1>14. RecoveryInv'
  <2>1. BuffersAfter(outer', Head(todo')) = BuffersAfter(outer', r) /\ BuffersAfter(outer'.buffers, Head(todo')) = mirror'.buffers
    BY <1>2, <1>3, <1>7, <1>8, Zenon
  <2>2. Head(todo').op \in {"query", "close"}
    BY <1>2, <1>3, <1>6, Zenon
  <2>3. QED
    BY <1>2, <1>5, <1>7, <1>9, <2>1, <2>2, Zenon DEF RecoveryInv
<1>15. Abandoned(active)' /\ lane'[active'].at # "gone" /\ reply' = None
  <2>1. lane'[active'].queue = Job(r, FALSE) /\ lane'[active'].at = lane[active].at
    BY <1>2, <1>4, <1>5, <1>10, Zenon
  <2>2. \A x : Head(<<x>>) = x /\ <<x>> # <<>>
    OBVIOUS
  <2>3. Head(Job(r, FALSE)) = [request |-> r, awaited |-> FALSE] /\ Job(r, FALSE) # <<>>
    BY <2>2, Zenon DEF Job
  <2>4. Head(Job(r, FALSE)).request = r
    <3>1. \A w : [request |-> r, awaited |-> w].request = r
      BY Zenon
    <3>2. QED
      BY <2>3, <3>1, Zenon
  <2>5. QED
    BY <1>0, <1>2, <1>4, <1>6, <2>1, <2>3, <2>4, Zenon DEF Abandoned, InSlot
<1>16. SupInv'
  BY <1>0, <1>14, <1>15, Zenon DEF SupInv
<1>17. QED
  BY <1>12, <1>13, <1>16, Zenon DEF InStep

LEMMA RestartKeeps ==
  ASSUME InStep, restart_instances, ~ fatal'
  PROVE  InStep'
<1>0. LanesInv /\ CallInv /\ SupInv /\ sup = "restarting"
  BY Zenon DEF InStep, restart_instances
<1>1. ~ Recovered(TRUE)
  BY Zenon DEF Recovered
<1>2. sup' = "grace" /\ UNCHANGED <<outer, driver, call, todo, jvm, reply, mirror, replays, active, facade, staged, busy, lane, loans>>
  BY <1>1, Zenon DEF restart_instances, serviceVars, laneVars
<1>3. LanesInv'
  BY <1>0, <1>2, LanesFrame, Zenon
<1>4. RecoveryInv /\ reply = None /\ Abandoned(active) /\ lane[active].at # "gone"
  BY <1>0, Zenon DEF SupInv
<1>5. CallInv'
  <2>1. jvm = "ready" /\ sup' \notin Boots
    <3>1. jvm = "ready"
      BY <1>0, <1>4, Zenon DEF CallInv, RecoveryInv
    <3>2. QED
      BY <1>2, <3>1, Zenon DEF Boots
  <2>2. QED
    BY <1>0, <1>2, <2>1, CallFrame, Zenon
<1>6. RecoveryInv' /\ reply' = None /\ Abandoned(active)' /\ lane'[active'].at # "gone"
  BY <1>2, <1>4, Zenon DEF RecoveryInv, Abandoned, InSlot
<1>7. SupInv'
  BY <1>2, <1>6, Zenon DEF SupInv
<1>8. QED
  BY <1>3, <1>5, <1>7, Zenon DEF InStep

\* The lane that is kept is free: its thread is not in a slot, and nothing is left
\* in its channel
LEMMA LaneKept ==
  ASSUME InStep, wait_lane_idle
  PROVE  InStep'
<1>0. LanesInv /\ CallInv /\ SupInv /\ sup = "grace" /\ busy # active /\ Recovered(FALSE)
  BY Zenon DEF InStep, wait_lane_idle, lane_idle
<1>1. UNCHANGED <<jvm, reply, mirror, active, facade, staged, busy, lane, loans>>
  BY Zenon DEF wait_lane_idle, laneVars
<1>2. RecoveryInv /\ reply = None /\ Abandoned(active) /\ lane[active].at # "gone"
  BY <1>0, Zenon DEF SupInv
<1>3. LanesInv'
  BY <1>0, <1>1, LanesFrame, Zenon
<1>4. ~ InSlot(active)
  BY <1>0, Zenon DEF LanesInv
<1>5. lane[active].at = "idle" /\ lane[active].queue = <<>>
  BY <1>2, <1>4, Zenon DEF Abandoned
<1>6. Free' /\ lane'[active'].at = "idle"
  BY <1>1, <1>2, <1>5, Zenon DEF Free
<1>7. CallInv' /\ SupInv'
  BY <1>0, <1>1, <1>2, <1>6, RecoveryEnds, Zenon
<1>8. QED
  BY <1>3, <1>7, Zenon DEF InStep

\* A lane that is abandoned has one job, which nobody waits for
LEMMA AdvanceKeeps ==
  ASSUME InStep, advance, ~ fatal'
  PROVE  InStep'
<1>0. LanesInv /\ CallInv /\ SupInv /\ sup = "grace"
  BY Zenon DEF InStep, advance
<1>1. ~ Recovered(TRUE)
  BY Zenon DEF Recovered
<1>2. /\ ~ (active >= max_abandoned)
      /\ active' = active + 1 /\ staged' = active + 1 /\ loans' = loans + 1
      /\ sup' = "attaching" /\ replays' = replay_requests(mirror)
      /\ UNCHANGED <<outer, driver, call, todo, jvm, reply, mirror, facade, busy, lane>>
  BY <1>1, Zenon DEF advance, serviceVars
<1>3. RecoveryInv /\ reply = None /\ Abandoned(active)
  BY <1>0, Zenon DEF SupInv
<1>4. jvm = "ready"
  BY <1>0, <1>3, Zenon DEF CallInv, RecoveryInv
<1>5. /\ active \in Generations /\ active + 1 \in Generations /\ active + 1 > active /\ loans \in Nat
      /\ loans + 1 \in Nat /\ loans + 1 > 0
      /\ \A g \in Generations : g \in Int
  <2>1. active \in Generations /\ loans \in Nat
    BY <1>0, Zenon DEF LanesInv
  <2>2. QED
    BY <1>2, <2>1, IslandConstants DEF Generations
<1>6. \A g \in Generations : (g < active => Abandoned(g)) /\ (g > active => lane[g] = NoLane)
  BY <1>0, Zenon DEF LanesInv
<1>7. lane[active + 1] = NoLane
  BY <1>5, <1>6, Zenon
<1>8. lane'[active'].at = "none" /\ lane'[active'].queue = <<>>
  BY <1>2, <1>7 DEF NoLane
<1>9. LanesInv'
  <2>1. \A g \in Generations : (InSlot(g)' <=> InSlot(g)) /\ (Abandoned(g)' <=> Abandoned(g))
    BY <1>2, Zenon DEF InSlot, Abandoned
  <2>2. \A g \in Generations : (g < active + 1 => g < active \/ g = active) /\ (g > active + 1 => g > active)
    BY <1>5
  <2>3. \A g \in Generations : (g < active' => Abandoned(g)') /\ (g > active' => lane'[g] = NoLane)
    BY <1>2, <1>3, <1>6, <2>1, <2>2, Zenon
  <2>4. ~ InSlot(active)'
    BY <1>8, Zenon DEF InSlot
  <2>5. busy' \in Generations => InSlot(busy)'
    BY <1>0, <1>2, <2>1, Zenon DEF LanesInv, InSlot
  <2>6. lane' = [g \in Generations |-> [at |-> lane'[g].at, queue |-> lane'[g].queue]]
    BY <1>0, <1>2, Zenon DEF LanesInv
  <2>7. jvm' = "ready" /\ jvm' # "registered" /\ active' \in Generations /\ loans' \in Nat /\ loans' > 0 /\ staged' = active'
    BY <1>2, <1>4, <1>5, Zenon
  <2>8. QED
    BY <1>8, <2>3, <2>4, <2>5, <2>6, <2>7, Zenon DEF LanesInv
<1>10. CallInv'
  <2>1. sup' \notin Boots
    BY <1>2, Zenon DEF Boots
  <2>2. QED
    BY <1>0, <1>2, <1>4, <2>1, CallFrame, Zenon
<1>11. RecoveryInv' /\ Free' /\ replays' \in Seq(ReplaySet(mirror'))
  <2>1. RecoveryInv'
    BY <1>2, <1>3, Zenon DEF RecoveryInv
  <2>2. MirrorForm(mirror)
    BY <1>0, Zenon DEF CallInv
  <2>3. replays' \in Seq(ReplaySet(mirror'))
    BY <1>2, <2>2, ReplayOpensAll, Zenon
  <2>4. Free'
    BY <1>2, <1>3, <1>8, Zenon DEF Free
  <2>5. QED
    BY <2>1, <2>3, <2>4, Zenon
<1>12. SupInv'
  BY <1>2, <1>11, Zenon DEF SupInv
<1>13. QED
  BY <1>9, <1>10, <1>12, Zenon DEF InStep

\* The replay into a new generation goes on, or is over
LEMMA ReplayGoesOn ==
  ASSUME LanesInv, CallInv, RecoveryInv, ReplayNext, replays' \in Seq(ReplaySet(mirror)),
         lane[active].at = "idle", lane[active].queue = <<>>, reply' = None,
         UNCHANGED <<jvm, mirror, active, staged, busy, loans, facade>>
  PROVE  InStep'
<1>1. CASE replays' = <<>>
  <2>1. Recovered(FALSE) /\ lane' = lane
    BY <1>1, Zenon DEF ReplayNext
  <2>2. LanesInv'
    BY <2>1, LanesFrame, Zenon
  <2>3. Free' /\ lane'[active'].at = "idle"
    BY <2>1, Zenon DEF Free
  <2>4. CallInv' /\ SupInv'
    BY <2>1, <2>3, RecoveryEnds, Zenon
  <2>5. QED
    BY <2>2, <2>4, Zenon DEF InStep
<1>2. CASE replays' # <<>>
  <2>1. sup' = "replaying" /\ Send(Head(replays')) /\ UNCHANGED <<outer, driver, call, todo>>
    BY <1>2, Zenon DEF ReplayNext, serviceVars
  <2>2. LanesInv' /\ lane'[active].queue = Job(Head(replays'), TRUE) /\ lane'[active].at = lane[active].at
    BY <2>1, SendKeeps, Zenon
  <2>3. CallInv'
    <3>1. jvm = "ready"
      BY Zenon DEF CallInv, RecoveryInv
    <3>2. sup' \notin Boots
      BY <2>1, Zenon DEF Boots
    <3>3. QED
      BY <2>1, <3>1, <3>2, CallFrame, Zenon
  <2>4. RecoveryInv'
    BY <2>1, Zenon DEF RecoveryInv
  <2>5. Asked(Head(replays))'
    <3>1. lane[active].at # "gone"
      BY Zenon
    <3>2. QED
      BY <2>2, <3>1, Zenon DEF Asked
  <2>6. replays' \in Seq(ReplaySet(mirror'))
    BY Zenon
  <2>7. SupInv'
    BY <1>2, <2>1, <2>4, <2>5, <2>6, Zenon DEF SupInv
  <2>8. QED
    BY <2>2, <2>3, <2>7, Zenon DEF InStep
<1>3. QED
  BY <1>1, <1>2, Zenon

LEMMA AttachedKeeps ==
  ASSUME InStep, wait_attached, ~ fatal'
  PROVE  InStep'
<1>0. LanesInv /\ CallInv /\ SupInv /\ sup = "attaching"
  BY Zenon DEF InStep, wait_attached
<1>1. ~ Recovered(TRUE)
  BY Zenon DEF Recovered
<1>2. lane[active].at = "idle" /\ replays' = replays /\ ReplayNext
      /\ UNCHANGED <<jvm, reply, mirror, active, staged, busy, loans, facade>>
  BY <1>1, Zenon DEF wait_attached
<1>3. RecoveryInv /\ Free /\ replays \in Seq(ReplaySet(mirror))
  BY <1>0, Zenon DEF SupInv
<1>4. lane[active].queue = <<>> /\ reply' = None /\ replays' \in Seq(ReplaySet(mirror))
  BY <1>2, <1>3, Zenon DEF Free
<1>5. QED
  BY <1>0, <1>2, <1>3, <1>4, ReplayGoesOn, Zenon

LEMMA ReplayedKeeps ==
  ASSUME InStep, replayed, ~ fatal'
  PROVE  InStep'
<1>0. LanesInv /\ CallInv /\ SupInv /\ sup = "replaying" /\ reply # None /\ reply' = None
  BY Zenon DEF InStep, replayed
<1>1. ~ Recovered(TRUE)
  BY Zenon DEF Recovered
<1>2. replays' = Tail(replays) /\ ReplayNext /\ UNCHANGED <<jvm, mirror, active, staged, busy, loans, facade>>
  BY <1>1, Zenon DEF replayed
<1>3. RecoveryInv /\ replays # <<>> /\ replays \in Seq(ReplaySet(mirror)) /\ (Asked(Head(replays)) \/ Replied)
  BY <1>0, Zenon DEF SupInv
<1>4. lane[active].queue = <<>> /\ lane[active].at = "idle"
  BY <1>0, <1>3, Zenon DEF Asked, Replied
<1>5. replays' \in Seq(ReplaySet(mirror))
  BY <1>2, <1>3, HeadTailProperties, Zenon
<1>6. QED
  BY <1>0, <1>2, <1>3, <1>4, <1>5, ReplayGoesOn, Zenon

-------------------------------------------------------------------------------
(* Dispatch threads                                                            *)

\* The supervisor sees of the lanes only the active one
LEMMA SupFrame ==
  ASSUME SupInv, UNCHANGED <<outer, driver, call, todo, jvm, sup, mirror, replays, active, facade, reply>>,
         lane'[active] = lane[active]
  PROVE  SupInv'
<1>1. /\ Free' <=> Free
      /\ Replied' <=> Replied
      /\ Asked(Head(todo))' <=> Asked(Head(todo))
      /\ Asked(Head(replays))' <=> Asked(Head(replays))
  BY Zenon DEF Free, Replied, Asked
<1>2. (OneQuery' <=> OneQuery) /\ (BootReplay' <=> BootReplay) /\ (Booting' <=> Booting)
  BY Zenon DEF OneQuery, BootReplay, Booting
<1>3. (IdleInv' <=> IdleInv) /\ (RecoveryInv' <=> RecoveryInv)
  BY <1>1, <1>2, Zenon DEF IdleInv, RecoveryInv
<1>4. WaitingInv' <=> WaitingInv
  BY <1>1, <1>2, Zenon DEF WaitingInv
<1>5. Abandoned(active)' <=> Abandoned(active)
  BY Zenon DEF Abandoned, InSlot
<1>6. QED
  BY <1>1, <1>3, <1>4, <1>5, Zenon DEF SupInv

LEMMA EnterKeeps ==
  ASSUME InStep, enter_dispatch_worker
  PROVE  InStep'
<1>0. LanesInv /\ CallInv /\ SupInv /\ loans > 0 /\ loans' = loans - 1
  BY Zenon DEF InStep, enter_dispatch_worker
<1>1. UNCHANGED <<outer, driver, call, todo, jvm, sup, reply, mirror, replays, active, busy, facade>>
  BY Zenon DEF enter_dispatch_worker, serviceVars, supVars
<1>2. active \in Generations /\ NoGeneration \notin Generations /\ loans' \in Nat /\ loans # 0
  <2>1. active \in Generations /\ loans \in Nat
    BY <1>0, Zenon DEF LanesInv
  <2>2. QED
    BY <1>0, <2>1, IslandConstants DEF Generations, NoGeneration
<1>3. jvm = "ready" /\ jvm # "registered"
  <2>1. jvm = "ready"
    BY <1>0, <1>2, Zenon DEF LanesInv
  <2>2. QED
    BY <2>1, Zenon
<1>4. CallInv'
  BY <1>0, <1>1, CallFrame, Zenon
<1>5. CASE staged = NoGeneration
  <2>1. staged' = staged /\ lane' = lane
    BY <1>5, Zenon DEF enter_dispatch_worker
  <2>2. lane[active].at # "none"
    BY <1>0, <1>2, <1>3, <1>5, Zenon DEF LanesInv
  <2>3. \A g : (InSlot(g)' <=> InSlot(g)) /\ (Abandoned(g)' <=> Abandoned(g))
    BY <2>1, Zenon DEF InSlot, Abandoned
  <2>4. LanesInv'
    BY <1>0, <1>1, <1>2, <1>3, <2>1, <2>2, <2>3, Zenon DEF LanesInv, InSlot
  <2>5. SupInv'
    BY <1>0, <1>1, <2>1, SupFrame, Zenon
  <2>6. QED
    BY <1>4, <2>4, <2>5, Zenon DEF InStep
<1>6. CASE staged # NoGeneration
  <2>1. staged = active /\ lane[active].at = "none"
    BY <1>0, <1>6, Zenon DEF LanesInv
  <2>2. staged' = NoGeneration /\ lane' = [lane EXCEPT ![active].at = "idle"]
    BY <1>6, <2>1, Zenon DEF enter_dispatch_worker
  <2>3. /\ lane' = [h \in Generations |-> [at |-> lane'[h].at, queue |-> lane'[h].queue]]
        /\ lane'[active].at = "idle" /\ lane'[active].queue = lane[active].queue
        /\ \A h \in Generations : h # active => lane'[h] = lane[h]
    BY <1>0, <1>2, <2>2, AtSet, Zenon
  <2>4. LanesInv'
    <3>1. ~ InSlot(active) /\ ~ InSlot(active)' /\ lane'[active].at # "none"
      BY <1>1, <2>1, <2>3, Zenon DEF InSlot
    <3>2. \A h \in Generations : h # active => (InSlot(h)' <=> InSlot(h)) /\ (Abandoned(h)' <=> Abandoned(h))
      BY <2>3, Zenon DEF InSlot, Abandoned
    <3>3. \A h \in Generations : (h < active \/ h > active) => h # active
      BY <1>2, IslandConstants DEF Generations
    <3>4. \A h \in Generations : (h < active => Abandoned(h)') /\ (h > active => lane'[h] = NoLane)
      BY <1>0, <2>3, <3>2, <3>3, Zenon DEF LanesInv
    <3>5. busy' \in Generations => InSlot(busy)'
      <4>1. busy \in Generations => InSlot(busy) /\ busy # active
        BY <1>0, <3>1, Zenon DEF LanesInv
      <4>2. QED
        BY <1>1, <3>2, <4>1, Zenon DEF InSlot
    <3>6. QED
      BY <1>1, <1>2, <1>3, <2>2, <2>3, <3>1, <3>4, <3>5, Zenon DEF LanesInv
  <2>5. SupInv'
    <3>1. /\ Free => Free'
          /\ ~ Replied
          /\ Asked(Head(todo)) => Asked(Head(todo))'
          /\ Asked(Head(replays)) => Asked(Head(replays))'
      <4>1. lane[active].at # "idle" /\ lane'[active].at # "gone"
        BY <2>1, <2>3, Zenon
      <4>2. QED
        BY <1>1, <2>3, <4>1, Zenon DEF Free, Replied, Asked
    <3>2. (OneQuery' <=> OneQuery) /\ (BootReplay' <=> BootReplay) /\ (Booting' <=> Booting)
      BY <1>1, Zenon DEF OneQuery, BootReplay, Booting
    <3>3. (IdleInv => IdleInv') /\ (RecoveryInv => RecoveryInv')
      BY <1>1, <2>3, <3>1, <3>2, Zenon DEF IdleInv, RecoveryInv
    <3>4. WaitingInv => WaitingInv'
      <4>1. lane[active].at # "running" /\ lane'[active].at # "running"
        BY <2>1, <2>3, Zenon
      <4>2. SUFFICES ASSUME WaitingInv PROVE WaitingInv'
        BY Zenon
      <4>3. Asked(Head(todo)) /\ facade = mirror
        BY <3>1, <4>1, <4>2, Zenon DEF WaitingInv
      <4>4. facade' = IF lane'[active'].at = "running" THEN observe(mirror', Head(todo')) ELSE mirror'
        BY <1>1, <4>1, <4>3, Zenon
      <4>5. QED
        BY <1>1, <3>1, <3>2, <4>2, <4>3, <4>4, Zenon DEF WaitingInv
    <3>5. ~ Abandoned(active)
      BY <2>1, Zenon DEF Abandoned, InSlot
    <3>6. QED
      BY <1>0, <1>1, <3>1, <3>3, <3>4, <3>5, Zenon DEF SupInv
  <2>6. QED
    BY <1>4, <2>4, <2>5, Zenon DEF InStep
<1>7. QED
  BY <1>5, <1>6, Zenon

\* Only the active lane has a job to begin, which the supervisor waits for.  What
\* it changes is what the mirror will take from its outcome, or, in a replay, nothing
LEMMA InvokeKeeps ==
  ASSUME InStep, NEW g \in Generations, invoke_dispatch(g)
  PROVE  InStep'
<1>0. LanesInv /\ CallInv /\ SupInv /\ lane[g].at = "idle" /\ lane[g].queue # <<>> /\ busy' = g
  BY Zenon DEF InStep, invoke_dispatch
<1>1. UNCHANGED <<outer, driver, call, todo, jvm, sup, reply, mirror, replays, active, staged, loans>>
  BY Zenon DEF invoke_dispatch, serviceVars, supVars
<1>2. active \in Generations
  BY <1>0, Zenon DEF LanesInv
<1>3. g = active
  <2>1. ~ (g < active)
    <3>1. ~ Abandoned(g)
      BY <1>0, Zenon DEF Abandoned, InSlot
    <3>2. QED
      BY <1>0, <3>1, Zenon DEF LanesInv
  <2>2. ~ (g > active)
    <3>1. lane[g] # NoLane
      BY <1>0 DEF NoLane
    <3>2. QED
      BY <1>0, <3>1, Zenon DEF LanesInv
  <2>3. QED
    BY <1>2, <2>1, <2>2, IslandConstants DEF Generations
<1>4. PICK refused :
         /\ facade' = IF refused THEN facade ELSE observe(facade, Head(lane[active].queue).request)
         /\ lane' = [lane EXCEPT ![active].at = IF refused THEN "refusing" ELSE "running"]
  BY <1>3, Zenon DEF invoke_dispatch
<1>5. PICK x : x = IF refused THEN "refusing" ELSE "running"
  BY Zenon
<1>6. x \in {"refusing", "running"} /\ (x = "running" => ~ refused) /\ (x # "running" => refused)
  BY <1>5, Zenon
<1>7. /\ lane' = [h \in Generations |-> [at |-> lane'[h].at, queue |-> lane'[h].queue]]
      /\ lane'[active].at = x /\ lane'[active].queue = lane[active].queue
      /\ \A h \in Generations : h # active => lane'[h] = lane[h]
  <2>1. lane' = [lane EXCEPT ![active].at = x]
    BY <1>4, <1>5, Zenon
  <2>2. QED
    BY <1>0, <1>2, <2>1, AtSet, Zenon
<1>8. jvm = "ready" /\ staged # active
  <2>1. lane[active].at # "none"
    BY <1>0, <1>3, Zenon
  <2>2. QED
    BY <1>0, <2>1, Zenon DEF LanesInv
<1>9. LanesInv'
  <2>1. InSlot(active)' /\ lane'[active].at # "none"
    BY <1>1, <1>6, <1>7, Zenon DEF InSlot
  <2>2. \A h \in Generations : h # active => (Abandoned(h)' <=> Abandoned(h))
    BY <1>7, Zenon DEF InSlot, Abandoned
  <2>3. \A h \in Generations : (h < active \/ h > active) => h # active
    BY <1>2, IslandConstants DEF Generations
  <2>4. \A h \in Generations : (h < active => Abandoned(h)') /\ (h > active => lane'[h] = NoLane)
    BY <1>0, <1>7, <2>2, <2>3, Zenon DEF LanesInv
  <2>5. InSlot(busy)' /\ busy' = active'
    BY <1>0, <1>1, <1>3, <2>1, Zenon DEF InSlot
  <2>6. loans' \in Nat /\ staged' \in {NoGeneration, active'} /\ jvm' # "registered" /\ staged' # active'
    BY <1>0, <1>1, <1>8, Zenon DEF LanesInv
  <2>7. QED
    BY <1>1, <1>2, <1>7, <1>8, <2>1, <2>4, <2>5, <2>6, Zenon DEF LanesInv
<1>10. \A r : Asked(r) => Head(lane[active].queue).request = r
  <2>1. SUFFICES ASSUME NEW r, lane[active].queue = Job(r, TRUE) PROVE Head(lane[active].queue).request = r
    BY Zenon DEF Asked
  <2>2. \A y : Head(<<y>>) = y
    OBVIOUS
  <2>3. \A w : [request |-> r, awaited |-> w].request = r
    BY Zenon
  <2>4. QED
    BY <2>1, <2>2, <2>3, ZenonT(40) DEF Job
<1>11. \A r : Asked(r) => lane'[active'].queue = Job(r, TRUE) /\ reply' = None /\ lane'[active'].at # "gone"
  <2>1. x # "gone"
    BY <1>6, Zenon
  <2>2. QED
    BY <1>1, <1>7, <2>1, Zenon DEF Asked
<1>12. ~ Free /\ ~ Replied /\ ~ Abandoned(active)
  BY <1>0, <1>3, Zenon DEF Free, Replied, Abandoned, InSlot
<1>13. CASE sup = "waiting"
  <2>1. WaitingInv
    BY <1>0, <1>13, Zenon DEF SupInv
  <2>2. Asked(Head(todo)) /\ facade = mirror
    <3>1. lane[active].at # "running"
      BY <1>0, <1>3, Zenon
    <3>2. QED
      BY <1>12, <2>1, <3>1, Zenon DEF WaitingInv
  <2>3. facade' = IF lane'[active'].at = "running" THEN observe(mirror', Head(todo')) ELSE mirror'
    <3>1. Head(lane[active].queue).request = Head(todo)
      BY <1>10, <2>2, Zenon
    <3>2. CASE x = "running"
      <4>1. facade' = observe(mirror, Head(todo))
        BY <1>4, <1>6, <2>2, <3>1, <3>2, Zenon
      <4>2. QED
        BY <1>1, <1>7, <3>2, <4>1, Zenon
    <3>3. CASE x # "running"
      <4>1. facade' = mirror
        BY <1>4, <1>6, <2>2, <3>3, Zenon
      <4>2. QED
        BY <1>1, <1>7, <3>3, <4>1, Zenon
    <3>4. QED
      BY <3>2, <3>3, Zenon
  <2>4. Asked(Head(todo))'
    BY <1>1, <1>11, <2>2, Zenon DEF Asked
  <2>5. WaitingInv'
    <3>1. BootReplay' <=> BootReplay
      BY <1>1, Zenon DEF BootReplay
    <3>2. QED
      BY <1>1, <2>1, <2>3, <2>4, <3>1, Zenon DEF WaitingInv
  <2>6. SupInv'
    BY <1>1, <1>13, <2>5, Zenon DEF SupInv
  <2>7. CallInv'
    <3>1. sup' \notin Boots
      BY <1>1, <1>13, Zenon DEF Boots
    <3>2. QED
      BY <1>0, <1>1, <1>8, <3>1, CallFrame, Zenon
  <2>8. QED
    BY <1>9, <2>6, <2>7, Zenon DEF InStep
<1>14. CASE sup = "replaying"
  <2>1. RecoveryInv /\ replays # <<>> /\ replays \in Seq(ReplaySet(mirror)) /\ Asked(Head(replays))
    BY <1>0, <1>12, <1>14, Zenon DEF SupInv
  <2>2. facade' = facade
    <3>1. Head(replays) \in ReplaySet(mirror) /\ Head(lane[active].queue).request = Head(replays)
      BY <1>10, <2>1, HeadTailProperties, Zenon
    <3>2. observe(mirror, Head(replays)) = mirror
      BY <1>0, <3>1, ReplayChangesNothing, Zenon DEF CallInv
    <3>3. facade = mirror
      BY <2>1, Zenon DEF RecoveryInv
    <3>4. QED
      BY <1>4, <3>1, <3>2, <3>3, Zenon
  <2>3. Asked(Head(replays))'
    BY <1>1, <1>11, <2>1, Zenon DEF Asked
  <2>4. RecoveryInv'
    BY <1>1, <2>1, <2>2, Zenon DEF RecoveryInv
  <2>5. replays' # <<>> /\ replays' \in Seq(ReplaySet(mirror')) /\ sup' = "replaying"
    BY <1>1, <1>14, <2>1, Zenon
  <2>6. SupInv'
    BY <2>3, <2>4, <2>5, Zenon DEF SupInv
  <2>7. CallInv'
    BY <1>0, <1>1, <2>2, CallFrame, Zenon
  <2>8. QED
    BY <1>9, <2>6, <2>7, Zenon DEF InStep
<1>15. sup = "waiting" \/ sup = "replaying"
  BY <1>0, <1>12, Zenon DEF SupInv, IdleInv
<1>16. QED
  BY <1>13, <1>14, <1>15, Zenon

\* A slot that returns clears its own busy marker.  The outcome of the active
\* lane's job goes to the supervisor, unless it gave up; an abandoned one's to nobody
LEMMA ReturnKeeps ==
  ASSUME InStep, NEW g \in Generations, return_from_slot(g)
  PROVE  InStep'
<1>0. LanesInv /\ CallInv /\ SupInv /\ InSlot(g) /\ busy' = ClearBusy(g)
  BY Zenon DEF InStep, return_from_slot, InSlot
<1>1. UNCHANGED <<outer, driver, call, todo, jvm, sup, mirror, replays, active, staged, loans, facade>>
  BY Zenon DEF return_from_slot, serviceVars
<1>2. active \in Generations /\ IDLE_GENERATION \notin Generations /\ IDLE_GENERATION # active
      /\ \A h \in Generations : h \in Int
  <2>1. active \in Generations
    BY <1>0, Zenon DEF LanesInv
  <2>2. QED
    BY <2>1, IslandConstants DEF Generations, IDLE_GENERATION, NoGeneration
<1>3. lane[g].at # "none" /\ lane[g].at # "idle" /\ lane[g].at # "gone"
  BY <1>0, Zenon DEF InSlot
<1>4. PICK q : q = Tail(lane[g].queue)
  BY Zenon
<1>5. /\ lane' = [h \in Generations |-> IF h = g THEN [at |-> "idle", queue |-> q] ELSE lane[h]]
      /\ \A h \in Generations : lane[h] = [at |-> lane[h].at, queue |-> lane[h].queue]
  <2>1. lane = [h \in Generations |-> [at |-> lane[h].at, queue |-> lane[h].queue]]
    BY <1>0, Zenon DEF LanesInv
  <2>2. DOMAIN lane = Generations /\ \A h \in Generations : lane[h] = [at |-> lane[h].at, queue |-> lane[h].queue]
    BY <2>1, Zenon
  <2>3. lane' = [lane EXCEPT ![g] = [at |-> "idle", queue |-> q]]
    BY <1>4, Zenon DEF return_from_slot
  <2>4. QED
    BY <2>2, <2>3, Zenon
<1>6. /\ lane'[g].at = "idle" /\ lane'[g].queue = q
      /\ \A h \in Generations : h # g => lane'[h] = lane[h]
  BY <1>5, Zenon
<1>7. lane' = [h \in Generations |-> [at |-> lane'[h].at, queue |-> lane'[h].queue]]
  <2>1. \A h \in Generations : lane'[h] = [at |-> lane'[h].at, queue |-> lane'[h].queue]
    BY <1>5, Zenon
  <2>2. lane' = [h \in Generations |-> lane'[h]]
    BY <1>5, Zenon
  <2>3. QED
    BY <2>1, <2>2, Zenon
<1>8. ~ InSlot(g)' /\ lane'[g].at # "none"
  BY <1>1, <1>6, Zenon DEF InSlot
<1>9. \A r, w : lane[g].queue = Job(r, w) => q = <<>> /\ Head(lane[g].queue).awaited = w
  <2>1. SUFFICES ASSUME NEW r, NEW w, lane[g].queue = Job(r, w) PROVE q = <<>> /\ Head(lane[g].queue).awaited = w
    BY Zenon
  <2>2. \A y : Tail(<<y>>) = <<>> /\ Head(<<y>>) = y
    OBVIOUS
  <2>3. PICK j : j = [request |-> r, awaited |-> w]
    BY Zenon
  <2>4. j.awaited = w
    BY <2>3, Zenon
  <2>5. QED
    BY <1>4, <2>1, <2>2, <2>3, <2>4, Zenon DEF Job
<1>10. \/ g < active /\ Abandoned(g)
       \/ g = active /\ jvm = "ready" /\ staged # active
  <2>1. ~ (g > active)
    <3>1. lane[g] # NoLane
      BY <1>3 DEF NoLane
    <3>2. QED
      BY <1>0, <3>1, Zenon DEF LanesInv
  <2>2. g < active \/ g = active
    BY <1>2, <2>1
  <2>3. g < active => Abandoned(g)
    BY <1>0, Zenon DEF LanesInv
  <2>4. g = active => jvm = "ready" /\ staged # active
    BY <1>0, <1>3, Zenon DEF LanesInv
  <2>5. QED
    BY <2>2, <2>3, <2>4, Zenon
<1>11. Abandoned(g) => q = <<>> /\ reply' = reply
  <2>1. SUFFICES ASSUME Abandoned(g) PROVE q = <<>> /\ reply' = reply
    BY Zenon
  <2>2. lane[g].queue = Job(Head(lane[g].queue).request, FALSE)
    BY <1>3, <2>1, Zenon DEF Abandoned
  <2>3. q = <<>> /\ Head(lane[g].queue).awaited = FALSE
    BY <1>9, <2>2, Zenon
  <2>4. QED
    BY <2>3, Zenon DEF return_from_slot
<1>12. LanesInv'
  <2>1. \A h \in Generations : h # g => (InSlot(h)' <=> InSlot(h)) /\ (Abandoned(h)' <=> Abandoned(h))
    BY <1>6, Zenon DEF InSlot, Abandoned
  <2>2. Abandoned(g) => Abandoned(g)'
    <3>1. Abandoned(g) => lane'[g].queue = <<>>
      BY <1>6, <1>11, Zenon
    <3>2. QED
      BY <1>6, <3>1, Zenon DEF Abandoned
  <2>3. \A h \in Generations : (h < active => Abandoned(h)) /\ (h > active => lane[h] = NoLane /\ h # g)
    <3>1. lane[g] # NoLane
      BY <1>3 DEF NoLane
    <3>2. QED
      BY <1>0, <3>1, Zenon DEF LanesInv
  <2>4. \A h \in Generations : (h < active' => Abandoned(h)') /\ (h > active' => lane'[h] = NoLane)
    BY <1>1, <1>6, <2>1, <2>2, <2>3, Zenon
  <2>5. (busy' \in Generations => InSlot(busy)') /\ (InSlot(active)' => busy' = active')
    <3>1. CASE busy = g
      <4>1. busy' = IDLE_GENERATION
        BY <1>0, <3>1, Zenon DEF ClearBusy
      <4>2. ~ InSlot(active)'
        <5>1. active # g => ~ InSlot(active)
          BY <1>0, <3>1, Zenon DEF LanesInv
        <5>2. CASE active = g
          BY <1>1, <1>8, <5>2, Zenon DEF InSlot
        <5>3. CASE active # g
          <6>1. lane'[active] = lane[active]
            BY <1>2, <1>6, <5>3, Zenon
          <6>2. QED
            BY <1>1, <5>1, <5>3, <6>1, Zenon DEF InSlot
        <5>4. QED
          BY <5>2, <5>3, Zenon
      <4>3. QED
        BY <1>2, <4>1, <4>2, Zenon
    <3>2. CASE busy # g
      <4>1. busy' = busy
        BY <1>0, <3>2, Zenon DEF ClearBusy
      <4>2. active # g
        BY <1>0, <3>2, Zenon DEF LanesInv
      <4>3. lane'[active] = lane[active] /\ (busy \in Generations => lane'[busy] = lane[busy])
        BY <1>2, <1>6, <3>2, <4>2, Zenon
      <4>4. (busy \in Generations => InSlot(busy)) /\ (InSlot(active) => busy = active)
        BY <1>0, Zenon DEF LanesInv
      <4>5. QED
        BY <1>1, <4>1, <4>3, <4>4, Zenon DEF InSlot
    <3>3. QED
      BY <3>1, <3>2, Zenon
  <2>6. /\ active' \in Generations /\ loans' \in Nat /\ staged' \in {NoGeneration, active'}
        /\ (staged' = active' => lane'[active'].at = "none")
        /\ (jvm' = "ready" /\ lane'[active'].at = "none" => staged' = active' /\ loans' > 0)
        /\ (jvm' # "ready" => active' = 0 /\ loans' = 0 /\ lane'[active'].at = "none")
        /\ (jvm' = "registered" => staged' = active')
    <3>1. CASE g < active
      <4>1. lane'[active] = lane[active]
        BY <1>2, <1>6, <3>1
      <4>2. QED
        BY <1>0, <1>1, <4>1, Zenon DEF LanesInv
    <3>2. CASE g = active /\ jvm = "ready" /\ staged # active
      <4>1. jvm # "registered" /\ lane'[active].at # "none"
        BY <1>8, <3>2, Zenon
      <4>2. active \in Generations /\ loans \in Nat /\ staged \in {NoGeneration, active}
        BY <1>0, Zenon DEF LanesInv
      <4>3. QED
        BY <1>1, <3>2, <4>1, <4>2, Zenon
    <3>3. QED
      BY <1>10, <3>1, <3>2, Zenon
  <2>7. QED
    BY <1>7, <2>4, <2>5, <2>6, Zenon DEF LanesInv
<1>13. CallInv'
  BY <1>0, <1>1, CallFrame, Zenon
<1>14. SupInv'
  <2>1. CASE g < active /\ Abandoned(g)
    <3>1. active # g
      BY <1>2, <2>1
    <3>2. lane'[active] = lane[active] /\ reply' = reply
      BY <1>2, <1>6, <1>11, <2>1, <3>1, Zenon
    <3>3. QED
      BY <1>0, <1>1, <3>2, SupFrame, Zenon
  <2>2. CASE g = active
    <3>1. ~ Free /\ ~ Replied
      BY <1>3, <2>2, Zenon DEF Free, Replied
    <3>2. \A r : Asked(r) => /\ reply' = (IF lane[active].at = "running" THEN "done" ELSE "status")
                             /\ lane'[active'].queue = <<>> /\ lane'[active'].at = "idle"
      <4>1. SUFFICES ASSUME NEW r, lane[active].queue = Job(r, TRUE)
                     PROVE  /\ reply' = (IF lane[active].at = "running" THEN "done" ELSE "status")
                            /\ lane'[active'].queue = <<>> /\ lane'[active'].at = "idle"
        BY Zenon DEF Asked
      <4>2. q = <<>> /\ Head(lane[g].queue).awaited = TRUE
        BY <1>9, <2>2, <4>1, Zenon
      <4>3. reply' = (IF lane[active].at = "running" THEN "done" ELSE "status")
        BY <2>2, <4>2, Zenon DEF return_from_slot
      <4>4. QED
        BY <1>1, <1>6, <2>2, <4>2, <4>3, Zenon
    <3>3. \A r : Asked(r) => Replied' /\ (reply' = "done" <=> lane[active].at = "running")
      BY <3>2, Zenon DEF Replied
    <3>4. CASE sup = "waiting"
      <4>1. WaitingInv
        BY <1>0, <3>4, Zenon DEF SupInv
      <4>2. Asked(Head(todo)) /\ facade = IF lane[active].at = "running" THEN observe(mirror, Head(todo)) ELSE mirror
        BY <3>1, <4>1, Zenon DEF WaitingInv
      <4>3. Replied' /\ facade' = IF reply' = "done" THEN observe(mirror', Head(todo')) ELSE mirror'
        BY <1>1, <3>3, <4>2, Zenon
      <4>4. BootReplay' <=> BootReplay
        BY <1>1, Zenon DEF BootReplay
      <4>5. WaitingInv'
        BY <1>1, <4>1, <4>3, <4>4, Zenon DEF WaitingInv
      <4>6. QED
        BY <1>1, <3>4, <4>5, Zenon DEF SupInv
    <3>5. CASE sup = "replaying"
      <4>1. RecoveryInv /\ replays # <<>> /\ replays \in Seq(ReplaySet(mirror)) /\ Asked(Head(replays))
        BY <1>0, <3>1, <3>5, Zenon DEF SupInv
      <4>2. RecoveryInv' /\ Replied' /\ replays' # <<>> /\ replays' \in Seq(ReplaySet(mirror')) /\ sup' = "replaying"
        BY <1>1, <3>3, <3>5, <4>1, Zenon DEF RecoveryInv
      <4>3. QED
        BY <4>2, Zenon DEF SupInv
    <3>6. CASE sup \in {"restarting", "grace"}
      <4>1. RecoveryInv /\ reply = None /\ Abandoned(active)
        BY <1>0, <3>6, Zenon DEF SupInv
      <4>2. reply' = None /\ lane'[active'].queue = <<>> /\ lane'[active'].at = "idle"
        BY <1>1, <1>6, <1>11, <2>2, <4>1, Zenon
      <4>3. Abandoned(active)' /\ lane'[active'].at # "gone"
        BY <4>2, Zenon DEF Abandoned
      <4>4. RecoveryInv' /\ sup' \in {"restarting", "grace"}
        BY <1>1, <3>6, <4>1, Zenon DEF RecoveryInv
      <4>5. QED
        BY <4>2, <4>3, <4>4, Zenon DEF SupInv
    <3>7. sup = "waiting" \/ sup = "replaying" \/ sup \in {"restarting", "grace"}
      BY <1>0, <3>1, Zenon DEF SupInv, IdleInv
    <3>8. QED
      BY <3>4, <3>5, <3>6, <3>7, Zenon
  <2>3. QED
    BY <1>10, <2>1, <2>2, Zenon
<1>15. QED
  BY <1>12, <1>13, <1>14, Zenon DEF InStep

LEMMA LeaveKeeps ==
  ASSUME InStep, NEW g \in Generations, leave_dispatch_worker(g)
  PROVE  InStep'
<1>0. LanesInv /\ CallInv /\ SupInv /\ g # active /\ lane[g].at = "idle" /\ lane[g].queue = <<>>
      /\ lane' = [lane EXCEPT ![g].at = "gone"]
  BY Zenon DEF InStep, leave_dispatch_worker
<1>1. UNCHANGED <<outer, driver, call, todo, jvm, sup, reply, mirror, replays, active, staged, busy, loans, facade>>
  BY Zenon DEF leave_dispatch_worker, serviceVars, supVars
<1>2. active \in Generations
  BY <1>0, Zenon DEF LanesInv
<1>3. /\ lane' = [h \in Generations |-> [at |-> lane'[h].at, queue |-> lane'[h].queue]]
      /\ lane'[g].at = "gone" /\ lane'[g].queue = <<>>
      /\ \A h \in Generations : h # g => lane'[h] = lane[h]
  BY <1>0, AtSet, Zenon
<1>4. lane'[active] = lane[active]
  BY <1>0, <1>2, <1>3, Zenon
<1>5. LanesInv'
  <2>1. \A h \in Generations : h # g => (InSlot(h)' <=> InSlot(h)) /\ (Abandoned(h)' <=> Abandoned(h))
    BY <1>3, Zenon DEF InSlot, Abandoned
  <2>2. Abandoned(g)' /\ lane[g] # NoLane /\ ~ InSlot(g)
    <3>1. Abandoned(g)'
      BY <1>3, Zenon DEF Abandoned
    <3>2. lane[g] # NoLane /\ ~ InSlot(g)
      BY <1>0 DEF NoLane, InSlot
    <3>3. QED
      BY <3>1, <3>2, Zenon
  <2>3. \A h \in Generations : (h < active' => Abandoned(h)') /\ (h > active' => lane'[h] = NoLane)
    BY <1>0, <1>1, <1>3, <2>1, <2>2, Zenon DEF LanesInv
  <2>4. (busy' \in Generations => InSlot(busy)') /\ (InSlot(active)' => busy' = active')
    <3>1. busy \in Generations => InSlot(busy) /\ busy # g
      BY <1>0, <2>2, Zenon DEF LanesInv
    <3>2. InSlot(active) => busy = active
      BY <1>0, Zenon DEF LanesInv
    <3>3. busy \in Generations => lane'[busy] = lane[busy]
      BY <1>3, <3>1, Zenon
    <3>4. QED
      BY <1>1, <1>4, <3>1, <3>2, <3>3, Zenon DEF InSlot
  <2>5. QED
    BY <1>0, <1>1, <1>3, <1>4, <2>3, <2>4, Zenon DEF LanesInv
<1>6. CallInv'
  BY <1>0, <1>1, CallFrame, Zenon
<1>7. SupInv'
  BY <1>0, <1>1, <1>4, SupFrame, Zenon
<1>8. QED
  BY <1>5, <1>6, <1>7, Zenon DEF InStep

-------------------------------------------------------------------------------
(* The island stays in step                                                    *)

LEMMA IslandStarts == IslandInit => IslandInv
<1>1. SUFFICES ASSUME IslandInit PROVE IslandInv
  BY Zenon
<1>2. LanesInv
  <2>1. active = 0 /\ staged = NoGeneration /\ busy = IDLE_GENERATION /\ loans = 0 /\ jvm = "absent"
        /\ lane = [g \in Generations |-> NoLane]
    BY <1>1, Zenon DEF IslandInit
  <2>2. 0 \in Generations /\ NoGeneration # 0 /\ IDLE_GENERATION \notin Generations /\ \A g \in Generations : ~ (g < 0)
    BY IslandConstants DEF Generations, NoGeneration, IDLE_GENERATION
  <2>3. \A g \in Generations : lane[g] = NoLane /\ lane[g].at = "none" /\ lane[g].queue = <<>>
    BY <2>1, Zenon DEF NoLane
  <2>4. lane = [g \in Generations |-> [at |-> lane[g].at, queue |-> lane[g].queue]]
    BY <2>1, Zenon DEF NoLane
  <2>5. \A g \in Generations : (g < active => Abandoned(g)) /\ (g > active => lane[g] = NoLane)
    BY <2>1, <2>2, <2>3, Zenon
  <2>6. ~ InSlot(active) /\ lane[active].at = "none" /\ jvm # "ready" /\ jvm # "registered"
    BY <2>1, <2>2, <2>3, Zenon DEF InSlot
  <2>7. active \in Generations /\ loans \in Nat /\ staged \in {NoGeneration, active} /\ staged # active /\ busy \notin Generations
    BY <2>1, <2>2, Zenon
  <2>8. QED
    BY <2>1, <2>4, <2>5, <2>6, <2>7, Zenon DEF LanesInv
<1>3. MirrorForm(outer)
  <2>1. PICK ts \in SUBSET Targets : outer = [targets |-> ts, buffers |-> <<>>]
    BY <1>1, Zenon DEF IslandInit
  <2>2. outer.targets = ts /\ outer.buffers = <<>> /\ outer = [targets |-> outer.targets, buffers |-> outer.buffers]
    BY <2>1, Zenon
  <2>3. IsFiniteSet(ts)
    BY FS_Subset, IslandConstants, Zenon
  <2>4. EmptyMirror.buffers = <<>>
    BY Zenon DEF EmptyMirror
  <2>5. BuffersForm(<<>>)
    BY <2>4, EmptyForm, Zenon DEF MirrorForm
  <2>6. QED
    BY <2>2, <2>3, <2>5, Zenon DEF MirrorForm
<1>4. call = None /\ None # "boot" /\ todo = <<>> /\ driver = FALSE /\ sup = "idle" /\ sup \notin Boots
      /\ reply = None /\ fatal = FALSE /\ mirror = EmptyMirror /\ facade = EmptyMirror
  BY <1>1, Zenon DEF IslandInit, None, Boots
<1>5. CallInv
  BY <1>3, <1>4, EmptyForm, Zenon DEF CallInv
<1>6. Free
  <2>1. lane[active] = NoLane
    BY <1>1, <1>2, Zenon DEF IslandInit, LanesInv
  <2>2. QED
    BY <1>4, <2>1 DEF Free, NoLane
<1>7. IdleInv
  BY <1>4, <1>6, Zenon DEF IdleInv
<1>8. SupInv
  BY <1>4, <1>7, Zenon DEF SupInv
<1>9. QED
  BY <1>2, <1>4, <1>5, <1>8, Zenon DEF IslandInv, InStep

\* A stuttering step
LEMMA StutterKeeps ==
  ASSUME InStep, UNCHANGED islandVars
  PROVE  InStep'
<1>0. LanesInv /\ CallInv /\ SupInv
  BY Zenon DEF InStep
<1>1. UNCHANGED <<outer, driver, call, todo, jvm, sup, reply, mirror, replays, active, staged, busy, lane, loans, facade>>
  BY Zenon DEF islandVars, serviceVars, supVars, laneVars
<1>2. LanesInv'
  BY <1>0, <1>1, LanesFrame, Zenon
<1>3. CallInv'
  BY <1>0, <1>1, CallFrame, Zenon
<1>4. SupInv'
  BY <1>0, <1>1, SupFrame, Zenon
<1>5. QED
  BY <1>2, <1>3, <1>4, Zenon DEF InStep

\* No step undoes a fatal recovery
LEMMA FatalStays ==
  ASSUME fatal \in BOOLEAN, [IslandNext]_islandVars
  PROVE  fatal' \in BOOLEAN /\ (fatal => fatal')
<1>0. fatal' = fatal => fatal' \in BOOLEAN /\ (fatal => fatal')
  OBVIOUS
<1>1. \A f : Recovered(f) => fatal' \in BOOLEAN /\ (fatal => fatal')
  BY Zenon DEF Recovered
<1>2. CASE UNCHANGED islandVars
  BY <1>0, <1>2, Zenon DEF islandVars, supVars
<1>3. CASE ServiceCalls
  BY <1>0, <1>3, Zenon DEF ServiceCalls, did_open, did_change, did_close, query_reply, reload, on_config_changed, Calling, supVars
<1>4. CASE create_java_vm \/ wait_for_registration \/ request \/ reply_in_time \/ overrun
  BY <1>0, <1>4, Zenon DEF create_java_vm, FailBoot, wait_for_registration, request, reply_in_time, overrun, supVars
<1>5. CASE restart_instances \/ wait_lane_idle \/ advance
  BY <1>0, <1>1, <1>5, Zenon DEF restart_instances, wait_lane_idle, advance
<1>6. CASE wait_attached \/ replayed \/ replay_overrun
  BY <1>0, <1>1, <1>6, Zenon DEF wait_attached, replayed, replay_overrun, ReplayNext
<1>7. CASE Threads
  BY <1>0, <1>7, Zenon DEF Threads, register_pc_vtable, dispatch_loop, premain_returns, enter_dispatch_worker, invoke_dispatch,
                           return_from_slot, leave_dispatch_worker, supVars
<1>8. QED
  BY <1>2, <1>3, <1>4, <1>5, <1>6, <1>7, Zenon DEF IslandNext, Supervising

LEMMA IslandSteps ==
  ASSUME IslandInv, [IslandNext]_islandVars
  PROVE  IslandInv'
<1>1. fatal' \in BOOLEAN /\ (fatal => fatal')
  BY FatalStays, Zenon DEF IslandInv
<1>2. SUFFICES ASSUME ~ fatal' PROVE InStep'
  BY <1>1, Zenon DEF IslandInv
<1>3. InStep
  BY <1>1, <1>2, Zenon DEF IslandInv
<1>4. CASE ServiceCalls
  BY <1>3, <1>4, CallsKeep, Zenon
<1>5. CASE Supervising
  <2>1. ~ replay_overrun
    BY <1>2, Zenon DEF replay_overrun, Recovered
  <2>2. CASE create_java_vm \/ wait_for_registration \/ request \/ reply_in_time \/ overrun
    BY <1>3, <2>2, CreateKeeps, RendezvousKeeps, RequestKeeps, ReplyKeeps, OverrunKeeps, Zenon
  <2>3. CASE restart_instances \/ wait_lane_idle \/ advance \/ wait_attached \/ replayed
    BY <1>2, <1>3, <2>3, RestartKeeps, LaneKept, AdvanceKeeps, AttachedKeeps, ReplayedKeeps, Zenon
  <2>4. QED
    BY <1>5, <2>1, <2>2, <2>3, Zenon DEF Supervising
<1>6. CASE Threads
  <2>1. CASE register_pc_vtable \/ dispatch_loop
    BY <1>3, <2>1, PremainKeeps, Zenon
  <2>2. CASE premain_returns
    BY <1>3, <2>2, PremainReturned, Zenon
  <2>3. CASE enter_dispatch_worker
    BY <1>3, <2>3, EnterKeeps, Zenon
  <2>4. ASSUME NEW g \in Generations, invoke_dispatch(g) \/ return_from_slot(g) \/ leave_dispatch_worker(g) PROVE InStep'
    BY <1>3, <2>4, InvokeKeeps, ReturnKeeps, LeaveKeeps, Zenon
  <2>5. QED
    BY <1>6, <2>1, <2>2, <2>3, <2>4, Zenon DEF Threads
<1>7. CASE UNCHANGED islandVars
  BY <1>3, <1>7, StutterKeeps, Zenon
<1>8. QED
  BY <1>4, <1>5, <1>6, <1>7, Zenon DEF IslandNext

LEMMA IslandHolds == IslandInv => IslandInStep
<1>1. SUFFICES ASSUME IslandInv, ~ fatal PROVE IslandInStep
  BY Zenon DEF IslandInStep, MirrorsAgree, LaneReady, IdleIsIdle, AtRest
<1>2. LanesInv /\ CallInv /\ SupInv
  BY <1>1, Zenon DEF IslandInv, InStep
<1>3. IdleIsIdle
  BY <1>2, Zenon DEF IdleIsIdle, lane_idle, LanesInv, InSlot
<1>4. ASSUME driver, call = None
      PROVE  /\ outer.buffers = mirror.buffers /\ mirror = facade
             /\ lane[active].at = "idle" /\ lane[active].queue = <<>>
  <2>1. IdleInv
    BY <1>2, <1>4, CallerIdle, Zenon
  <2>2. call # "boot"
    BY <1>4, Zenon DEF None
  <2>3. QED
    BY <1>4, <2>1, <2>2, Zenon DEF IdleInv, Free
<1>5. QED
  BY <1>3, <1>4, Zenon DEF IslandInStep, MirrorsAgree, LaneReady, AtRest

(* Between calls the supervisor's picture of the island is true, whatever the   *)
(* constants: after IslandPcService's calls, the boot's replay, requests that   *)
(* Supervisor::call saw refused or overrun, and any recovery that was not       *)
(* fatal, the service's buffers, TargetMirror and PcFacade hold the same        *)
(* buffers, the active lane is free, and busy_generation is not idle while the  *)
(* active dispatch thread is inside a slot.                                     *)
THEOREM IslandStaysInStep == IslandSpec => []IslandInStep
<1>1. IslandInv /\ [IslandNext]_islandVars => IslandInv'
  BY IslandSteps, Zenon
<1>2. QED
  BY <1>1, IslandStarts, IslandHolds, PTL DEF IslandSpec
===============================================================================
