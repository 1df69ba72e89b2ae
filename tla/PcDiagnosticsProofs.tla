------------------------- MODULE PcDiagnosticsProofs -------------------------
(***************************************************************************)
(* Proofs about the two streams of diagnostics, for every set of files,    *)
(* targets and diagnostics: what the editor shows is the union of the two  *)
(* layers, and at rest an overlay belongs to the text it was typed from.   *)
(***************************************************************************)
EXTENDS PcDiagnostics, SequenceTheorems, TLAPS

(* What each variable holds. *)
DiagTypes ==
  /\ buf \in [Uris -> {"closed", "clean", "dirty"}]
  /\ text \in [Uris -> Nat] /\ mirror \in [Uris -> Nat] /\ pc \in [Uris -> Nat]
  /\ mloop = Idle \/ mloop \in [op : {"open", "change", "close"}, uri : Uris]
  /\ worker = NoPull \/ worker \in [at : {"query", "recheck", "set"}, uri : Uris, got : Nat]
  /\ booted \in BOOLEAN
  /\ due \in Seq(Uris) /\ IsInjective(due)
  /\ by_uri \in [Uris -> [Targets -> SUBSET Diags]]
  /\ bsp \in [Uris -> SUBSET Diags]
  /\ shown \in [Uris -> [bsp : SUBSET Diags, pc : Nat]]

(* The layer: the editor shows the layer's two sets, and a file is flagged as  *)
(* published exactly when one of them is not empty (emit's suppression).       *)
LayerInv ==
  \A u \in Uris :
    /\ shown[u] = [bsp |-> bsp[u], pc |-> pc[u]]
    /\ u \in published_non_empty <=> bsp[u] # {} \/ pc[u] # 0

(* The router: the layer's compile set is what the targets reported, and the   *)
(* router's own flag says whether it is empty (accept's suppression).          *)
RouterInv ==
  \A u \in Uris :
    /\ bsp[u] = UNION {by_uri[u][t] : t \in Targets}
    /\ u \in router_published <=> bsp[u] # {}

Handling(u, ops) == mloop.op \in ops /\ mloop.uri = u
Pulling(u, steps) == worker.at \in steps /\ worker.uri = u

(* The document store: a buffer has a version while it is open, and the        *)
(* handler at work left it as its notification says.                           *)
BufferAt(u) ==
  /\ text[u] # 0 <=> buf[u] # "closed"
  /\ Handling(u, {"open", "change"}) => buf[u] # "closed"
  /\ Handling(u, {"close"}) => buf[u] = "closed"

BufferInv == \A u \in Uris : BufferAt(u)

(* Closed and the island told, or open and the island not yet told. *)
Unmirrored(u) == (buf[u] = "closed" /\ ~ Handling(u, {"close"})) \/ Handling(u, {"open"})

Fresh(u, v) == buf[u] = "dirty" /\ v = mirror[u]

(* A pull will follow, or the handler that drops the overlay. *)
Coming(u) == u \in Range(due) \/ Handling(u, {"change", "close"})

(* What a pull found is worth publishing when it passes its second check. *)
RecheckSound(u) ==
  Pulling(u, {"recheck"}) =>
    worker.got = 0 \/ worker.got = mirror[u] \/ Coming(u) \/ buf[u] # "dirty" \/ mirror[u] = 0

SetSound(u) == Pulling(u, {"set"}) => worker.got = 0 \/ Fresh(u, worker.got) \/ Coming(u)

OverlaySound(u) ==
  pc[u] # 0 => Fresh(u, pc[u]) \/ Coming(u) \/ Pulling(u, {"query", "recheck", "set"})

UnheldEmpty(u) == mirror[u] = 0 => pc[u] = 0 /\ ~ Pulling(u, {"set"})

UnmirroredQuiet(u) == Unmirrored(u) => pc[u] = 0 /\ ~ Pulling(u, {"query", "recheck", "set"})

OverlayAt(u) ==
  /\ ~ booted => pc[u] = 0 /\ worker = NoPull
  /\ Unmirrored(u) => u \notin Range(due)
  /\ Pulling(u, {"query"}) => mirror[u] # 0
  /\ u \notin excused =>
       UnmirroredQuiet(u) /\ UnheldEmpty(u) /\ RecheckSound(u) /\ SetSound(u) /\ OverlaySound(u)

(* Over all files, why an overlay that outlives its text is always followed by *)
(* something that drops or replaces it, unless the file is excused.            *)
OverlayInv == \A u \in Uris : OverlayAt(u)

-------------------------------------------------------------------------------
(* Sequences without duplicates, which is what the map of armed pulls is: what *)
(* schedule's Append, cancel's Without and the worker's Tail leave in it.      *)
LEMMA AppendMember ==
  ASSUME NEW S, NEW s \in Seq(S), NEW e \in S
  PROVE  /\ Append(s, e) \in Seq(S)
         /\ \A x : x \in Range(Append(s, e)) <=> x \in Range(s) \/ x = e
         /\ IsInjective(s) /\ e \notin Range(s) => IsInjective(Append(s, e))
<1>1. /\ Append(s, e) \in Seq(S) /\ Len(s) \in Nat /\ Len(Append(s, e)) = Len(s) + 1
      /\ DOMAIN s = 1..Len(s) /\ DOMAIN Append(s, e) = 1..Len(s) + 1
  OBVIOUS
<1>2. /\ \A i \in 1..Len(s) : Append(s, e)[i] = s[i]
      /\ Append(s, e)[Len(s) + 1] = e
  OBVIOUS
<1>3. \A x : x \in Range(Append(s, e)) <=> x \in Range(s) \/ x = e
  BY <1>1, <1>2 DEF Range
<1>4. ASSUME IsInjective(s), e \notin Range(s)  PROVE IsInjective(Append(s, e))
  BY <1>1, <1>2, <1>4 DEF IsInjective, Range
<1> QED
  BY <1>1, <1>3, <1>4

LEMMA TailMember ==
  ASSUME NEW S, NEW s \in Seq(S), s # <<>>
  PROVE  /\ Head(s) \in S /\ Tail(s) \in Seq(S) /\ Head(s) \in Range(s)
         /\ \A x : x \in Range(Tail(s)) => x \in Range(s)
         /\ \A x : x \in Range(s) => x = Head(s) \/ x \in Range(Tail(s))
         /\ IsInjective(s) => IsInjective(Tail(s))
<1>1. /\ Head(s) \in S /\ Tail(s) \in Seq(S) /\ Len(s) \in Nat /\ Len(s) > 0 /\ Len(Tail(s)) = Len(s) - 1
      /\ DOMAIN s = 1..Len(s) /\ DOMAIN Tail(s) = 1..Len(Tail(s))
  OBVIOUS
<1>2. \A i \in 1..Len(Tail(s)) : Tail(s)[i] = s[i + 1]
  OBVIOUS
<1>3. Head(s) = s[1]
  OBVIOUS
<1>4. \A x : x \in Range(Tail(s)) => x \in Range(s)
  BY <1>1, <1>2 DEF Range
<1>5. \A x : x \in Range(s) => x = Head(s) \/ x \in Range(Tail(s))
  <2> SUFFICES ASSUME NEW i \in 1..Len(s), i # 1  PROVE s[i] \in Range(Tail(s))
    BY <1>3 DEF Range
  <2>1. i - 1 \in 1..Len(Tail(s)) /\ Tail(s)[i - 1] = s[i]
    BY <1>1, <1>2
  <2> QED
    BY <1>1, <2>1, Zenon DEF Range
<1>6. IsInjective(s) => IsInjective(Tail(s))
  BY <1>1, <1>2 DEF IsInjective
<1>7. Head(s) \in Range(s)
  BY <1>1, <1>3 DEF Range
<1> QED
  BY <1>1, <1>4, <1>5, <1>6, <1>7

LEMMA RemoveMember ==
  ASSUME NEW S, NEW s \in Seq(S), IsInjective(s), NEW e
  PROVE  /\ Without(s, e) \in Seq(S) /\ IsInjective(Without(s, e))
         /\ \A x : x \in Range(Without(s, e)) <=> x \in Range(s) /\ x # e
<1>1. CASE e \notin Range(s)
  BY <1>1 DEF Without, Range
<1>2. CASE e \in Range(s)
  <2>1. PICK k \in 1..Len(s) : s[k] = e /\ k = CHOOSE i \in DOMAIN s : s[i] = e
    BY <1>2 DEF Range
  <2> DEFINE a == SubSeq(s, 1, k - 1)
             b == SubSeq(s, k + 1, Len(s))
             r == a \o b
  <2>4. Without(s, e) = r
    BY <1>2, <2>1, Zenon DEF Without
  <2>5. Len(s) \in Nat /\ k \in Nat /\ k >= 1 /\ k <= Len(s)
    BY <2>1
  <2>6. a \in Seq(S) /\ Len(a) = k - 1 /\ \A i \in 1..k - 1 : a[i] = s[i]
    BY <2>5
  <2>7. b \in Seq(S) /\ Len(b) = Len(s) - k /\ \A i \in 1..Len(s) - k : b[i] = s[k + i]
    BY <2>5
  <2> HIDE DEF a, b
  <2>8. /\ r \in Seq(S) /\ Len(r) = Len(a) + Len(b)
         /\ \A i \in 1..Len(a) + Len(b) : r[i] = IF i <= Len(a) THEN a[i] ELSE b[i - Len(a)]
    BY <2>6, <2>7, ConcatProperties, Zenon
  <2>9. r \in Seq(S) /\ Len(r) = Len(s) - 1
    BY <2>5, <2>6, <2>7, <2>8
  <2>10. ASSUME NEW i \in 1..Len(r), i < k  PROVE r[i] = s[i]
    BY <2>5, <2>6, <2>7, <2>9, <2>10, <2>8
  <2>11. ASSUME NEW i \in 1..Len(r), i >= k  PROVE r[i] = s[i + 1]
    <3>1. i - (k - 1) \in 1..Len(s) - k /\ r[i] = b[i - (k - 1)]
      BY <2>5, <2>6, <2>7, <2>9, <2>11, <2>8
    <3> QED
      BY <2>5, <2>7, <3>1
  <2> HIDE DEF r
  <2>12. \A i \in 1..Len(r) :
            \E j \in 1..Len(s) : r[i] = s[j] /\ j # k /\ j = (IF i < k THEN i ELSE i + 1)
    BY <2>5, <2>9, <2>10, <2>11
  <2>13. \A i, j \in 1..Len(s) : s[i] = s[j] => i = j
    BY DEF IsInjective
  <2>14. IsInjective(r)
    <3> SUFFICES ASSUME NEW i \in 1..Len(r), NEW j \in 1..Len(r), r[i] = r[j]  PROVE i = j
      BY <2>9 DEF IsInjective
    <3> QED
      BY <2>5, <2>9, <2>12, <2>13
  <2>15. ASSUME NEW x, x \in Range(r)  PROVE x \in Range(s) /\ x # e
    <3>1. PICK i \in 1..Len(r) : r[i] = x
      BY <2>9, <2>15 DEF Range
    <3>2. PICK j \in 1..Len(s) : r[i] = s[j] /\ j # k
      BY <2>12
    <3>3. x # e
      BY <2>1, <2>13, <3>1, <3>2
    <3>4. DOMAIN s = 1..Len(s)
      OBVIOUS
    <3> QED
      BY <3>1, <3>2, <3>3, <3>4 DEF Range
  <2>16. ASSUME NEW x, x \in Range(s), x # e  PROVE x \in Range(r)
    <3>1. PICK i \in 1..Len(s) : s[i] = x
      BY <2>16 DEF Range
    <3>2. CASE i < k
      BY <2>5, <2>9, <2>10, <3>1, <3>2 DEF Range
    <3>3. CASE i > k
      <4>1. i - 1 \in 1..Len(r) /\ r[i - 1] = x
        BY <2>5, <2>9, <2>11, <3>1, <3>3
      <4> QED
        BY <2>9, <4>1 DEF Range
    <3> QED
      BY <2>1, <2>5, <2>16, <3>1, <3>2, <3>3
  <2> QED
    BY <2>4, <2>9, <2>16, <2>14, <2>15
<1> QED
  BY <1>1, <1>2

-------------------------------------------------------------------------------
(* The layer's critical sections.  An empty set of typing diagnostics is the   *)
(* overlay 0, so a set_pc that returns early leaves what it would have stored. *)
LEMMA SetPcLayer ==
  ASSUME DiagTypes, LayerInv, NEW u \in Uris, NEW v \in Nat, set_pc(u, v)
  PROVE  /\ LayerInv' /\ UNCHANGED bsp /\ pc' = [pc EXCEPT ![u] = v]
         /\ shown' \in [Uris -> [bsp : SUBSET Diags, pc : Nat]]
<1>1. CASE v = 0 /\ pc[u] = 0
  BY <1>1 DEF set_pc, DiagTypes, LayerInv
<1>2. CASE ~ (v = 0 /\ pc[u] = 0)
  <2>1. UNCHANGED bsp /\ pc' = [pc EXCEPT ![u] = v] /\ emit(u, bsp[u], v)
    BY <1>2 DEF set_pc
  <2>2. shown' = [shown EXCEPT ![u] = [bsp |-> bsp[u], pc |-> v]]
    BY <1>2, <2>1, Zenon DEF emit, LayerInv
  <2>3. published_non_empty' = IF bsp[u] # {} \/ v # 0 THEN published_non_empty \cup {u}
                               ELSE published_non_empty \ {u}
    BY <2>1 DEF emit
  <2> QED
    BY <2>1, <2>2, <2>3 DEF LayerInv, DiagTypes
<1> QED
  BY <1>1, <1>2

LEMMA BspPublishedLayer ==
  ASSUME DiagTypes, LayerInv, NEW u \in Uris, NEW D \in SUBSET Diags, bsp_published(u, D)
  PROVE  /\ LayerInv' /\ bsp' = [bsp EXCEPT ![u] = D] /\ pc' = [pc EXCEPT ![u] = 0]
         /\ shown' \in [Uris -> [bsp : SUBSET Diags, pc : Nat]]
<1>1. bsp' = [bsp EXCEPT ![u] = D] /\ pc' = [pc EXCEPT ![u] = 0] /\ emit(u, D, 0)
  BY DEF bsp_published
<1>2. shown' = [shown EXCEPT ![u] = [bsp |-> D, pc |-> 0]]
  <2>1. CASE D # {} \/ u \in published_non_empty
    BY <1>1, <2>1 DEF emit
  <2>2. CASE D = {} /\ u \notin published_non_empty
    <3>1. shown' = shown
      BY <1>1, <2>2 DEF emit
    <3>2. shown[u] = [bsp |-> D, pc |-> 0]
      BY <2>2, Zenon DEF LayerInv
    <3> QED
      BY <3>1, <3>2 DEF DiagTypes
  <2> QED
    BY <2>1, <2>2
<1>3. published_non_empty' = IF D # {} THEN published_non_empty \cup {u}
                             ELSE published_non_empty \ {u}
  BY <1>1 DEF emit
<1>4. shown' \in [Uris -> [bsp : SUBSET Diags, pc : Nat]]
  BY <1>2 DEF DiagTypes
<1> QED
  BY <1>1, <1>2, <1>3, <1>4 DEF LayerInv, DiagTypes

(* Disarming, arming and taking a pull keep the map of armed pulls a map. *)
LEMMA ArmedTyped ==
  ASSUME due \in Seq(Uris), IsInjective(due), NEW u \in Uris,
         cancel(u) \/ schedule(u) \/ UNCHANGED due
  PROVE  due' \in Seq(Uris) /\ IsInjective(due')
<1>1. CASE cancel(u)
  BY <1>1, RemoveMember DEF cancel
<1>2. CASE schedule(u)
  BY <1>2, AppendMember DEF schedule
<1> QED
  BY <1>1, <1>2

PublishInv == DiagTypes /\ LayerInv /\ RouterInv

(* Every step keeps the layer's sets, the router's and the editor's in line. *)
LEMMA PublishStep == PublishInv /\ [DiagNext]_diagVars => PublishInv'
<1> SUFFICES ASSUME PublishInv, [DiagNext]_diagVars  PROVE PublishInv'
  OBVIOUS
<1> USE DEF PublishInv
<1>0. ASSUME UNCHANGED <<routerVars, layerVars>>  PROVE LayerInv' /\ RouterInv'
  BY <1>0 DEF routerVars, layerVars, LayerInv, RouterInv
<1>r. ASSUME UNCHANGED <<routerVars, bsp>>  PROVE RouterInv'
  BY <1>r DEF routerVars, RouterInv
<1>1. ASSUME NEW u \in Uris, did_open(u) \/ did_change(u) \/ did_close(u)  PROVE PublishInv'
  <2>2. text' \in [Uris -> Nat]
    <3> DEFINE next == (text[u] % Versions) + 1
    <3>1. next \in Nat
      BY PcDiagnosticsConstants DEF DiagTypes
    <3>2. \E n \in {0, 1, next} : text' = [text EXCEPT ![u] = n]
      BY <1>1 DEF did_open, did_change, did_close
    <3> HIDE DEF next
    <3> QED
      BY <3>1, <3>2 DEF DiagTypes
  <2>3. buf' \in [Uris -> {"closed", "clean", "dirty"}]
    BY <1>1, Zenon DEF did_open, did_change, did_close, DiagTypes
  <2>4. mloop' \in [op : {"open", "change", "close"}, uri : Uris]
    BY <1>1 DEF did_open, did_change, did_close
  <2>5. UNCHANGED <<booted, mirror, dueVars, worker, routerVars, layerVars>>
    BY <1>1 DEF did_open, did_change, did_close
  <2>1. DiagTypes'
    BY <2>2, <2>3, <2>4, <2>5 DEF DiagTypes, dueVars, routerVars, layerVars
  <2> QED
    BY <1>0, <1>1, <2>1 DEF did_open, did_change, did_close
<1>2. ASSUME NEW u \in Uris, did_save(u)  PROVE PublishInv'
  <2>1. cancel(u) /\ set_pc(u, 0)
    BY <1>2 DEF did_save, clear_pc
  <2>2. due' \in Seq(Uris) /\ IsInjective(due')
    BY <2>1, ArmedTyped DEF DiagTypes
  <2>3. /\ LayerInv' /\ UNCHANGED bsp /\ pc' = [pc EXCEPT ![u] = 0]
        /\ shown' \in [Uris -> [bsp : SUBSET Diags, pc : Nat]]
    BY <2>1, SetPcLayer
  <2>4. UNCHANGED <<text, mloop, booted, mirror, worker, routerVars>>
    BY <1>2 DEF did_save
  <2>5. buf' \in [Uris -> {"closed", "clean", "dirty"}] /\ pc' \in [Uris -> Nat]
    BY <1>2, <2>3 DEF did_save, DiagTypes
  <2>6. DiagTypes'
    BY <2>2, <2>3, <2>4, <2>5 DEF DiagTypes, routerVars
  <2> QED
    BY <1>r, <2>3, <2>4, <2>6
<1>3. ASSUME MirrorOpen  PROVE PublishInv'
  <2>1. mloop.uri \in Uris
    BY <1>3 DEF MirrorOpen, DiagTypes, Idle
  <2>2. DiagTypes'
    BY <1>3, <2>1, Zenon DEF MirrorOpen, DiagTypes, docVars, dueVars, routerVars, layerVars
  <2> QED
    BY <1>0, <1>3, <2>2 DEF MirrorOpen
<1>4. ASSUME MirrorChange  PROVE PublishInv'
  <2>1. mloop.uri \in Uris
    BY <1>4 DEF MirrorChange, DiagTypes, Idle
  <2>2. due' \in Seq(Uris) /\ IsInjective(due')
    BY <1>4, <2>1, ArmedTyped DEF MirrorChange, DiagTypes, dueVars
  <2>3. mirror' \in [Uris -> Nat]
    BY <1>4, <2>1 DEF MirrorChange, DiagTypes
  <2>4. DiagTypes'
    BY <1>4, <2>2, <2>3 DEF MirrorChange, DiagTypes, docVars, routerVars, layerVars
  <2> QED
    BY <1>0, <1>4, <2>4 DEF MirrorChange
<1>5. ASSUME MirrorClose  PROVE PublishInv'
  <2>1. mloop.uri \in Uris /\ cancel(mloop.uri) /\ set_pc(mloop.uri, 0)
    BY <1>5 DEF MirrorClose, clear_pc, DiagTypes, Idle
  <2>2. due' \in Seq(Uris) /\ IsInjective(due')
    BY <2>1, ArmedTyped DEF DiagTypes
  <2>3. /\ LayerInv' /\ UNCHANGED bsp /\ pc' = [pc EXCEPT ![mloop.uri] = 0]
        /\ shown' \in [Uris -> [bsp : SUBSET Diags, pc : Nat]]
    BY <2>1, SetPcLayer
  <2>4. mirror' \in [Uris -> Nat]
    BY <1>5, <2>1 DEF MirrorClose, DiagTypes
  <2>5. mloop' = Idle /\ UNCHANGED <<docVars, booted, worker, routerVars>>
    BY <1>5 DEF MirrorClose
  <2>6. pc' \in [Uris -> Nat]
    BY <2>1, <2>3 DEF DiagTypes
  <2>7. DiagTypes'
    BY <2>2, <2>3, <2>4, <2>5, <2>6, Zenon DEF DiagTypes, docVars, routerVars
  <2> QED
    BY <1>r, <2>3, <2>5, <2>7
<1>6. ASSUME boot  PROVE PublishInv'
  <2>1. DiagTypes'
    BY <1>6 DEF boot, DiagTypes, docVars, dueVars, routerVars, layerVars
  <2> QED
    BY <1>0, <1>6, <2>1 DEF boot
<1>7. ASSUME reload  PROVE PublishInv'
  <2>1. mirror' \in [Uris -> Nat]
    BY <1>7 DEF reload, DiagTypes
  <2>2. due' \in Seq(Uris) /\ IsInjective(due')
    BY <1>7 DEF reload, IsInjective
  <2>3. DiagTypes'
    BY <1>7, <2>1, <2>2 DEF reload, DiagTypes, docVars, routerVars, layerVars
  <2> QED
    BY <1>0, <1>7, <2>3 DEF reload
<1>8. ASSUME DebounceElapses  PROVE PublishInv'
  <2>1. DiagTypes'
    BY <1>8, Zenon DEF DebounceElapses, DiagTypes, docVars, routerVars, layerVars
  <2> QED
    BY <1>0, <1>8, <2>1 DEF DebounceElapses
<1>9. ASSUME PullBegins  PROVE PublishInv'
  <2>1. Head(due) \in Uris /\ due' \in Seq(Uris) /\ IsInjective(due')
    BY <1>9, TailMember DEF PullBegins, DiagTypes
  <2>2. CASE UNCHANGED layerVars
    <3>1. DiagTypes'
      BY <1>9, <2>1, <2>2 DEF PullBegins, DiagTypes, docVars, routerVars, layerVars
    <3> QED
      BY <1>0, <1>9, <2>2, <3>1, Zenon DEF PullBegins
  <2>3. CASE set_pc(Head(due), 0) /\ UNCHANGED worker
    <3>1. /\ LayerInv' /\ UNCHANGED bsp /\ pc' = [pc EXCEPT ![Head(due)] = 0]
          /\ shown' \in [Uris -> [bsp : SUBSET Diags, pc : Nat]]
      BY <2>1, <2>3, SetPcLayer
    <3>2. pc' \in [Uris -> Nat]
      BY <2>1, <3>1 DEF DiagTypes
    <3>3. UNCHANGED <<docVars, mloop, booted, mirror, routerVars>>
      BY <1>9 DEF PullBegins
    <3>4. DiagTypes'
      BY <2>1, <2>3, <3>1, <3>2, <3>3, Zenon DEF DiagTypes, docVars, routerVars
    <3> QED
      BY <1>r, <3>1, <3>3, <3>4
  <2> QED
    BY <1>9, <2>2, <2>3, Zenon DEF PullBegins, clear_pc
<1>10. ASSUME PullAnswers  PROVE PublishInv'
  <2>1. DiagTypes'
    <3>1. worker \in [at : {"query", "recheck", "set"}, uri : Uris, got : Nat]
      BY <1>10 DEF PullAnswers, DiagTypes, NoPull
    <3>2. worker' \in [at : {"query", "recheck", "set"}, uri : Uris, got : Nat]
      <4>1. mirror[worker.uri] \in Nat
        BY <3>1 DEF DiagTypes
      <4>2. PICK got \in {0, mirror[worker.uri]} :
              worker' = [worker EXCEPT !.at = "recheck", !.got = got]
        BY <1>10, Zenon DEF PullAnswers
      <4>3. got \in Nat
        BY <4>1
      <4> QED
        BY <3>1, <4>2, <4>3, Zenon
    <3>3. UNCHANGED <<docVars, mloop, booted, mirror, dueVars, routerVars, layerVars>>
      BY <1>10 DEF PullAnswers
    <3> QED
      BY <3>2, <3>3 DEF DiagTypes, docVars, dueVars, routerVars, layerVars
  <2> QED
    BY <1>0, <1>10, <2>1 DEF PullAnswers
<1>11. ASSUME PullRechecks  PROVE PublishInv'
  <2>1. worker \in [at : {"query", "recheck", "set"}, uri : Uris, got : Nat]
    BY <1>11 DEF PullRechecks, DiagTypes, NoPull
  <2>2. CASE worker' = [worker EXCEPT !.at = "set"] /\ UNCHANGED layerVars
    <3>1. DiagTypes'
      BY <1>11, <2>1, <2>2, Zenon DEF PullRechecks, DiagTypes, docVars, dueVars, routerVars, layerVars
    <3> QED
      BY <1>0, <1>11, <2>2, <3>1 DEF PullRechecks
  <2>3. CASE set_pc(worker.uri, 0) /\ worker' = NoPull
    <3>1. /\ LayerInv' /\ UNCHANGED bsp /\ pc' = [pc EXCEPT ![worker.uri] = 0]
          /\ shown' \in [Uris -> [bsp : SUBSET Diags, pc : Nat]]
      BY <2>1, <2>3, SetPcLayer
    <3>2. pc' \in [Uris -> Nat]
      BY <2>1, <3>1 DEF DiagTypes
    <3>3. UNCHANGED <<docVars, mloop, booted, mirror, dueVars, routerVars>>
      BY <1>11 DEF PullRechecks
    <3>4. DiagTypes'
      BY <2>3, <3>1, <3>2, <3>3, Zenon DEF DiagTypes, docVars, dueVars, routerVars
    <3> QED
      BY <1>r, <3>1, <3>3, <3>4
  <2> QED
    BY <1>11, <2>2, <2>3 DEF PullRechecks, clear_pc
<1>12. ASSUME PullPublishes  PROVE PublishInv'
  <2>1. worker \in [at : {"query", "recheck", "set"}, uri : Uris, got : Nat]
    BY <1>12 DEF PullPublishes, DiagTypes, NoPull
  <2>2. /\ LayerInv' /\ UNCHANGED bsp /\ pc' = [pc EXCEPT ![worker.uri] = worker.got]
        /\ shown' \in [Uris -> [bsp : SUBSET Diags, pc : Nat]]
    BY <1>12, <2>1, SetPcLayer DEF PullPublishes
  <2>3. pc' \in [Uris -> Nat]
    BY <2>1, <2>2 DEF DiagTypes
  <2>4. worker' = NoPull /\ UNCHANGED <<docVars, mloop, booted, mirror, dueVars, routerVars>>
    BY <1>12, Zenon DEF PullPublishes
  <2>5. DiagTypes'
    BY <2>2, <2>3, <2>4, Zenon DEF DiagTypes, docVars, dueVars, routerVars
  <2> QED
    BY <1>r, <2>2, <2>4, <2>5
<1>13. ASSUME NEW u \in Uris, NEW t \in Targets, NEW reset \in BOOLEAN,
              NEW incoming \in SUBSET Diags, accept(u, t, reset, incoming)
       PROVE  PublishInv'
  <2> DEFINE M == merged(u, t, reset, incoming)
             D == UNION {M[x] : x \in Targets}
  <2>1. M \in [Targets -> SUBSET Diags]
    BY DEF merged, DiagTypes
  <2> HIDE DEF M
  <2>2. D \in SUBSET Diags
    BY <2>1, Zenon
  <2>3. /\ by_uri' = [by_uri EXCEPT ![u] = M]
        /\ router_published' = IF D # {} THEN router_published \cup {u} ELSE router_published \ {u}
        /\ IF D # {} \/ u \in router_published THEN bsp_published(u, D) ELSE UNCHANGED layerVars
        /\ UNCHANGED <<docVars, mloop, booted, mirror, dueVars, worker>>
    BY <1>13 DEF accept, M
  <2>4. by_uri' \in [Uris -> [Targets -> SUBSET Diags]] /\ by_uri'[u] = M
        /\ \A w \in Uris \ {u} : by_uri'[w] = by_uri[w]
    BY <2>1, <2>3 DEF DiagTypes
  <2>5. UNION {by_uri'[u][x] : x \in Targets} = D
    BY <2>4
  <2> HIDE DEF D
  <2>6. /\ LayerInv' /\ bsp' = [bsp EXCEPT ![u] = D] /\ pc' \in [Uris -> Nat]
        /\ shown' \in [Uris -> [bsp : SUBSET Diags, pc : Nat]]
    <3>1. CASE D # {} \/ u \in router_published
      <4>1. bsp_published(u, D)
        BY <2>3, <3>1
      <4>2. /\ LayerInv' /\ bsp' = [bsp EXCEPT ![u] = D] /\ pc' = [pc EXCEPT ![u] = 0]
            /\ shown' \in [Uris -> [bsp : SUBSET Diags, pc : Nat]]
        BY <2>2, <4>1, BspPublishedLayer, Zenon
      <4> QED
        BY <4>2 DEF DiagTypes
    <3>2. CASE ~ (D # {} \/ u \in router_published)
      <4>1. UNCHANGED layerVars /\ bsp[u] = D
        BY <2>3, <3>2, Zenon DEF RouterInv
      <4> QED
        BY <4>1, Zenon DEF layerVars, LayerInv, DiagTypes
    <3> QED
      BY <3>1, <3>2
  <2>7. DiagTypes'
    BY <2>2, <2>3, <2>4, <2>6, Zenon DEF DiagTypes, docVars, dueVars
  <2>8. RouterInv'
    BY <2>3, <2>4, <2>5, <2>6 DEF RouterInv, DiagTypes
  <2> QED
    BY <2>6, <2>7, <2>8
<1>14. ASSUME UNCHANGED diagVars  PROVE PublishInv'
  <2>1. DiagTypes'
    BY <1>14 DEF diagVars, docVars, dueVars, routerVars, layerVars, DiagTypes
  <2> QED
    BY <1>0, <1>14, <2>1 DEF diagVars
<1> QED
  BY <1>1, <1>2, <1>3, <1>4, <1>5, <1>6, <1>7, <1>8, <1>9, <1>10, <1>11, <1>12, <1>13, <1>14
     DEF DiagNext, Notification, LoopFinishes, WorkerPulls, BuildServer

-------------------------------------------------------------------------------
(* A handler begins with its buffer in the state it needs, and between two     *)
(* handlers nothing but a save touches the document store.                     *)
LEMMA BufferStep == DiagTypes /\ BufferInv /\ [DiagNext]_diagVars => BufferInv'
<1> SUFFICES ASSUME DiagTypes, BufferInv, [DiagNext]_diagVars, NEW w \in Uris
             PROVE  BufferAt(w)'
  BY DEF BufferInv
<1>0. BufferAt(w) /\ text[w] \in Nat
  BY Zenon DEF BufferInv, DiagTypes
<1>1. ASSUME NEW u \in Uris, did_open(u) \/ did_close(u)  PROVE BufferAt(w)'
  BY <1>0, <1>1 DEF did_open, did_close, BufferAt, Handling, DiagTypes, Idle
<1>2. ASSUME NEW u \in Uris, did_change(u)  PROVE BufferAt(w)'
  <2>1. (text[u] % Versions) + 1 # 0
    BY PcDiagnosticsConstants DEF DiagTypes
  <2>2. text' = [text EXCEPT ![u] = (text[u] % Versions) + 1]
    BY <1>2 DEF did_change
  <2>3. text'[u] # 0 /\ (w # u => text'[w] = text[w])
    BY <2>1, <2>2 DEF DiagTypes
  <2>4. \E state \in {"clean", "dirty"} : buf' = [buf EXCEPT ![u] = state]
    BY <1>2, Zenon DEF did_change
  <2>5. mloop' = [op |-> "change", uri |-> u] /\ mloop = Idle
    BY <1>2, Zenon DEF did_change
  <2> QED
    BY <1>0, <2>3, <2>4, <2>5 DEF BufferAt, Handling, DiagTypes, Idle
<1>3. ASSUME NEW u \in Uris, did_save(u)  PROVE BufferAt(w)'
  BY <1>0, <1>3, Zenon DEF did_save, BufferAt, Handling, DiagTypes, Idle
<1>4. ASSUME UNCHANGED docVars, mloop' = Idle \/ UNCHANGED mloop  PROVE BufferAt(w)'
  BY <1>0, <1>4 DEF docVars, BufferAt, Handling, Idle
<1>5. CASE LoopFinishes \/ boot \/ reload
  BY <1>4, <1>5 DEF LoopFinishes, MirrorOpen, MirrorChange, MirrorClose, boot, reload
<1>6. CASE DebounceElapses \/ WorkerPulls
  BY <1>4, <1>6, Zenon
     DEF DebounceElapses, WorkerPulls, PullBegins, PullAnswers, PullRechecks, PullPublishes
<1>7. CASE BuildServer
  BY <1>4, <1>7 DEF BuildServer, accept
<1>8. CASE UNCHANGED diagVars
  BY <1>4, <1>8, Zenon DEF diagVars
<1> QED
  BY <1>1, <1>2, <1>3, <1>5, <1>6, <1>7, <1>8 DEF DiagNext, Notification

(* Nothing about a file but the rest of the world has changed. *)
SameFile(w) ==
  /\ buf'[w] = buf[w] /\ mirror'[w] = mirror[w] /\ pc'[w] = pc[w]
  /\ w \in Range(due') <=> w \in Range(due)
  /\ w \in excused' <=> w \in excused

(* A handler that runs on another file, or none, leaves this one's overlay. *)
LEMMA OtherFile ==
  ASSUME OverlayInv, NEW w \in Uris, SameFile(w), UNCHANGED <<booted, worker>>,
         mloop = Idle \/ mloop.uri # w, mloop' = Idle \/ mloop'.uri # w
  PROVE  OverlayAt(w)'
BY DEF OverlayInv, OverlayAt, SameFile, Unmirrored, UnmirroredQuiet, UnheldEmpty, RecheckSound,
       SetSound, OverlaySound, Coming, Fresh, Handling, Pulling, Idle

(* The notifications and the handlers' second halves, file by file. *)
LEMMA HandlerStep ==
  ASSUME DiagTypes, LayerInv, BufferInv, OverlayInv, NEW w \in Uris,
         Notification \/ LoopFinishes
  PROVE  OverlayAt(w)'
<1> USE DEF Unmirrored, Handling, Pulling
<1>0. OverlayAt(w) /\ BufferAt(w)
  BY DEF OverlayInv, BufferInv
<1>1. ASSUME NEW u \in Uris, did_open(u) \/ did_change(u) \/ did_close(u)  PROVE OverlayAt(w)'
  <2>1. /\ mloop = Idle /\ \E op \in {"open", "change", "close"} : mloop' = [op |-> op, uri |-> u]
        /\ UNCHANGED <<booted, mirror, due, worker, pc, excused>>
        /\ \E b : buf' = [buf EXCEPT ![u] = b]
    BY <1>1, Zenon DEF did_open, did_change, did_close, dueVars, layerVars
  <2>2. CASE w # u
    <3>1. buf'[w] = buf[w]
      BY <2>1, <2>2, Zenon DEF DiagTypes
    <3> QED
      BY <2>1, <2>2, <3>1, OtherFile DEF SameFile
  <2>3. CASE w = u /\ did_open(u)
    <3>1. buf[w] = "closed" /\ mloop' = [op |-> "open", uri |-> w] /\ buf'[w] # "closed"
      BY <2>3, Zenon DEF did_open, DiagTypes
    <3> QED
      BY <1>0, <2>1, <3>1, Zenon DEF OverlayAt, UnmirroredQuiet, UnheldEmpty, RecheckSound, SetSound,
                              OverlaySound, Coming, Fresh, Idle
  <2>4. CASE w = u /\ did_change(u)
    <3>1. mloop' = [op |-> "change", uri |-> w] /\ buf'[w] # "closed" /\ buf[w] # "closed"
      BY <2>4, Zenon DEF did_change, DiagTypes
    <3> QED
      BY <1>0, <2>1, <3>1, Zenon DEF OverlayAt, UnmirroredQuiet, UnheldEmpty, RecheckSound, SetSound,
                              OverlaySound, Coming, Fresh, Idle
  <2>5. CASE w = u /\ did_close(u)
    <3>1. mloop' = [op |-> "close", uri |-> w] /\ buf'[w] = "closed"
      BY <2>5 DEF did_close, DiagTypes
    <3> QED
      BY <1>0, <2>1, <3>1, Zenon DEF OverlayAt, UnmirroredQuiet, UnheldEmpty, RecheckSound, SetSound,
                              OverlaySound, Coming, Fresh, Idle
  <2> QED
    BY <1>1, <2>2, <2>3, <2>4, <2>5, Zenon
<1>2. ASSUME NEW u \in Uris, did_save(u)  PROVE OverlayAt(w)'
  <2>1. /\ mloop = Idle /\ buf[u] # "closed" /\ buf' = [buf EXCEPT ![u] = "clean"]
        /\ cancel(u) /\ set_pc(u, 0) /\ Excuse(u, {"set"})
        /\ UNCHANGED <<mloop, booted, mirror, worker>>
    BY <1>2 DEF did_save, clear_pc
  <2>2. pc' = [pc EXCEPT ![u] = 0]
    BY <2>1, SetPcLayer, Zenon
  <2>3. w \in Range(due') <=> w \in Range(due) /\ w # u
    BY <2>1, RemoveMember, Zenon DEF cancel, DiagTypes
  <2>4. CASE w # u
    BY <2>1, <2>2, <2>3, <2>4, OtherFile, Zenon DEF SameFile, Excuse, DiagTypes
  <2>5. CASE w = u
    <3>1. pc'[w] = 0 /\ buf'[w] = "clean" /\ buf[w] # "closed"
      BY <2>1, <2>2, <2>5, Zenon DEF DiagTypes
    <3>2. w \in excused' <=> Pulling(w, {"set"})
      BY <2>1, <2>5 DEF Excuse
    <3> QED
      BY <1>0, <2>1, <2>3, <2>5, <3>1, <3>2, Zenon
         DEF OverlayAt, UnmirroredQuiet, UnheldEmpty, RecheckSound, SetSound, OverlaySound, Idle
  <2> QED
    BY <2>4, <2>5
<1>3. ASSUME MirrorOpen  PROVE OverlayAt(w)'
  <2>1. /\ mloop.op = "open" /\ mloop.uri \in Uris /\ worker.at # "query" /\ mloop' = Idle
        /\ UNCHANGED <<booted, buf, due, worker, pc, excused>>
    BY <1>3 DEF MirrorOpen, IslandFree, DiagTypes, Idle, docVars, dueVars, layerVars
  <2>2. mirror' = mirror \/ mirror' = [mirror EXCEPT ![mloop.uri] = text[mloop.uri]]
    BY <1>3, Zenon DEF MirrorOpen
  <2>3. CASE w # mloop.uri
    <3>1. mirror'[w] = mirror[w]
      BY <2>2, <2>3, Zenon DEF DiagTypes
    <3> QED
      BY <2>1, <2>3, <3>1, OtherFile DEF SameFile
  <2>4. CASE w = mloop.uri
    BY <1>0, <2>1, <2>4 DEF BufferAt, OverlayAt, UnmirroredQuiet, UnheldEmpty, RecheckSound,
                            SetSound, OverlaySound, Idle
  <2> QED
    BY <2>3, <2>4, Zenon
<1>4. ASSUME MirrorChange  PROVE OverlayAt(w)'
  <2> DEFINE m == mloop.uri
  <2>1. /\ mloop.op = "change" /\ m \in Uris /\ worker.at # "query" /\ mloop' = Idle
        /\ UNCHANGED <<booted, buf, worker, pc, excused>>
    BY <1>4 DEF MirrorChange, IslandFree, DiagTypes, Idle, docVars, layerVars
  <2>2. mirror' = mirror \/ mirror' = [mirror EXCEPT ![m] = text[m]]
    BY <1>4, Zenon DEF MirrorChange
  <2>3. w \in Range(due') <=> w \in Range(due) \/ (w = m /\ mirror'[m] # 0)
    <3>1. CASE mirror'[m] # 0
      <4>1. due' = IF m \in Range(due) THEN due ELSE Append(due, m)
        BY <1>4, <3>1, Zenon DEF MirrorChange, schedule
      <4>2. w \in Range(Append(due, m)) <=> w \in Range(due) \/ w = m
        BY <2>1, AppendMember DEF DiagTypes
      <4> QED
        BY <3>1, <4>1, <4>2, Zenon
    <3>2. CASE ~ (mirror'[m] # 0)
      BY <1>4, <3>2, Zenon DEF MirrorChange, dueVars
    <3> QED
      BY <3>1, <3>2, Zenon
  <2>4. CASE w # m
    <3>1. mirror'[w] = mirror[w]
      BY <2>2, <2>4, Zenon DEF DiagTypes
    <3> QED
      BY <2>1, <2>3, <2>4, <3>1, OtherFile, Zenon DEF SameFile
  <2>5. CASE w = m
    <3>1. buf[w] # "closed" /\ text[w] # 0
      BY <1>0, <2>1, <2>5, Zenon DEF BufferAt
    <3>2. CASE mirror'[w] # 0
      BY <1>0, <2>1, <2>3, <2>5, <3>1, <3>2, Zenon
         DEF OverlayAt, UnmirroredQuiet, UnheldEmpty, RecheckSound, SetSound, OverlaySound, Coming, Idle
    <3>3. CASE mirror'[w] = 0
      <4>1. mirror[w] = 0
        BY <2>1, <2>2, <2>5, <3>1, <3>3, Zenon DEF DiagTypes
      <4> QED
        BY <1>0, <2>1, <2>3, <2>5, <3>1, <3>3, <4>1, Zenon
           DEF OverlayAt, UnmirroredQuiet, UnheldEmpty, RecheckSound, SetSound, OverlaySound, Idle
    <3> QED
      BY <3>2, <3>3
  <2> QED
    BY <2>4, <2>5, Zenon
<1>5. ASSUME MirrorClose  PROVE OverlayAt(w)'
  <2> DEFINE m == mloop.uri
  <2>1. /\ mloop.op = "close" /\ m \in Uris /\ worker.at # "query" /\ mloop' = Idle
        /\ cancel(m) /\ set_pc(m, 0) /\ Excuse(m, {"recheck", "set"})
        /\ UNCHANGED <<booted, buf, worker>>
    BY <1>5 DEF MirrorClose, clear_pc, IslandFree, DiagTypes, Idle, docVars
  <2>2. mirror' = mirror \/ mirror' = [mirror EXCEPT ![m] = 0]
    BY <1>5 DEF MirrorClose
  <2>3. pc' = [pc EXCEPT ![m] = 0]
    BY <2>1, SetPcLayer, Zenon
  <2>4. w \in Range(due') <=> w \in Range(due) /\ w # m
    BY <2>1, RemoveMember DEF cancel, DiagTypes
  <2>5. CASE w # m
    <3>1. mirror'[w] = mirror[w] /\ pc'[w] = pc[w] /\ (w \in excused' <=> w \in excused)
      BY <2>1, <2>2, <2>3, <2>5, Zenon DEF DiagTypes, Excuse
    <3> QED
      BY <2>1, <2>4, <2>5, <3>1, OtherFile, Zenon DEF SameFile
  <2>6. CASE w = m
    <3>1. pc'[w] = 0
      BY <2>1, <2>3, <2>6, Zenon DEF DiagTypes
    <3>2. w \in excused' <=> Pulling(w, {"recheck", "set"})
      BY <2>1, <2>6 DEF Excuse
    <3> QED
      BY <1>0, <2>1, <2>4, <2>6, <3>1, <3>2, Zenon
         DEF OverlayAt, UnmirroredQuiet, UnheldEmpty, RecheckSound, SetSound, OverlaySound, Idle
  <2> QED
    BY <2>5, <2>6
<1> QED
  BY <1>1, <1>2, <1>3, <1>4, <1>5 DEF Notification, LoopFinishes

(* The worker's steps, a reload, the boot and the build server, file by file. *)
LEMMA WorkerStep ==
  ASSUME DiagTypes, LayerInv, BufferInv, OverlayInv, NEW w \in Uris,
         WorkerPulls \/ DebounceElapses \/ reload \/ boot
  PROVE  OverlayAt(w)'
<1> USE DEF Unmirrored, Handling, Pulling
<1>0. OverlayAt(w)
  BY DEF OverlayInv
<1>1. ASSUME PullBegins  PROVE OverlayAt(w)'
  <2> DEFINE u == Head(due)
  <2>1. /\ worker = NoPull /\ due # <<>> /\ due' = Tail(due) /\ UNCHANGED <<buf, mloop, booted, mirror>>
    BY <1>1, Zenon DEF PullBegins, docVars
  <2>2. u \in Uris /\ u \in Range(due) /\ (w \in Range(due') => w \in Range(due))
        /\ (w \in Range(due) => w = u \/ w \in Range(due'))
    BY <2>1, TailMember, Zenon DEF DiagTypes
  <2>3. CASE ~ booted
    <3>1. UNCHANGED <<excused, worker, pc>>
      BY <1>1, <2>3 DEF PullBegins, layerVars
    <3> QED
      BY <1>0, <2>1, <2>2, <2>3, <3>1, Zenon
         DEF OverlayAt, UnmirroredQuiet, UnheldEmpty, RecheckSound, SetSound, OverlaySound, NoPull
  <2>4. CASE booted /\ DirtyAndOpen(u)
    <3>1. /\ excused' = excused \ {u} /\ worker' = [at |-> "query", uri |-> u, got |-> 0]
          /\ UNCHANGED pc
      BY <1>1, <2>4, Zenon DEF PullBegins, layerVars
    <3>2. mirror[u] # 0
      BY <2>4 DEF DirtyAndOpen
    <3>3. CASE w = u
      BY <1>0, <2>1, <2>2, <2>4, <3>1, <3>2, <3>3, Zenon
         DEF OverlayAt, UnmirroredQuiet, UnheldEmpty, RecheckSound, SetSound, OverlaySound
    <3>4. CASE w # u
      BY <1>0, <2>1, <2>2, <2>4, <3>1, <3>4, Zenon
         DEF OverlayAt, UnmirroredQuiet, UnheldEmpty, RecheckSound, SetSound, OverlaySound,
             Coming, Fresh, NoPull
    <3> QED
      BY <3>3, <3>4
  <2>5. CASE booted /\ ~ DirtyAndOpen(u)
    <3>1. excused' = excused \ {u} /\ set_pc(u, 0) /\ worker' = worker
      BY <1>1, <2>5 DEF PullBegins, clear_pc
    <3>2. pc' = [pc EXCEPT ![u] = 0]
      BY <2>2, <3>1, SetPcLayer, Zenon
    <3>3. pc'[w] = IF w = u THEN 0 ELSE pc[w]
      BY <2>2, <3>2, Zenon DEF DiagTypes
    <3> QED
      BY <1>0, <2>1, <2>2, <2>5, <3>1, <3>3, Zenon
         DEF OverlayAt, UnmirroredQuiet, UnheldEmpty, RecheckSound, SetSound, OverlaySound,
             Coming, Fresh, NoPull
  <2> QED
    BY <2>3, <2>4, <2>5, Zenon DEF DiagTypes
<1>2. ASSUME PullAnswers  PROVE OverlayAt(w)'
  <2>1. /\ worker.at = "query" /\ UNCHANGED <<buf, mloop, booted, mirror, due, pc, excused>>
        /\ worker \in [at : {"query", "recheck", "set"}, uri : Uris, got : Nat]
    BY <1>2 DEF PullAnswers, docVars, dueVars, layerVars, DiagTypes, NoPull
  <2>2. PICK got \in {0, mirror[worker.uri]} :
          worker' = [worker EXCEPT !.at = "recheck", !.got = got]
    BY <1>2, Zenon DEF PullAnswers
  <2>3. worker'.at = "recheck" /\ worker'.uri = worker.uri /\ worker'.got \in {0, mirror[worker.uri]}
    BY <2>1, <2>2, Zenon
  <2>4. booted
    BY <1>0, <2>1 DEF OverlayAt, NoPull, DiagTypes
  <2> QED
    BY <1>0, <2>1, <2>3, <2>4
       DEF OverlayAt, UnmirroredQuiet, UnheldEmpty, RecheckSound, SetSound, OverlaySound, Coming, Fresh
<1>3. ASSUME PullRechecks  PROVE OverlayAt(w)'
  <2>1. /\ worker.at = "recheck" /\ UNCHANGED <<buf, mloop, booted, mirror, due, excused>>
        /\ worker \in [at : {"query", "recheck", "set"}, uri : Uris, got : Nat]
    BY <1>3 DEF PullRechecks, docVars, dueVars, DiagTypes, NoPull
  <2>2. booted
    BY <1>0, <2>1 DEF OverlayAt, NoPull, DiagTypes
  <2>3. CASE DirtyAndOpen(worker.uri)
    <3>1. worker' = [worker EXCEPT !.at = "set"] /\ UNCHANGED pc
      BY <1>3, <2>3 DEF PullRechecks, layerVars
    <3>2. worker'.at = "set" /\ worker'.uri = worker.uri /\ worker'.got = worker.got
      BY <2>1, <3>1, Zenon
    <3> QED
      BY <1>0, <2>1, <2>2, <2>3, <3>1, <3>2
         DEF OverlayAt, UnmirroredQuiet, UnheldEmpty, RecheckSound, SetSound, OverlaySound,
             Coming, Fresh, DirtyAndOpen
  <2>4. CASE ~ DirtyAndOpen(worker.uri)
    <3>1. set_pc(worker.uri, 0) /\ worker' = NoPull
      BY <1>3, <2>4 DEF PullRechecks, clear_pc
    <3>2. pc' = [pc EXCEPT ![worker.uri] = 0]
      BY <2>1, <3>1, SetPcLayer, Zenon
    <3>3. pc'[w] = IF w = worker.uri THEN 0 ELSE pc[w]
      BY <2>1, <3>2, Zenon DEF DiagTypes
    <3> QED
      BY <1>0, <2>1, <2>2, <3>1, <3>3
         DEF OverlayAt, UnmirroredQuiet, UnheldEmpty, RecheckSound, SetSound, OverlaySound,
             Coming, Fresh, NoPull
  <2> QED
    BY <2>3, <2>4
<1>4. ASSUME PullPublishes  PROVE OverlayAt(w)'
  <2>1. worker.at = "set" /\ UNCHANGED <<buf, mloop, booted, mirror, due, excused>>
    BY <1>4 DEF PullPublishes, docVars, dueVars
  <2>2. worker \in [at : {"query", "recheck", "set"}, uri : Uris, got : Nat]
    <3>1. worker # NoPull
      BY <2>1 DEF NoPull
    <3> QED
      BY <3>1 DEF DiagTypes
  <2>3. booted
    BY <1>0, <2>1 DEF OverlayAt, NoPull, DiagTypes
  <2>4. worker' = NoPull /\ pc' = [pc EXCEPT ![worker.uri] = worker.got]
    BY <1>4, <2>2, SetPcLayer, Zenon DEF PullPublishes
  <2>5. pc'[w] = IF w = worker.uri THEN worker.got ELSE pc[w]
    BY <2>2, <2>4, Zenon DEF DiagTypes
  <2> QED
    BY <1>0, <2>1, <2>2, <2>3, <2>4, <2>5
       DEF OverlayAt, UnmirroredQuiet, UnheldEmpty, RecheckSound, SetSound, OverlaySound,
           Coming, Fresh, NoPull
<1>5. ASSUME reload  PROVE OverlayAt(w)'
  <2>1. /\ mloop = Idle /\ worker = NoPull /\ due' = <<>> /\ UNCHANGED <<buf, mloop, booted, worker, pc>>
        /\ excused' = excused \cup Range(due) \cup {u \in Uris : mirror'[u] # mirror[u]}
    BY <1>5, Zenon DEF reload, docVars, layerVars
  <2>2. w \notin Range(due')
    BY <2>1 DEF Range
  <2> QED
    BY <1>0, <2>1, <2>2
       DEF OverlayAt, UnmirroredQuiet, UnheldEmpty, RecheckSound, SetSound, OverlaySound,
           Coming, Fresh, NoPull, Idle
<1>6. ASSUME boot \/ DebounceElapses  PROVE OverlayAt(w)'
  <2>1. UNCHANGED <<buf, mloop, mirror, due, worker, pc, excused>> /\ (booted => booted')
    BY <1>6 DEF boot, DebounceElapses, docVars, dueVars, layerVars
  <2> QED
    BY <1>0, <2>1, Zenon
       DEF OverlayAt, UnmirroredQuiet, UnheldEmpty, RecheckSound, SetSound, OverlaySound, Coming, Fresh
<1> QED
  BY <1>1, <1>2, <1>3, <1>4, <1>5, <1>6 DEF WorkerPulls

LEMMA AcceptStep ==
  ASSUME PublishInv, OverlayInv, NEW w \in Uris, BuildServer
  PROVE  OverlayAt(w)'
<1>0. OverlayAt(w)
  BY DEF OverlayInv
<1>1. PICK u \in Uris, t \in Targets, reset \in BOOLEAN, incoming \in SUBSET Diags :
        accept(u, t, reset, incoming)
  BY DEF BuildServer
<1>2. UNCHANGED <<buf, mloop, booted, mirror, due, worker>>
  BY <1>1, Zenon DEF accept, docVars, dueVars
<1>3. \/ UNCHANGED <<pc, excused>>
      \/ pc' = [pc EXCEPT ![u] = 0] /\ excused' = IF worker.uri = u THEN excused ELSE excused \ {u}
  BY <1>1, Zenon DEF accept, bsp_published, layerVars
<1>4. \/ pc'[w] = pc[w] /\ (w \in excused' <=> w \in excused)
      \/ pc'[w] = 0 /\ (w \in excused' <=> w \in excused)
      \/ pc'[w] = 0 /\ worker.uri # w
  BY <1>3 DEF PublishInv, DiagTypes
<1> QED
  BY <1>0, <1>2, <1>4
     DEF OverlayAt, Unmirrored, UnmirroredQuiet, UnheldEmpty, RecheckSound, SetSound, OverlaySound,
         Coming, Fresh, Handling, Pulling

-------------------------------------------------------------------------------
(* All that is inductive about the two streams. *)
DiagInv == PublishInv /\ BufferInv /\ OverlayInv

LEMMA DiagInvInit == DiagInit => DiagInv
<1> SUFFICES ASSUME DiagInit  PROVE DiagInv
  OBVIOUS
<1>1. DiagTypes
  <2>1. due \in Seq(Uris) /\ IsInjective(due)
    BY DEF DiagInit, IsInjective
  <2> QED
    BY <2>1, Zenon DEF DiagInit, DiagTypes
<1>2. LayerInv /\ RouterInv
  BY Zenon DEF DiagInit, LayerInv, RouterInv
<1>3. BufferInv
  BY Zenon DEF DiagInit, BufferInv, BufferAt, Handling, Idle
<1>4. \A u \in Uris : u \notin Range(due)
  BY DEF DiagInit, Range
<1>5. OverlayInv
  BY <1>4 DEF DiagInit, OverlayInv, OverlayAt, Unmirrored, UnmirroredQuiet, UnheldEmpty, RecheckSound,
              SetSound, OverlaySound, Handling, Pulling, NoPull, Idle
<1> QED
  BY <1>1, <1>2, <1>3, <1>5 DEF DiagInv, PublishInv

LEMMA DiagInvStep == DiagInv /\ [DiagNext]_diagVars => DiagInv'
<1> SUFFICES ASSUME DiagInv, [DiagNext]_diagVars  PROVE DiagInv'
  OBVIOUS
<1>1. PublishInv' /\ BufferInv'
  BY PublishStep, BufferStep DEF DiagInv, PublishInv
<1>2. ASSUME NEW w \in Uris  PROVE OverlayAt(w)'
  <2>1. CASE UNCHANGED diagVars
    BY <2>1 DEF diagVars, docVars, dueVars, layerVars, DiagInv, OverlayInv, OverlayAt, Unmirrored,
                UnmirroredQuiet, UnheldEmpty, RecheckSound, SetSound, OverlaySound, Coming, Fresh,
                Handling, Pulling
  <2> QED
    BY <2>1, HandlerStep, WorkerStep, AcceptStep, Zenon DEF DiagInv, PublishInv, DiagNext
<1> QED
  BY <1>1, <1>2 DEF DiagInv, OverlayInv

(* What the editor shows for a file is the union of what every target last     *)
(* reported and of the typing overlay, for any number of files and targets:    *)
(* the router's and the layer's suppressed publishes (accept, emit, set_pc)    *)
(* never hide a change, whichever of the three threads publishes.              *)
THEOREM UnionShown == DiagSpec => []EditorShowsUnion
<1>1. DiagInv => EditorShowsUnion
  BY Zenon DEF DiagInv, PublishInv, LayerInv, RouterInv, EditorShowsUnion
<1> QED
  BY <1>1, DiagInvInit, DiagInvStep, PTL DEF DiagSpec

(* At rest an overlay belongs to an unsaved buffer and to the text the island  *)
(* holds, in every interleaving of edits, saves, closes, pulls, reloads and    *)
(* compile reports, outside the races pc_diagnostics.rs documents.             *)
THEOREM OverlayFollowsBuffer == DiagSpec => []OverlayTracksBuffer
<1>1. DiagInv => OverlayTracksBuffer
  BY Zenon DEF DiagInv, OverlayInv, OverlayAt, OverlaySound, Coming, Fresh, Handling, Pulling,
         OverlayTracksBuffer, AtRest
<1> QED
  BY <1>1, DiagInvInit, DiagInvStep, PTL DEF DiagSpec
===============================================================================
