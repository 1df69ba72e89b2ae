----------------------------- MODULE StoreProofs -----------------------------
(***************************************************************************)
(* Proofs about Store and the inspector beside it, for every number of     *)
(* readers, generations and publishes, and every set of fault points the   *)
(* theorem names.                                                          *)
(***************************************************************************)
EXTENDS StoreInspector, TLAPS

-------------------------------------------------------------------------------
(* Initially nothing is live and nothing is on disk. *)
LEMMA LiveInvInit == Init => LiveInv
BY StoreConstants DEF Init, LiveInv, TypeOK, PublishOK, DownOK, LiveOK, Live,
     Gens, NoSnap, Absent, NoManifest, Steps, PostCommit

(* A live snapshot is an opened generation. *)
LEMMA LiveTyped == TypeOK => Live \subseteq Snapshots
BY Zenon DEF TypeOK, Live

(* Rewriting files of the generation after the served one leaves the files of  *)
(* every live snapshot alone.                                                  *)
LEMMA NextIsNotLive ==
  ASSUME LiveInv, NEW s \in Live, up = "up", pc \in Steps
  PROVE  s.gen \in Gens /\ s.gen # next
BY LiveTyped DEF LiveInv, TypeOK, PublishOK, LiveOK, Snapshots, Gens, next,
     Absent, NoSnap, Contents

(* The janitor's queue is older than the served snapshot. *)
LEMMA RetiredOlder ==
  ASSUME LiveInv
  PROVE  current.gen \in Nat /\ \A s \in retired : s.gen \in Nat /\ s.gen < current.gen
<1>1. current.gen \in Nat /\ \A s \in retired : s.gen \in Nat
  BY DEF LiveInv, TypeOK, Snapshots, Gens, NoSnap
<1>2. \A s \in retired : s.gen < current.gen
  BY Zenon DEF LiveInv, LiveOK
<1>3. QED
  BY <1>1, <1>2, Zenon

(* Live snapshots of the same generation are the same snapshot: each carries   *)
(* what is in that generation's files.                                         *)
LEMMA LiveUnique ==
  ASSUME LiveInv, NEW s \in Live, NEW t \in Live, s.gen = t.gen
  PROVE  s = t
<1>1. s \in Snapshots /\ t \in Snapshots
  BY LiveTyped, Zenon DEF LiveInv
<1>2. s.seg = t.seg /\ s.st = t.st
  BY Zenon DEF LiveInv, LiveOK
<1>3. QED
  BY <1>1, <1>2 DEF Snapshots

(* The janitor deletes no file of a snapshot that is served, held, or still    *)
(* queued after it ran, whichever snapshot is pinned meanwhile.                *)
LEMMA JanitorKeepsLive ==
  ASSUME LiveInv, NEW pinned, run_janitor(pinned),
         UNCHANGED <<current, held>>
  PROVE  LiveOK' /\ retired' \subseteq retired
           /\ seg' \in [Gens -> Contents \cup {Absent}]
           /\ st' \in [Gens -> Contents \cup {Absent}]
<1> DEFINE drained == {s \in retired : Dropped(s, pinned)}
<1> DEFINE gens == {s.gen : s \in drained}
<1>1. retired' = retired \ drained
  BY Zenon DEF run_janitor
<1>2. PICK goneSeg \in SUBSET gens, goneSt \in SUBSET gens :
        /\ seg' = [g \in Gens |-> IF g \in goneSeg THEN Absent ELSE seg[g]]
        /\ st' = [g \in Gens |-> IF g \in goneSt THEN Absent ELSE st[g]]
  BY Zenon DEF run_janitor
<1>3. Live' \subseteq Live
  BY <1>1, Zenon DEF Live
<1>4. ASSUME NEW s \in Live' PROVE s.gen \in Gens /\ s.gen \notin gens
  <2>1. s \in Live /\ s.gen \in Gens
    BY <1>3, LiveTyped, Zenon DEF LiveInv, Snapshots
  <2>2. SUFFICES ASSUME NEW d \in drained, d.gen = s.gen PROVE FALSE
    BY <2>1, Zenon
  <2>3. d \in retired /\ Dropped(d, pinned) /\ d \in Snapshots
    BY Zenon DEF LiveInv, TypeOK
  <2>4. d \in Live
    BY <2>3 DEF Live, NoSnap, Snapshots, Gens
  <2>5. d = s
    BY <2>1, <2>2, <2>4, LiveUnique, Zenon
  <2>6. CASE s = current
    BY <2>3, <2>5, <2>6 DEF LiveInv, LiveOK, TypeOK, Snapshots, Gens
  <2>7. CASE \E r \in Readers : s = held[r]
    BY <2>3, <2>5, <2>7, Zenon DEF Dropped
  <2>8. CASE s \in retired'
    BY <1>1, <2>5, <2>8, Zenon
  <2>9. QED
    BY <2>6, <2>7, <2>8, Zenon DEF Live
<1>5. \A s \in Live' : s.gen <= current.gen /\ seg'[s.gen] = s.seg /\ st'[s.gen] = s.st
  BY <1>2, <1>3, <1>4, Zenon DEF LiveInv, LiveOK
<1>6. LiveOK'
  BY <1>1, <1>5, Zenon DEF LiveInv, LiveOK
<1>7. QED
  BY <1>1, <1>2, <1>6, Zenon DEF LiveInv, TypeOK

(* A step that touches neither a file's visible form nor what the server holds *)
(* only has to be well typed and to stay on its side of the commit point.      *)
LEMMA QuietStep ==
  ASSUME LiveInv, TypeOK', pc \in Steps, pc' \in Steps,
         pc' \in PostCommit => pc \in PostCommit,
         UNCHANGED <<seg, st, man, up, current, retired, held, prev, job>>
  PROVE  LiveInv'
<1>1. PublishOK'
  BY Zenon DEF LiveInv, PublishOK, Steps
<1>2. DownOK'
  BY Zenon DEF LiveInv, DownOK
<1>3. LiveOK'
  BY Zenon DEF LiveInv, LiveOK, Live
<1>4. QED
  BY <1>1, <1>2, <1>3, Zenon DEF LiveInv

(* The two outcomes of opening a stored pair: it is served, or refused. *)
OpenPair ==
  /\ up = "down"
  /\ man # NoManifest
  /\ open_snapshot(man, seg[man.gen], st[man.gen])
  /\ up' = "up"
  /\ current' = snapshot_of(man, seg[man.gen], st[man.gen])
  /\ tmp' = {}
  /\ UNCHANGED <<disk, retired, held, prev, pc, job, runs>>

OpenRefused ==
  /\ up = "down"
  /\ man # NoManifest
  /\ ~ open_snapshot(man, seg[man.gen], st[man.gen])
  /\ up' = "refused"
  /\ tmp' = {}
  /\ UNCHANGED <<disk, current, retired, held, prev, pc, job, runs>>

LEMMA OpenOutcomes == OpenStored => OpenPair \/ OpenRefused
<1> SUFFICES ASSUME OpenStored  PROVE OpenPair \/ OpenRefused
  BY Zenon
<1>1. CASE open_snapshot(man, seg[man.gen], st[man.gen])
  BY <1>1, Zenon DEF OpenStored, OpenPair
<1>2. CASE ~ open_snapshot(man, seg[man.gen], st[man.gen])
  BY <1>2, Zenon DEF OpenStored, OpenRefused
<1> QED
  BY <1>1, <1>2, Zenon

(* Every step of the server, its readers and the machine keeps the live        *)
(* snapshots' files.                                                           *)
LEMMA LiveInvStep == LiveInv /\ [Next]_vars => LiveInv'
<1> SUFFICES ASSUME LiveInv, [Next]_vars PROVE LiveInv'
  BY Zenon
<1> USE StoreConstants
<1>1. CASE OpenFresh
  <2>1. /\ up = "down" /\ up' = "up" /\ tmp' = {}
        /\ UNCHANGED <<seg, st, man, dseg, dst, dman, current, retired, held, prev, pc, job, runs>>
    BY <1>1, Zenon DEF OpenFresh, disk
  <2>2. TypeOK'
    BY <2>1, Zenon DEF LiveInv, TypeOK
  <2>3. pc = "idle" /\ DownOK'
    BY <2>1, Zenon DEF LiveInv, PublishOK, DownOK
  <2>4. PublishOK'
    BY <2>1, <2>3, Zenon DEF PublishOK, Steps, PostCommit
  <2>5. LiveOK'
    BY <2>1, Zenon DEF LiveInv, LiveOK, Live
  <2>6. QED
    BY <2>2, <2>3, <2>4, <2>5, Zenon DEF LiveInv
<1>2. CASE OpenPair
  <2>1. /\ current' \in Snapshots
        /\ current'.seg = seg[current'.gen] /\ current'.st = st[current'.gen]
    BY <1>2, Zenon DEF OpenPair, open_snapshot, snapshot_of, LiveInv, TypeOK, Snapshots,
         Manifests
  <2>2. retired' = {} /\ \A r \in Readers : held'[r] = NoSnap
    BY <1>2, Zenon DEF OpenPair, LiveInv, DownOK
  <2>3. TypeOK'
    BY <1>2, <2>1, Zenon DEF OpenPair, LiveInv, TypeOK, disk
  <2>4. PublishOK' /\ DownOK'
    BY <1>2, Zenon DEF OpenPair, LiveInv, PublishOK, DownOK, Steps, PostCommit
  <2>5. Live' \subseteq {current'} /\ seg' = seg /\ st' = st
    BY <1>2, <2>2, Zenon DEF OpenPair, Live, disk
  <2>6. LiveOK'
    BY <2>1, <2>2, <2>5 DEF LiveOK, Snapshots, Gens
  <2>7. QED
    BY <2>3, <2>4, <2>6, Zenon DEF LiveInv
<1>3. CASE OpenRefused
  <2>1. /\ up = "down" /\ up' = "refused" /\ tmp' = {}
        /\ UNCHANGED <<seg, st, man, dseg, dst, dman, current, retired, held, prev, pc, job, runs>>
    BY <1>3, Zenon DEF OpenRefused, disk
  <2>2. TypeOK'
    BY <2>1, Zenon DEF LiveInv, TypeOK
  <2>3. pc = "idle" /\ DownOK'
    BY <2>1, Zenon DEF LiveInv, PublishOK, DownOK
  <2>4. PublishOK'
    BY <2>1, <2>3, Zenon DEF PublishOK, Steps, PostCommit
  <2>5. LiveOK'
    BY <2>1, Zenon DEF LiveInv, LiveOK, Live
  <2>6. QED
    BY <2>2, <2>3, <2>4, <2>5, Zenon DEF LiveInv
<1>4. CASE BeginPublish
  <2>1. /\ up = "up" /\ pc' = "write_segment" /\ prev' = current
        /\ current.gen < MaxGen /\ job' \in Contents /\ runs' \in 0 .. MaxRuns
        /\ UNCHANGED <<disk, tmp, up, current, retired, held>>
    BY <1>4 DEF BeginPublish, LiveInv, TypeOK, Contents
  <2>2. TypeOK'
    BY <2>1, Zenon DEF LiveInv, TypeOK, disk, Steps
  <2>3. PublishOK' /\ DownOK'
    BY <2>1, Zenon DEF LiveInv, PublishOK, DownOK, Steps, PostCommit
  <2>4. LiveOK'
    BY <2>1, Zenon DEF LiveInv, LiveOK, Live, disk
  <2>5. QED
    BY <2>2, <2>3, <2>4 DEF LiveInv
<1>5. CASE WriteSegment
  <2>1. /\ pc = "write_segment" /\ pc' = "replace_segment"
        /\ UNCHANGED <<seg, st, man, up, current, retired, held, prev, job>>
    BY <1>5, Zenon DEF WriteSegment, At, ServerUnchanged, disk
  <2>2. TypeOK'
    BY <1>5, <2>1, Zenon DEF WriteSegment, ServerUnchanged, disk, LiveInv, TypeOK, Steps
  <2>3. QED
    BY <2>1, <2>2, QuietStep, Zenon DEF Steps, PostCommit
<1>6. CASE ReplaceSegment
  <2>1. TypeOK'
    BY <1>6, Zenon DEF LiveInv, TypeOK, PublishOK, ReplaceSegment, At, ServerUnchanged, next,
         Gens, Snapshots, NoSnap, Absent, Contents, Manifests, Steps
  <2>2. PublishOK' /\ DownOK'
    BY <1>6, Zenon DEF LiveInv, PublishOK, DownOK, ReplaceSegment, At, ServerUnchanged, next,
         Steps, PostCommit
  <2>3. Live' = Live /\ retired' = retired /\ current' = current
    BY <1>6, Zenon DEF ReplaceSegment, ServerUnchanged, Live
  <2>4. \A s \in Live : seg'[s.gen] = seg[s.gen] /\ st'[s.gen] = st[s.gen]
    BY <1>6, NextIsNotLive, Zenon DEF ReplaceSegment, At, ServerUnchanged, Steps,
     LiveInv, TypeOK
  <2>5. LiveOK'
    BY <2>3, <2>4, Zenon DEF LiveInv, LiveOK
  <2>6. QED
    BY <2>1, <2>2, <2>3, <2>4, <2>5, Zenon DEF LiveInv
<1>7. CASE RenameSegment
  <2>1. TypeOK'
    BY <1>7, Zenon DEF LiveInv, TypeOK, PublishOK, RenameSegment, At, ServerUnchanged, next,
         Gens, Snapshots, NoSnap, Absent, Contents, Manifests, Steps
  <2>2. PublishOK' /\ DownOK'
    BY <1>7, Zenon DEF LiveInv, PublishOK, DownOK, RenameSegment, At, ServerUnchanged, next,
         Steps, PostCommit
  <2>3. Live' = Live /\ retired' = retired /\ current' = current
    BY <1>7, Zenon DEF RenameSegment, ServerUnchanged, Live
  <2>4. \A s \in Live : seg'[s.gen] = seg[s.gen] /\ st'[s.gen] = st[s.gen]
    BY <1>7, NextIsNotLive, Zenon DEF RenameSegment, At, ServerUnchanged, Steps,
     LiveInv, TypeOK
  <2>5. LiveOK'
    BY <2>3, <2>4 DEF LiveInv, LiveOK
  <2>6. QED
    BY <2>1, <2>2, <2>3, <2>4, <2>5 DEF LiveInv
<1>8. CASE SyncSegments
  <2>1. /\ pc = "sync_segments" /\ pc' = "write_state_tmp"
        /\ UNCHANGED <<seg, st, man, up, current, retired, held, prev, job>>
    BY <1>8, Zenon DEF SyncSegments, At, ServerUnchanged, disk
  <2>2. TypeOK'
    BY <1>8, <2>1, Zenon DEF SyncSegments, ServerUnchanged, disk, LiveInv, TypeOK, Steps
  <2>3. QED
    BY <2>1, <2>2, QuietStep, Zenon DEF Steps, PostCommit
<1>9. CASE WriteStateTmp
  <2>1. /\ pc = "write_state_tmp" /\ pc' = "rename_state"
        /\ UNCHANGED <<seg, st, man, up, current, retired, held, prev, job>>
    BY <1>9, Zenon DEF WriteStateTmp, At, ServerUnchanged, disk
  <2>2. TypeOK'
    BY <1>9, <2>1, Zenon DEF WriteStateTmp, ServerUnchanged, disk, LiveInv, TypeOK, Steps
  <2>3. QED
    BY <2>1, <2>2, QuietStep, Zenon DEF Steps, PostCommit
<1>10. CASE RenameState
  <2>1. TypeOK'
    BY <1>10, Zenon DEF LiveInv, TypeOK, PublishOK, RenameState, At, ServerUnchanged, next,
         Gens, Snapshots, NoSnap, Absent, Contents, Manifests, Steps
  <2>2. PublishOK' /\ DownOK'
    BY <1>10, Zenon DEF LiveInv, PublishOK, DownOK, RenameState, At, ServerUnchanged, next,
         Steps, PostCommit
  <2>3. Live' = Live /\ retired' = retired /\ current' = current
    BY <1>10, Zenon DEF RenameState, ServerUnchanged, Live
  <2>4. \A s \in Live : seg'[s.gen] = seg[s.gen] /\ st'[s.gen] = st[s.gen]
    BY <1>10, NextIsNotLive, Zenon DEF RenameState, At, ServerUnchanged, Steps, LiveInv,
     TypeOK
  <2>5. LiveOK'
    BY <2>3, <2>4 DEF LiveInv, LiveOK
  <2>6. QED
    BY <2>1, <2>2, <2>3, <2>4, <2>5 DEF LiveInv
<1>11. CASE SyncState
  <2>1. /\ pc = "sync_state" /\ pc' = "write_manifest_tmp"
        /\ UNCHANGED <<seg, st, man, up, current, retired, held, prev, job>>
    BY <1>11, Zenon DEF SyncState, SyncRoot, At, ServerUnchanged, disk
  <2>2. TypeOK'
    BY <1>11, <2>1, Zenon DEF SyncState, SyncRoot, ServerUnchanged, disk, LiveInv, TypeOK, Steps
  <2>3. QED
    BY <2>1, <2>2, QuietStep, Zenon DEF Steps, PostCommit
<1>12. CASE WriteManifestTmp
  <2>1. /\ pc = "write_manifest_tmp" /\ pc' = "rename_manifest"
        /\ UNCHANGED <<seg, st, man, up, current, retired, held, prev, job>>
    BY <1>12, Zenon DEF WriteManifestTmp, At, ServerUnchanged, disk
  <2>2. TypeOK'
    BY <1>12, <2>1, Zenon DEF WriteManifestTmp, ServerUnchanged, disk, LiveInv, TypeOK, Steps
  <2>3. QED
    BY <2>1, <2>2, QuietStep, Zenon DEF Steps, PostCommit
<1>13. CASE RenameManifest
  <2>1. TypeOK'
    BY <1>13 DEF LiveInv, TypeOK, PublishOK, RenameManifest, At, ServerUnchanged,
     next,
         Gens, Snapshots, NoSnap, Absent, Contents, Manifests, Steps
  <2>2. PublishOK' /\ DownOK'
    BY <1>13, Zenon DEF LiveInv, PublishOK, DownOK, RenameManifest, At, ServerUnchanged,
     next,
         Steps, PostCommit
  <2>3. Live' = Live /\ retired' = retired /\ current' = current
    BY <1>13, Zenon DEF RenameManifest, ServerUnchanged, Live
  <2>4. \A s \in Live : seg'[s.gen] = seg[s.gen] /\ st'[s.gen] = st[s.gen]
    BY <1>13, NextIsNotLive, Zenon DEF RenameManifest, At, ServerUnchanged, Steps,
     LiveInv, TypeOK
  <2>5. LiveOK'
    BY <2>3, <2>4 DEF LiveInv, LiveOK
  <2>6. QED
    BY <2>1, <2>2, <2>3, <2>4, <2>5 DEF LiveInv
<1>14. CASE SyncManifest
  <2>1. /\ pc = "sync_manifest" /\ pc' = "open_snapshot"
        /\ UNCHANGED <<seg, st, man, up, current, retired, held, prev, job>>
    BY <1>14, Zenon DEF SyncManifest, SyncRoot, At, ServerUnchanged, disk
  <2>2. TypeOK'
    BY <1>14, <2>1, Zenon DEF SyncManifest, SyncRoot, ServerUnchanged, disk, LiveInv, TypeOK, Steps
  <2>3. QED
    BY <2>1, <2>2, QuietStep, Zenon DEF Steps, PostCommit
<1>15. CASE OpenAndSwap
  <2> DEFINE opened == snapshot_of(man, seg[next], st[next])
  <2>1. /\ up = "up" /\ pc = "open_snapshot" /\ pc' = "tail_janitor"
        /\ current' = opened /\ retired' = retired \cup ({current} \ {NoSnap})
        /\ UNCHANGED <<disk, tmp, up, held, prev, job, runs>>
    BY <1>15, Zenon DEF OpenAndSwap, At
  <2>2. /\ next = current.gen + 1 /\ next \in Gens
        /\ man = [gen |-> next, run |-> job.run, count |-> job.count]
    BY <2>1 DEF LiveInv, TypeOK, PublishOK, next, Steps, PostCommit, Gens,
         Snapshots, NoSnap
  <2>3. opened \in Snapshots /\ opened.gen = next
        /\ opened.seg = seg[next] /\ opened.st = st[next]
    BY <1>15, <2>2, Zenon DEF OpenAndSwap, open_snapshot, snapshot_of, LiveInv, TypeOK,
         Snapshots
  <2>4. TypeOK'
    BY <2>1, <2>3, Zenon DEF LiveInv, TypeOK, disk, NoSnap
  <2>5. PublishOK' /\ DownOK'
    BY <2>1, Zenon DEF PublishOK, DownOK, Steps, PostCommit
  <2>6. Live' \subseteq Live \cup {opened}
    BY <2>1, Zenon DEF Live
  <2>7. \A s \in Live' : s.gen <= next /\ seg'[s.gen] = s.seg /\ st'[s.gen] = s.st
    <3>1. seg' = seg /\ st' = st
      BY <2>1, Zenon DEF disk
    <3>2. \A s \in Live : s.gen \in Nat
      BY LiveTyped DEF LiveInv, Snapshots, Gens
    <3>3. \A s \in Live : s.gen <= next /\ seg[s.gen] = s.seg /\ st[s.gen] = s.st
      BY <2>2, <3>2, RetiredOlder DEF LiveInv, LiveOK
    <3>4. opened.gen <= next
      BY <2>2, <2>3, RetiredOlder
    <3>5. QED
      BY <2>3, <2>6, <3>1, <3>3, <3>4, Zenon
  <2>8. \A s \in retired' : s.gen < next
    BY <2>1, <2>2, RetiredOlder
  <2>9. QED
    BY <2>1, <2>3, <2>4, <2>5, <2>7, <2>8, Zenon DEF LiveInv, LiveOK
<1>16. CASE TailJanitor
  <2>1. LiveOK' /\ retired' \subseteq retired
        /\ seg' \in [Gens -> Contents \cup {Absent}]
        /\ st' \in [Gens -> Contents \cup {Absent}]
    BY <1>16, JanitorKeepsLive, Zenon DEF TailJanitor
  <2>2. TypeOK'
    BY <1>16, <2>1, Zenon DEF TailJanitor, At, LiveInv, TypeOK
  <2>3. PublishOK' /\ DownOK'
    BY <1>16, Zenon DEF TailJanitor, At, LiveInv, PublishOK, DownOK, Steps, PostCommit
  <2>4. QED
    BY <2>1, <2>2, <2>3, Zenon DEF LiveInv
<1>17. CASE IngestJanitor
  <2>1. LiveOK' /\ retired' \subseteq retired
        /\ seg' \in [Gens -> Contents \cup {Absent}]
        /\ st' \in [Gens -> Contents \cup {Absent}]
    BY <1>17, JanitorKeepsLive, Zenon DEF IngestJanitor
  <2>2. TypeOK'
    BY <1>17, <2>1, Zenon DEF IngestJanitor, At, LiveInv, TypeOK
  <2>3. PublishOK' /\ DownOK'
    BY <1>17, Zenon DEF IngestJanitor, At, LiveInv, PublishOK, DownOK, Steps, PostCommit
  <2>4. QED
    BY <2>1, <2>2, <2>3 DEF LiveInv
<1>18. CASE PublishFails
  <2>1. /\ up = "up" /\ pc' = "idle" /\ prev' = NoSnap /\ job' = Absent
        /\ UNCHANGED <<seg, st, man, dseg, dst, dman, tmp, up, current, retired, held, runs>>
    BY <1>18, Zenon DEF PublishFails, disk
  <2>2. TypeOK'
    BY <2>1, Zenon DEF LiveInv, TypeOK
  <2>3. PublishOK' /\ DownOK'
    BY <2>1, Zenon DEF PublishOK, DownOK, Steps, PostCommit
  <2>4. LiveOK'
    BY <2>1, Zenon DEF LiveInv, LiveOK, Live
  <2>5. QED
    BY <2>2, <2>3, <2>4 DEF LiveInv
<1>19. CASE \E r \in Readers : Retain(r)
  <2>1. PICK r \in Readers : Retain(r)
    BY <1>19, Zenon
  <2>2. TypeOK'
    BY <2>1, Zenon DEF Retain, LiveInv, TypeOK, disk
  <2>3. PublishOK' /\ DownOK'
    BY <2>1, Zenon DEF Retain, LiveInv, TypeOK, PublishOK, DownOK, disk
  <2>4. \A q \in Readers : held'[q] \in {held[q], current, NoSnap}
    BY <2>1, Zenon DEF Retain, LiveInv, TypeOK
  <2>5. Live' \subseteq Live
    BY <2>1, <2>4, Zenon DEF Retain, Live
  <2>6. LiveOK'
    BY <2>1, <2>5, Zenon DEF Retain, LiveInv, LiveOK, disk
  <2>7. QED
    BY <2>2, <2>3, <2>6, Zenon DEF LiveInv
<1>20. CASE \E r \in Readers : Release(r)
  <2>1. PICK r \in Readers : Release(r)
    BY <1>20
  <2>2. TypeOK'
    BY <2>1, Zenon DEF Release, LiveInv, TypeOK, disk
  <2>3. PublishOK' /\ DownOK'
    BY <2>1, Zenon DEF Release, LiveInv, TypeOK, PublishOK, DownOK, disk
  <2>4. \A q \in Readers : held'[q] \in {held[q], current, NoSnap}
    BY <2>1, Zenon DEF Release, LiveInv, TypeOK
  <2>5. Live' \subseteq Live
    BY <2>1, <2>4, Zenon DEF Release, Live
  <2>6. LiveOK'
    BY <2>1, <2>5, Zenon DEF Release, LiveInv, LiveOK, disk
  <2>7. QED
    BY <2>2, <2>3, <2>6 DEF LiveInv
<1>21. CASE Kill
  BY <1>21, Zenon DEF LiveInv, TypeOK, PublishOK, DownOK, LiveOK, Live, disk,
     Kill, LoseMemory,
     Gens, NoSnap, Absent, NoManifest, Snapshots, Contents, Manifests, Steps,
     PostCommit
<1>22. CASE PowerLoss
  <2>1. /\ up' = "down" /\ current' = NoSnap /\ retired' = {} /\ prev' = NoSnap
        /\ held' = [r \in Readers |-> NoSnap] /\ pc' = "idle" /\ job' = Absent
        /\ runs' = runs /\ tmp' = tmp
    BY <1>22, Zenon DEF PowerLoss, LoseMemory
  <2>2. /\ seg' \in [Gens -> Contents \cup {Absent}] /\ dseg' = seg'
        /\ st' \in [Gens -> Contents \cup {Absent}] /\ dst' = st'
        /\ man' \in {man, dman} /\ dman' = man'
    BY <1>22, Zenon DEF PowerLoss, LiveInv, TypeOK
  <2>3. TypeOK'
    BY <2>1, <2>2, Zenon DEF LiveInv, TypeOK
  <2>4. PublishOK' /\ DownOK'
    BY <2>1, Zenon DEF PublishOK, DownOK, Steps, PostCommit
  <2>5. Live' = {}
    BY <2>1, Zenon DEF Live
  <2>6. QED
    BY <2>1, <2>3, <2>4, <2>5, Zenon DEF LiveInv, LiveOK
<1>23. CASE UNCHANGED vars
  BY <1>23 DEF vars, LiveInv, TypeOK, PublishOK, DownOK, LiveOK, Live
<1>24. QED
  BY <1>1, <1>2, <1>3, <1>4, <1>5, <1>6, <1>7, <1>8, <1>9, <1>10, <1>11, <1>12,
     <1>13, <1>14, <1>15, <1>16, <1>17, <1>18, <1>19, <1>20, <1>21, <1>22, <1>23,
     OpenOutcomes, Zenon
  DEF Next, ServerStep, Open, Publish

(* The state the program can be in is always well typed: in particular a       *)
(* generation number never leaves its range however publishes fail.            *)
THEOREM TypeCorrect == Spec => []TypeOK
<1>1. Spec => []LiveInv
  BY LiveInvInit, LiveInvStep, PTL DEF Spec
<1>2. LiveInv => TypeOK
  BY Zenon DEF LiveInv
<1>3. QED
  BY <1>1, <1>2, PTL

(* Whatever errors publishes return and however crashes fall, no step deletes  *)
(* or replaces a file of a generation that is served or that a reader holds.   *)
THEOREM HeldFilesIntact == Spec => []RetainedIntact
<1>1. Spec => []LiveInv
  BY LiveInvInit, LiveInvStep, PTL DEF Spec
<1>2. LiveInv => RetainedIntact
  BY Zenon DEF LiveInv, LiveOK, Live, RetainedIntact
<1>3. QED
  BY <1>1, <1>2, PTL

-------------------------------------------------------------------------------
(* No error is returned between the manifest's rename and the snapshot swap.   *)
CommitCannotFail == FaultPoints \cap PostCommit = {}

(* Before the first publish nothing is committed, so nothing can be torn. *)
LEMMA CommitInvInit == Init => CommitInv
<1> SUFFICES ASSUME Init PROVE CommitInv
  BY Zenon
<1>1. LiveInv
  BY LiveInvInit, Zenon
<1>2. StagedOK /\ CommitOK /\ Recoverable
  BY DEF Init, StagedOK, CommitOK, Recoverable, NoManifest, NoSnap, PostCommit
<1>3. QED
  BY <1>1, <1>2, Zenon DEF CommitInv

(* Facts about generation numbers that every case below needs. *)
LEMMA GenTypes ==
  ASSUME TypeOK
  PROVE  /\ current.gen \in Nat /\ man.gen \in Nat /\ dman.gen \in Nat
         /\ man # NoManifest => man.gen \in Gens
         /\ dman # NoManifest => dman.gen \in Gens
         /\ man = NoManifest <=> man.gen = 0
         /\ dman = NoManifest <=> dman.gen = 0
BY StoreConstants DEF TypeOK, Snapshots, NoSnap, Manifests, NoManifest, Gens

(* Before the commit point, neither manifest names the generation that the     *)
(* publish is staging.                                                         *)
LEMMA StagingIsNotCommitted ==
  ASSUME LiveInv, CommitOK, up = "up", pc \in Steps \ PostCommit
  PROVE  /\ next = current.gen + 1 /\ next \in Gens
         /\ \A m \in {man, dman} \ {NoManifest} : m.gen \in Gens /\ m.gen # next
<1>1. next = current.gen + 1 /\ current.gen < MaxGen
  BY Zenon DEF LiveInv, PublishOK, next
<1>2. man.gen = current.gen /\ dman.gen <= man.gen
  BY Zenon DEF CommitOK
<1>3. TypeOK
  BY Zenon DEF LiveInv
<1>4. next \in Gens
  BY <1>1, <1>3, GenTypes, StoreConstants DEF Gens
<1>5. QED
  BY <1>1, <1>2, <1>3, <1>4, GenTypes

(* The janitor's queue is older than both manifests, so what they name is not  *)
(* among the files it deletes.                                                 *)
LEMMA JanitorKeepsCommitted ==
  ASSUME TypeOK, CommitOK, Recoverable, NEW pinned, run_janitor(pinned),
         UNCHANGED <<man, dman, dseg, dst>>
  PROVE  Recoverable' /\ retired' \subseteq retired
<1>1. /\ retired' \subseteq retired
      /\ \A g \in Gens : (\A s \in retired : s.gen # g) => seg'[g] = seg[g] /\ st'[g] = st[g]
  BY DEF run_janitor
<1>2. ASSUME NEW m \in {man, dman} \ {NoManifest}
      PROVE  m.gen \in Gens /\ \A s \in retired : s.gen # m.gen
  <2>1. m.gen \in Gens /\ m.gen \in Nat /\ dman.gen \in Nat /\ dman.gen <= m.gen
    BY <1>2, GenTypes DEF CommitOK
  <2>2. \A s \in retired : s.gen \in Nat /\ s.gen < dman.gen
    BY DEF TypeOK, Snapshots, Gens, CommitOK
  <2>3. QED
    BY <2>1, <2>2
<1>3. \A m \in {man, dman} \ {NoManifest} : seg'[m.gen] = seg[m.gen] /\ st'[m.gen] = st[m.gen]
  BY <1>1, <1>2, Zenon
<1>4. QED
  BY <1>1, <1>3, Zenon DEF Recoverable

(* Every step of a publish, every crash and every recovery keeps what the      *)
(* manifests on disk name complete and paired.                                 *)
LEMMA CommitInvStep ==
  ASSUME CommitCannotFail
  PROVE  CommitInv /\ [Next]_vars => CommitInv'
<1> SUFFICES ASSUME CommitInv, [Next]_vars PROVE CommitInv'
  BY Zenon
<1>0. LiveInv /\ LiveInv' /\ TypeOK /\ TypeOK'
  BY LiveInvStep, Zenon DEF CommitInv, LiveInv
<1>a. SUFFICES StagedOK' /\ CommitOK' /\ Recoverable'
  BY <1>0, Zenon DEF CommitInv
<1> USE StoreConstants, <1>0
<1>1. CASE OpenFresh
  <2>1. /\ up = "down" /\ up' = "up" /\ man = NoManifest
        /\ UNCHANGED <<seg, st, man, dseg, dst, dman, current, retired, pc, job>>
    BY <1>1, Zenon DEF OpenFresh, disk
  <2>2. current.gen = 0 /\ man.gen = 0
    BY <2>1 DEF LiveInv, DownOK, NoSnap, NoManifest
  <2>3. CommitOK'
    BY <2>1, <2>2, Zenon DEF CommitInv, CommitOK
  <2>4. QED
    BY <2>1, <2>3, Zenon DEF CommitInv, StagedOK, Recoverable
<1>2. CASE OpenPair
  <2>1. /\ up = "down" /\ up' = "up" /\ current'.gen = man.gen
        /\ UNCHANGED <<seg, st, man, dseg, dst, dman, retired, pc, job>>
    BY <1>2, Zenon DEF OpenPair, snapshot_of, disk
  <2>2. pc = "idle"
    BY <2>1, Zenon DEF LiveInv, PublishOK
  <2>3. CommitOK'
    BY <2>1, <2>2, Zenon DEF CommitInv, CommitOK, PostCommit
  <2>4. QED
    BY <2>1, <2>2, <2>3, Zenon DEF CommitInv, StagedOK, Recoverable
<1>3. CASE OpenRefused
  BY <1>3, Zenon DEF OpenRefused, CommitInv, StagedOK, CommitOK, Recoverable, disk
<1>4. CASE BeginPublish
  BY <1>4, Zenon DEF BeginPublish, CommitInv, StagedOK, CommitOK, Recoverable, disk,
     PostCommit
<1>5. CASE WriteSegment
  BY <1>5, GenTypes, Zenon DEF WriteSegment, At, ServerUnchanged, next, CommitInv,
     StagedOK, CommitOK, Recoverable, LiveInv, TypeOK,
     PublishOK, disk, Steps, PostCommit, Gens
<1>6. CASE ReplaceSegment
  <2>1. /\ up = "up" /\ up' = "up" /\ pc = "replace_segment" /\ pc' = "rename_segment"
        /\ seg' = [seg EXCEPT ![next] = Absent]
        /\ UNCHANGED <<st, man, dseg, dst, dman, current, retired, job>>
    BY <1>6, Zenon DEF ReplaceSegment, At, ServerUnchanged
  <2>2. /\ next = current.gen + 1 /\ next \in Gens
        /\ \A m \in {man, dman} \ {NoManifest} : m.gen \in Gens /\ m.gen # next
    BY <2>1, StagingIsNotCommitted, Zenon DEF CommitInv, Steps, PostCommit
  <2>3. StagedOK'
    BY <2>1, <2>2, Zenon DEF CommitInv, StagedOK, TypeOK
  <2>4. CommitOK'
    BY <2>1, Zenon DEF CommitInv, CommitOK, PostCommit
  <2>5. \A m \in {man, dman} \ {NoManifest} : seg'[m.gen] = seg[m.gen]
    BY <2>1, <2>2, Zenon DEF TypeOK
  <2>6. Recoverable'
    BY <2>1, <2>5, Zenon DEF CommitInv, Recoverable
  <2>7. QED
    BY <2>3, <2>4, <2>6, Zenon
<1>7. CASE RenameSegment
  <2>1. /\ up = "up" /\ up' = "up" /\ pc = "rename_segment" /\ pc' = "sync_segments"
        /\ seg' = [seg EXCEPT ![next] = job]
        /\ UNCHANGED <<st, man, dseg, dst, dman, current, retired, job>>
    BY <1>7, Zenon DEF RenameSegment, At, ServerUnchanged
  <2>2. /\ next = current.gen + 1 /\ next \in Gens
        /\ \A m \in {man, dman} \ {NoManifest} : m.gen \in Gens /\ m.gen # next
    BY <2>1, StagingIsNotCommitted, Zenon DEF CommitInv, Steps, PostCommit
  <2>3. StagedOK'
    BY <2>1, <2>2, Zenon DEF CommitInv, StagedOK, TypeOK
  <2>4. CommitOK'
    BY <2>1, Zenon DEF CommitInv, CommitOK, PostCommit
  <2>5. \A m \in {man, dman} \ {NoManifest} : seg'[m.gen] = seg[m.gen]
    BY <2>1, <2>2, Zenon DEF TypeOK
  <2>6. Recoverable'
    BY <2>1, <2>5, Zenon DEF CommitInv, Recoverable
  <2>7. QED
    BY <2>3, <2>4, <2>6
<1>8. CASE SyncSegments
  BY <1>8, GenTypes, Zenon DEF SyncSegments, At, ServerUnchanged, next, CommitInv,
     StagedOK, CommitOK, Recoverable, LiveInv, TypeOK,
     PublishOK, disk, Steps, PostCommit, Gens
<1>9. CASE WriteStateTmp
  BY <1>9, GenTypes, Zenon DEF WriteStateTmp, At, ServerUnchanged, next, CommitInv,
     StagedOK, CommitOK, Recoverable, LiveInv, TypeOK,
     PublishOK, disk, Steps, PostCommit, Gens
<1>10. CASE RenameState
  <2>1. /\ up = "up" /\ up' = "up" /\ pc = "rename_state" /\ pc' = "sync_state"
        /\ st' = [st EXCEPT ![next] = job]
        /\ UNCHANGED <<seg, man, dseg, dst, dman, current, retired, job>>
    BY <1>10, Zenon DEF RenameState, At, ServerUnchanged
  <2>2. /\ next = current.gen + 1 /\ next \in Gens
        /\ \A m \in {man, dman} \ {NoManifest} : m.gen \in Gens /\ m.gen # next
    BY <2>1, StagingIsNotCommitted, Zenon DEF CommitInv, Steps, PostCommit
  <2>3. StagedOK'
    BY <2>1, <2>2, Zenon DEF CommitInv, StagedOK, TypeOK
  <2>4. CommitOK'
    BY <2>1, Zenon DEF CommitInv, CommitOK, PostCommit
  <2>5. \A m \in {man, dman} \ {NoManifest} : st'[m.gen] = st[m.gen]
    BY <2>1, <2>2, Zenon DEF TypeOK
  <2>6. Recoverable'
    BY <2>1, <2>5, Zenon DEF CommitInv, Recoverable
  <2>7. QED
    BY <2>3, <2>4, <2>6
<1>11. CASE SyncState
  <2>1. StagedOK'
    BY <1>11, Zenon DEF SyncState, SyncRoot, At, ServerUnchanged, CommitInv, StagedOK
  <2>2. Recoverable'
    BY <1>11, GenTypes, Zenon DEF SyncState, SyncRoot, CommitInv, Recoverable
  <2>3. CommitOK'
    <3>1. /\ up = "up" /\ up' = "up"
          /\ pc = "sync_state" /\ pc' = "write_manifest_tmp"
          /\ man' = man /\ dman' = man /\ current' = current /\ retired' = retired
      BY <1>11, Zenon DEF SyncState, SyncRoot, At, ServerUnchanged
    <3>2. man.gen = current.gen
      BY <3>1, Zenon DEF CommitInv, CommitOK, PostCommit
    <3>3. \A s \in retired : s.gen < man.gen
      BY <3>2, Zenon DEF LiveInv, LiveOK
    <3>4. QED
      BY <3>1, <3>2, <3>3, GenTypes DEF CommitOK, PostCommit
  <2>4. QED
    BY <2>1, <2>2, <2>3, Zenon
<1>12. CASE WriteManifestTmp
  BY <1>12, GenTypes, Zenon DEF WriteManifestTmp, At, ServerUnchanged, next, CommitInv,
     StagedOK, CommitOK, Recoverable, LiveInv, TypeOK,
     PublishOK, disk, Steps, PostCommit, Gens
<1>13. CASE RenameManifest
  <2>1. /\ current' = current /\ retired' = retired /\ job' = job
        /\ up = "up" /\ up' = "up"
        /\ pc = "rename_manifest" /\ pc' = "sync_manifest"
        /\ UNCHANGED <<seg, st, dseg, dst, dman>>
        /\ man' = [gen |-> current.gen + 1, run |-> job.run, count |-> job.count]
    BY <1>13, Zenon DEF RenameManifest, At, ServerUnchanged, next, LiveInv, PublishOK, Steps
  <2>2. job \in Contents
    BY <2>1, Zenon DEF LiveInv, PublishOK, Steps
  <2>3. job = [run |-> job.run, count |-> job.count]
    BY <2>2, Zenon DEF Contents
  <2>4. Recoverable'
    <3>1. /\ man'.gen = current.gen + 1
          /\ [run |-> man'.run, count |-> man'.count] = job
      BY <2>1, <2>3, Zenon
    <3>2. \A f \in {seg[man'.gen], dseg[man'.gen], st[man'.gen], dst[man'.gen]} : f = job
      BY <2>1, <3>1, Zenon DEF CommitInv, StagedOK
    <3>3. ASSUME dman # NoManifest,
                 NEW f \in {seg[dman.gen], dseg[dman.gen], st[dman.gen], dst[dman.gen]}
          PROVE  f = [run |-> dman.run, count |-> dman.count]
      BY <3>3, Zenon DEF CommitInv, Recoverable
    <3>4. SUFFICES ASSUME NEW m \in {man', dman} \ {NoManifest},
                          NEW f \in {seg[m.gen], dseg[m.gen], st[m.gen], dst[m.gen]}
                   PROVE  f = [run |-> m.run, count |-> m.count]
      BY <2>1, Zenon DEF Recoverable
    <3>5. CASE m = man'
      BY <3>1, <3>2, <3>5, Zenon
    <3>6. CASE m = dman
      BY <3>3, <3>6, Zenon
    <3>7. QED
      BY <3>5, <3>6, Zenon
  <2>5. CommitOK'
    BY <2>1, GenTypes DEF CommitInv, CommitOK, PostCommit
  <2>6. QED
    BY <2>1, <2>4, <2>5, Zenon DEF StagedOK
<1>14. CASE SyncManifest
  <2>1. StagedOK'
    BY <1>14, Zenon DEF SyncManifest, SyncRoot, At, ServerUnchanged, CommitInv, StagedOK
  <2>2. Recoverable'
    BY <1>14, GenTypes, Zenon DEF SyncManifest, SyncRoot, CommitInv, Recoverable
  <2>3. CommitOK'
    <3>1. /\ up = "up" /\ up' = "up"
          /\ pc = "sync_manifest" /\ pc' = "open_snapshot"
          /\ man' = man /\ dman' = man /\ current' = current /\ retired' = retired
      BY <1>14, Zenon DEF SyncManifest, SyncRoot, At, ServerUnchanged
    <3>2. man.gen = current.gen + 1
      BY <3>1 DEF LiveInv, PublishOK, PostCommit
    <3>3. \A s \in retired : s.gen < man.gen
      BY <3>2, RetiredOlder
    <3>4. QED
      BY <3>1, <3>3, GenTypes DEF CommitOK, PostCommit
  <2>4. QED
    BY <2>1, <2>2, <2>3
<1>15. CASE OpenAndSwap
  BY <1>15, GenTypes, Zenon DEF OpenAndSwap, At, snapshot_of, next, CommitInv, StagedOK,
     CommitOK, Recoverable, LiveInv, TypeOK,
     PublishOK, LiveOK, disk, Steps, PostCommit, Gens
<1>16. CASE TailJanitor
  <2>1. /\ pc = "tail_janitor" /\ pc' = "ingest_janitor" /\ run_janitor(prev)
        /\ UNCHANGED <<up, man, dman, dseg, dst, current>>
    BY <1>16, Zenon DEF TailJanitor, At
  <2>2. Recoverable' /\ retired' \subseteq retired
    BY <2>1, JanitorKeepsCommitted, Zenon DEF CommitInv
  <2>3. CommitOK'
    BY <2>1, <2>2, Zenon DEF CommitInv, CommitOK, PostCommit
  <2>4. QED
    BY <2>1, <2>2, <2>3, Zenon DEF StagedOK
<1>17. CASE IngestJanitor
  <2>1. /\ pc = "ingest_janitor" /\ pc' = "idle" /\ run_janitor(NoSnap)
        /\ UNCHANGED <<up, man, dman, dseg, dst, current>>
    BY <1>17, Zenon DEF IngestJanitor, At
  <2>2. Recoverable' /\ retired' \subseteq retired
    BY <2>1, JanitorKeepsCommitted, Zenon DEF CommitInv
  <2>3. CommitOK'
    BY <2>1, <2>2, Zenon DEF CommitInv, CommitOK, PostCommit
  <2>4. QED
    BY <2>1, <2>2, <2>3, Zenon DEF StagedOK
<1>18. CASE PublishFails
  BY <1>18, Zenon DEF PublishFails, CommitCannotFail, CommitInv, StagedOK, CommitOK,
     Recoverable, disk, PostCommit
<1>19. CASE \E r \in Readers : Retain(r)
  BY <1>19 DEF Retain, CommitInv, StagedOK, CommitOK, Recoverable, disk
<1>20. CASE \E r \in Readers : Release(r)
  <2>1. UNCHANGED <<seg, st, man, dseg, dst, dman, up, current, retired, pc, job>>
    BY <1>20, Zenon DEF Release, disk
  <2>2. QED
    BY <2>1, Zenon DEF CommitInv, StagedOK, CommitOK, Recoverable
<1>21. CASE Kill
  BY <1>21, Zenon DEF Kill, LoseMemory, CommitInv, StagedOK, CommitOK, Recoverable,
     disk, PostCommit
<1>22. CASE PowerLoss
  <2>1. /\ up' = "down" /\ pc' = "idle" /\ retired' = {}
        /\ man' \in {man, dman} /\ dman' = man' /\ dseg' = seg' /\ dst' = st'
        /\ \A g \in Gens : /\ seg[g] = dseg[g] => seg'[g] = seg[g]
                           /\ st[g] = dst[g] => st'[g] = st[g]
    BY <1>22, Zenon DEF PowerLoss, LoseMemory
  <2>2. StagedOK' /\ CommitOK'
    BY <2>1, GenTypes DEF StagedOK, CommitOK, PostCommit
  <2>3. ASSUME NEW m \in {man, dman} \ {NoManifest}
        PROVE  \A f \in {seg'[m.gen], st'[m.gen]} : f = [run |-> m.run, count |-> m.count]
    <3>1. \A f \in {seg[m.gen], dseg[m.gen], st[m.gen], dst[m.gen]} :
            f = [run |-> m.run, count |-> m.count]
      BY <2>3, Zenon DEF CommitInv, Recoverable
    <3>2. m.gen \in Gens
      BY <2>3, GenTypes, Zenon
    <3>3. seg'[m.gen] = seg[m.gen] /\ st'[m.gen] = st[m.gen]
      BY <2>1, <3>1, <3>2, Zenon
    <3>4. QED
      BY <3>1, <3>3, Zenon
  <2>4. Recoverable'
    BY <2>1, <2>3, Zenon DEF Recoverable
  <2>5. QED
    BY <2>2, <2>4, Zenon
<1>23. CASE UNCHANGED vars
  BY <1>23, Zenon DEF vars, CommitInv, StagedOK, CommitOK, Recoverable
<1>24. QED
  BY <1>1, <1>2, <1>3, <1>4, <1>5, <1>6, <1>7, <1>8, <1>9, <1>10, <1>11, <1>12,
     <1>13, <1>14, <1>15, <1>16, <1>17, <1>18, <1>19, <1>20, <1>21, <1>22, <1>23,
     OpenOutcomes, Zenon
  DEF Next, ServerStep, Open, Publish

(* Crash consistency: as long as no error is returned after the manifest's     *)
(* rename, a kill or a power loss at any step of any publish leaves a manifest *)
(* whose segment and state are both present and of its own publish.            *)
THEOREM CrashConsistent ==
  ASSUME CommitCannotFail
  PROVE  Spec => []Recoverable
<1>1. CommitInv /\ [Next]_vars => CommitInv'
  BY CommitInvStep, Zenon
<1>2. CommitInv => Recoverable
  BY Zenon DEF CommitInv
<1>3. QED
  BY <1>1, <1>2, CommitInvInit, PTL DEF Spec

(* The invariant behind it: what each step of a publish has staged and synced  *)
(* (writer.rs, workspace_state.rs, manifest.rs), and that the durable manifest *)
(* is the current one or its predecessor.                                      *)
THEOREM PublishStaged ==
  ASSUME CommitCannotFail
  PROVE  Spec => []CommitInv
BY CommitInvInit, CommitInvStep, PTL DEF Spec

(* The pair a manifest names is complete and is the one it was written for. *)
LEMMA CommittedPair ==
  ASSUME CommitInv, man # NoManifest
  PROVE  /\ seg[man.gen] = [run |-> man.run, count |-> man.count]
         /\ st[man.gen] = [run |-> man.run, count |-> man.count]
BY Zenon DEF CommitInv, Recoverable

(* A restart never serves, and no reader ever holds, the segment of one        *)
(* publish with the workspace state of another.                                *)
THEOREM ServedPairsMatch ==
  ASSUME CommitCannotFail
  PROVE  Spec => []NeverMixed
<1>0. NoSnap.seg = NoSnap.st
  BY Zenon DEF NoSnap
<1>1. Init => NeverMixed
  <2> SUFFICES ASSUME Init  PROVE NeverMixed
    BY Zenon
  <2>1. current = NoSnap /\ \A r \in Readers : held[r] = NoSnap
    BY Zenon DEF Init
  <2> QED
    BY <1>0, <2>1, Zenon DEF NeverMixed
<1>2. CommitInv /\ NeverMixed /\ [Next]_vars => NeverMixed'
  <2> SUFFICES ASSUME CommitInv, NeverMixed, [Next]_vars PROVE NeverMixed'
    BY Zenon
  <2>0. TypeOK
    BY Zenon DEF CommitInv, LiveInv
  <2>1. CASE OpenPair
    <3>1. seg[man.gen] = st[man.gen]
      BY <2>1, CommittedPair, Zenon DEF OpenPair
    <3>2. current'.seg = current'.st /\ held' = held
      BY <2>1, <3>1, Zenon DEF OpenPair, snapshot_of
    <3>3. QED
      BY <3>2, Zenon DEF NeverMixed
  <2>2. CASE OpenAndSwap
    <3>1. /\ man = [gen |-> next, run |-> job.run, count |-> job.count]
          /\ man # NoManifest
      BY <2>0, <2>2, GenTypes DEF OpenAndSwap, At, next, CommitInv, LiveInv,
           PublishOK, Steps, PostCommit
    <3>2. man.gen = next /\ seg[next] = st[next]
      BY <3>1, CommittedPair, Zenon
    <3>3. current'.seg = current'.st /\ held' = held
      BY <2>2, <3>2, Zenon DEF OpenAndSwap, snapshot_of
    <3>4. QED
      BY <3>3 DEF NeverMixed
  <2>3. CASE \E r \in Readers : Retain(r) \/ Release(r)
    <3>1. PICK r \in Readers : Retain(r) \/ Release(r)
      BY <2>3, Zenon
    <3>2. current' = current /\ \A q \in Readers : held'[q] \in {held[q], current, NoSnap}
      BY <2>0, <3>1, Zenon DEF Retain, Release, TypeOK
    <3>3. QED
      BY <1>0, <3>2, Zenon DEF NeverMixed
  <2>4. CASE Kill \/ PowerLoss
    <3>1. current' = NoSnap /\ \A r \in Readers : held'[r] = NoSnap
      BY <2>4, Zenon DEF Kill, PowerLoss, LoseMemory
    <3>2. QED
      BY <1>0, <3>1, Zenon DEF NeverMixed
  <2>5. CASE UNCHANGED <<current, held>>
    BY <2>5, Zenon DEF NeverMixed
  <2>6. QED
    BY <2>1, <2>2, <2>3, <2>4, <2>5, OpenOutcomes, Zenon
    DEF Next, ServerStep, Open, OpenFresh, OpenRefused, Publish, BeginPublish,
        WriteSegment, ReplaceSegment, RenameSegment, SyncSegments, WriteStateTmp,
        RenameState, SyncState, SyncRoot, WriteManifestTmp, RenameManifest,
        SyncManifest, TailJanitor, IngestJanitor, PublishFails, ServerUnchanged, vars
<1>3. CommitInv /\ [Next]_vars => CommitInv'
  BY CommitInvStep
<1>4. QED
  BY <1>1, <1>2, <1>3, CommitInvInit, PTL DEF Spec

-------------------------------------------------------------------------------
(* The publish protocol, recovery and the janitor implement the abstract       *)
(* index: renaming the manifest commits one whole generation, the root fsync   *)
(* makes it durable, the swap serves it, and recovery serves what is           *)
(* committed; every other step is invisible.                                   *)
THEOREM StoreImplementsIndex ==
  ASSUME CommitCannotFail
  PROVE  Spec => ImplementsDurableIndex
<1>1. Init => Index!IndexInit
  <2> SUFFICES ASSUME Init PROVE Index!IndexInit
    BY Zenon
  <2>1. Serving = Index!Empty
    BY Zenon DEF Init, Index!Empty, NoSnap, Absent, Serving
  <2>2. QED
    BY <2>1, Zenon DEF Init, Index!IndexInit, Index!Empty, NoManifest
<1>2. CommitInv /\ [Next]_vars => [Index!IndexNext]_(Index!indexVars)
  <2> SUFFICES ASSUME CommitInv, [Next]_vars, ~ UNCHANGED Index!indexVars
               PROVE  Index!IndexNext
    BY Zenon
  <2>0. TypeOK /\ PublishOK /\ DownOK
    BY Zenon DEF CommitInv, LiveInv
  <2>1. CASE OpenFresh
    <3>1. /\ up = "down" /\ up' = "up" /\ man = NoManifest /\ man' = man
          /\ dman' = dman /\ current' = current
      BY <2>1, Zenon DEF OpenFresh, disk
    <3>2. current = NoSnap
      BY <2>0, <3>1, Zenon DEF DownOK
    <3>3. Serving' = man
      BY <3>1, <3>2, Zenon DEF Serving, NoSnap, Absent, NoManifest
    <3>4. Index!Recover
      BY <3>1, <3>3, Zenon DEF Index!Recover
    <3>5. QED
      BY <3>4, Zenon DEF Index!IndexNext
  <2>2. CASE OpenPair
    <3>1. man = [gen |-> man.gen, run |-> man.run, count |-> man.count]
      BY <2>0, <2>2, Zenon DEF OpenPair, TypeOK, Manifests
    <3>2. Serving' = man
      BY <2>2, <3>1, CommittedPair DEF OpenPair, snapshot_of, Serving
    <3>3. Index!Recover
      BY <2>2, <3>2, Zenon DEF OpenPair, Index!Recover, disk
    <3>4. QED
      BY <3>3 DEF Index!IndexNext
  <2>3. CASE SyncState \/ SyncManifest
    <3>1. Index!Sync
      BY <2>3, Zenon DEF SyncState, SyncManifest, SyncRoot, At, ServerUnchanged, Index!Sync,
           Serving
    <3>2. QED
      BY <3>1, Zenon DEF Index!IndexNext
  <2>4. CASE RenameManifest
    <3>1. job \in Contents /\ next = Serving.gen + 1
      BY <2>0, <2>4, Zenon DEF RenameManifest, At, PublishOK, Steps, next, Serving
    <3>2. Index!Commit
      BY <2>4, <3>1, Zenon DEF RenameManifest, At, ServerUnchanged, Index!Commit, Serving
    <3>3. QED
      BY <3>2, Zenon DEF Index!IndexNext
  <2>5. CASE OpenAndSwap
    <3>1. /\ up = "up" /\ up' = "up" /\ pc = "open_snapshot"
          /\ man' = man /\ dman' = dman
      BY <2>5, Zenon DEF OpenAndSwap, At, disk
    <3>2. /\ man = [gen |-> current.gen + 1, run |-> job.run, count |-> job.count]
          /\ next = current.gen + 1 /\ man # NoManifest
      BY <2>0, <3>1, GenTypes DEF PublishOK, Steps, PostCommit, next
    <3>3. seg[next] = [run |-> man.run, count |-> man.count]
      BY <3>2, CommittedPair, Zenon
    <3>4. Serving' = man
      <4>1. current'.gen = man.gen /\ current'.seg = seg[next]
        BY <2>5, Zenon DEF OpenAndSwap, snapshot_of
      <4>2. QED
        BY <3>2, <3>3, <4>1 DEF Serving
    <3>5. dman = man
      BY <3>1, Zenon DEF CommitInv, CommitOK
    <3>6. Index!Serve
      BY <3>1, <3>2, <3>4, <3>5 DEF Index!Serve, Serving
    <3>7. QED
      BY <3>6, Zenon DEF Index!IndexNext
  <2>6. CASE Kill
    <3>1. Index!Stop
      BY <2>6, Zenon DEF Kill, LoseMemory, Index!Stop, Index!Empty, Serving, NoSnap, Absent, disk
    <3>2. QED
      BY <3>1, Zenon DEF Index!IndexNext
  <2>7. CASE PowerLoss
    <3>1. Index!LosePower
      BY <2>7, Zenon DEF PowerLoss, LoseMemory, Index!LosePower, Index!Empty, Serving, NoSnap,
           Absent
    <3>2. QED
      BY <3>1, Zenon DEF Index!IndexNext
  <2>8. CASE OpenRefused
    BY <2>8, Zenon DEF OpenRefused, disk, Index!indexVars, Serving
  <2>9. CASE UNCHANGED <<man, dman, up, current>>
    BY <2>9, Zenon DEF Index!indexVars, Serving
  <2>10. QED
    BY <2>1, <2>2, <2>3, <2>4, <2>5, <2>6, <2>7, <2>8, <2>9, OpenOutcomes, Zenon
    DEF Next, ServerStep, Open, Publish, BeginPublish, WriteSegment, ReplaceSegment,
        RenameSegment, SyncSegments, WriteStateTmp, RenameState, WriteManifestTmp,
        TailJanitor, IngestJanitor, PublishFails, Retain, Release, At, ServerUnchanged,
        disk, vars
<1>3. CommitInv /\ [Next]_vars => CommitInv'
  BY CommitInvStep
<1>4. QED
  BY <1>1, <1>2, <1>3, CommitInvInit, PTL
  DEF Spec, ImplementsDurableIndex, Index!IndexSpec

-------------------------------------------------------------------------------
(* A step of the server leaves the files of a committed generation alone or    *)
(* deletes them, and the visible manifest never goes back.                     *)
LEMMA CommittedOnlyDeleted ==
  ASSUME CommitInv, ServerStep, NEW g \in Gens, g <= man.gen
  PROVE  /\ man.gen <= man'.gen
         /\ seg'[g] \in {Absent, seg[g]} /\ st'[g] \in {Absent, st[g]}
<1>0. /\ TypeOK /\ LiveInv /\ CommitOK
      /\ man.gen \in Nat /\ current.gen \in Nat /\ g \in Nat
  BY GenTypes, StoreConstants DEF CommitInv, LiveInv, Gens
<1>1. ASSUME up = "up", pc \in Steps \ PostCommit
      PROVE  next # g /\ man.gen <= next
  <2>1. next = current.gen + 1
    BY <1>0, <1>1, StagingIsNotCommitted, Zenon
  <2>2. man.gen = current.gen
    BY <1>0, <1>1, Zenon DEF CommitOK
  <2>3. QED
    BY <1>0, <2>1, <2>2
<1>2. CASE ReplaceSegment
  <2>1. next # g /\ man' = man /\ st' = st /\ seg' = [seg EXCEPT ![next] = Absent]
    BY <1>1, <1>2, Zenon DEF ReplaceSegment, At, Steps, PostCommit
  <2>2. QED
    BY <1>0, <2>1 DEF TypeOK
<1>3. CASE RenameSegment
  <2>1. next # g /\ man' = man /\ st' = st /\ seg' = [seg EXCEPT ![next] = job]
    BY <1>1, <1>3, Zenon DEF RenameSegment, At, Steps, PostCommit
  <2>2. QED
    BY <1>0, <2>1 DEF TypeOK
<1>4. CASE RenameState
  <2>1. next # g /\ man' = man /\ seg' = seg /\ st' = [st EXCEPT ![next] = job]
    BY <1>1, <1>4, Zenon DEF RenameState, At, Steps, PostCommit
  <2>2. QED
    BY <1>0, <2>1 DEF TypeOK
<1>5. CASE RenameManifest
  BY <1>1, <1>5, Zenon DEF RenameManifest, At, Steps, PostCommit
<1>6. ASSUME NEW pinned, run_janitor(pinned), UNCHANGED man
      PROVE  seg'[g] \in {Absent, seg[g]} /\ st'[g] \in {Absent, st[g]} /\ man.gen <= man'.gen
  BY <1>0, <1>6 DEF run_janitor
<1>7. CASE TailJanitor \/ IngestJanitor
  BY <1>6, <1>7, Zenon DEF TailJanitor, IngestJanitor
<1>8. CASE UNCHANGED <<seg, st, man>>
  BY <1>0, <1>8
<1>9. QED
  BY <1>2, <1>3, <1>4, <1>5, <1>7, <1>8, Zenon
  DEF ServerStep, Open, OpenFresh, OpenStored, Publish, BeginPublish, WriteSegment, SyncSegments,
      WriteStateTmp, SyncState, SyncManifest, SyncRoot, WriteManifestTmp, OpenAndSwap, PublishFails,
      Retain, Release, Kill, disk

(* Every read of the inspector, and every step of the server between two of    *)
(* them, keeps what the inspector relies on.                                   *)
LEMMA InspectorInvStep ==
  ASSUME CommitInv, InspectorInv, [InspectorNext]_<<vars, insp>>
  PROVE  InspectorInv'
<1>0. TypeOK /\ man.gen \in Nat /\ (man # NoManifest => man.gen \in Gens)
  BY GenTypes, Zenon DEF CommitInv, LiveInv
<1>1. CASE ServerStep /\ UNCHANGED insp
  <2>1. CASE insp.at \in {"segment", "state", "opened"}
    <3>1. insp.man \in Manifests /\ insp.man.gen \in Gens /\ insp.man.gen <= man.gen
      BY <2>1, Zenon DEF InspectorInv, Manifests
    <3>2. /\ man.gen <= man'.gen
          /\ seg'[insp.man.gen] \in {Absent, seg[insp.man.gen]}
          /\ st'[insp.man.gen] \in {Absent, st[insp.man.gen]}
      BY <1>1, <3>1, CommittedOnlyDeleted, Zenon
    <3>3. insp.man.gen <= man'.gen
      <4>1. TypeOK'
        BY <1>1, LiveInvStep, Zenon DEF CommitInv, LiveInv, Next
      <4>2. man'.gen \in Nat
        BY <4>1, StoreConstants DEF TypeOK, Manifests, NoManifest, Gens
      <4>3. QED
        BY <1>0, <3>1, <3>2, <4>2, StoreConstants DEF Gens
    <3>4. QED
      BY <1>1, <3>2, <3>3, Zenon DEF InspectorInv
  <2>2. CASE insp.at \notin {"segment", "state", "opened"}
    BY <1>1, <2>2, Zenon DEF InspectorInv
  <2>3. QED
    BY <2>1, <2>2, Zenon
<1>2. CASE PowerLoss /\ insp' = NotInspecting
  BY <1>2, Zenon DEF InspectorInv, NotInspecting
<1>3. CASE LoadManifest
  <2>1. CASE man = NoManifest
    BY <1>0, <1>3, <2>1, Zenon DEF LoadManifest, InspectorInv, NotInspecting, vars, TypeOK
  <2>2. CASE man # NoManifest
    <3>1. seg[man.gen] = Pair(man) /\ st[man.gen] = Pair(man)
      BY <2>2, CommittedPair, Zenon DEF Pair
    <3>2. insp' = [at |-> "segment", man |-> man, seg |-> Absent, st |-> Absent]
          /\ UNCHANGED <<seg, st, man>>
      BY <1>3, <2>2, Zenon DEF LoadManifest, NotInspecting, vars
    <3>3. QED
      BY <1>0, <2>2, <3>1, <3>2 DEF InspectorInv, TypeOK
  <2>3. QED
    BY <2>1, <2>2, Zenon
<1>4. CASE OpenSegment
  BY <1>0, <1>4, Zenon DEF OpenSegment, InspectorInv, vars, TypeOK, Manifests
<1>5. CASE LoadState
  BY <1>0, <1>5, Zenon DEF LoadState, InspectorInv, vars, TypeOK, Manifests
<1>6. CASE Report
  BY <1>6, Zenon DEF Report, InspectorInv, NotInspecting
<1>7. CASE UNCHANGED <<vars, insp>>
  BY <1>7, Zenon DEF InspectorInv, vars
<1>8. QED
  BY <1>1, <1>2, <1>3, <1>4, <1>5, <1>6, <1>7, Zenon DEF InspectorNext, Inspect

(* A second process that opens the store read-only beside a running server     *)
(* (Store::open_readonly: manifest, then segment, then state) never gets the   *)
(* files of two publishes, wherever the server's publishes, janitors, crashes  *)
(* and restarts fall between its reads, as long as no operation fails after    *)
(* the manifest rename.                                                        *)
THEOREM InspectorNeverMixes ==
  ASSUME CommitCannotFail
  PROVE  InspectorSpec => []InspectorSeesOnePair
<1>1. InspectorInit => CommitInv /\ InspectorInv
  BY CommitInvInit DEF InspectorInit, InspectorInv, NotInspecting
<1>2. [InspectorNext]_<<vars, insp>> => [Next]_vars
  BY Zenon DEF InspectorNext, Inspect, LoadManifest, OpenSegment, LoadState, Report, Next
<1>3. CommitInv /\ InspectorInv /\ [InspectorNext]_<<vars, insp>> => CommitInv' /\ InspectorInv'
  BY <1>2, CommitInvStep, InspectorInvStep, Zenon
<1>4. CommitInv /\ InspectorInv => InspectorSeesOnePair
  BY DEF InspectorInv, InspectorSeesOnePair, Pair
<1>5. QED
  BY <1>1, <1>3, <1>4, PTL DEF InspectorSpec
===============================================================================
