-------------------------------- MODULE Store --------------------------------
(***************************************************************************)
(* The snapshot store of crates/ls-store: one immutable (segment,          *)
(* workspace-state) pair per generation, named by manifest.json, published *)
(* by write + fsync + rename + fsync-dir steps, opened at boot, and        *)
(* reclaimed by a janitor once no reader holds the superseded snapshot.    *)
(*                                                                         *)
(* A file's content is the publish that wrote it (`run`) and the record    *)
(* count its reader can see (`count`).  Directory entries exist twice: as  *)
(* the running system sees them and as a power loss would leave them; an   *)
(* fsync of the directory makes the two agree.                             *)
(***************************************************************************)
EXTENDS Naturals, FiniteSets

CONSTANTS
  Readers,       \* threads that clone the current snapshot and keep it a while
  Counts,        \* doc/symbol counts a segment may have
  MaxGen,        \* bound: highest generation a run reaches
  MaxRuns,       \* bound: number of publishes started
  FaultPoints    \* operations that may return an I/O error

(* The steps of one publish, in program order. *)
Steps == {"write_segment", "replace_segment", "rename_segment", "sync_segments",
          "write_state_tmp", "rename_state", "sync_state",
          "write_manifest_tmp", "rename_manifest", "sync_manifest",
          "open_snapshot"}

(* The steps that can return an error once the new manifest is in place. *)
PostCommit == {"sync_manifest", "open_snapshot"}

ASSUME StoreConstants ==
  /\ MaxGen \in Nat
  /\ MaxRuns \in Nat
  /\ Counts \subseteq Nat
  /\ FaultPoints \subseteq Steps \cup {"remove"}

VARIABLES
  seg,      \* segments/segment-<gen> as the file system shows it
  st,       \* workspace-state-<gen>.bin
  man,      \* manifest.json
  dseg,     \* the same three as a power loss would leave them
  dst,
  dman,
  tmp,      \* staged files not yet renamed into place
  up,       \* the server process: "down", "up", or "refused" by Store::open
  current,  \* the ArcSwap slot
  retired,  \* superseded snapshots queued for deletion
  held,     \* reader -> the snapshot clone it holds
  prev,     \* the clone publish itself holds while it runs
  pc,       \* the next step of the publish in progress
  job,      \* what the publish in progress writes
  runs      \* publishes started so far
vars == <<seg, st, man, dseg, dst, dman, tmp, up, current, retired, held,
          prev, pc, job, runs>>

Gens == 1 .. MaxGen
Absent == [run |-> 0, count |-> 0]
Contents == [run : 1 .. MaxRuns, count : Counts]
NoManifest == [gen |-> 0, run |-> 0, count |-> 0]
Manifests == [gen : Gens, run : 1 .. MaxRuns, count : Counts]
NoSnap == [gen |-> 0, seg |-> Absent, st |-> Absent]
Snapshots == [gen : Gens, seg : Contents, st : Contents]

(* The part of the state that outlives the server process. *)
disk == <<seg, st, man, dseg, dst, dman>>

Init ==
  /\ seg = [g \in Gens |-> Absent] /\ dseg = seg
  /\ st = [g \in Gens |-> Absent] /\ dst = st
  /\ man = NoManifest /\ dman = NoManifest
  /\ tmp = {}
  /\ up = "down"
  /\ current = NoSnap /\ retired = {} /\ prev = NoSnap
  /\ held = [r \in Readers |-> NoSnap]
  /\ pc = "idle" /\ job = Absent /\ runs = 0

-------------------------------------------------------------------------------
(* Opening the pair a manifest names.  The segment is tied to the manifest by  *)
(* its id (the directory and header carry the generation) and its record       *)
(* counts, the state by its generation and payload checksum.                   *)
open_snapshot(m, segment, state) ==
  /\ segment # Absent
  /\ segment.count = m.count
  /\ state # Absent
  /\ state.run = m.run

snapshot_of(m, segment, state) == [gen |-> m.gen, seg |-> segment, st |-> state]

(* Store::open: sweep tmp debris, load the manifest, open its pair. *)
OpenFresh ==
  /\ up = "down"
  /\ man = NoManifest
  /\ up' = "up"
  /\ tmp' = {}
  /\ UNCHANGED <<disk, current, retired, held, prev, pc, job, runs>>

(* A pair that does not open is an error of Store::open, and the bootstrap fails. *)
OpenStored ==
  /\ up = "down"
  /\ man # NoManifest
  /\ LET opens == open_snapshot(man, seg[man.gen], st[man.gen])
     IN  /\ up' = IF opens THEN "up" ELSE "refused"
         /\ current' = IF opens THEN snapshot_of(man, seg[man.gen], st[man.gen]) ELSE current
  /\ tmp' = {}
  /\ UNCHANGED <<disk, retired, held, prev, pc, job, runs>>

-------------------------------------------------------------------------------
(* Mutant: the generation number is not advanced. *)
NextReusesGeneration == IF prev.gen = 0 THEN 1 ELSE prev.gen

(* publish, one action per file-system effect.  The ingest lock and the        *)
(* publish lock admit one publish at a time: pc = "idle" is "both are free".   *)
next == prev.gen + 1

BeginPublish ==
  /\ up = "up" /\ pc = "idle"
  /\ runs < MaxRuns
  /\ current.gen < MaxGen
  /\ prev' = current
  /\ runs' = runs + 1
  /\ \E c \in Counts : job' = [run |-> runs + 1, count |-> c]
  /\ pc' = "write_segment"
  /\ UNCHANGED <<disk, tmp, up, current, retired, held>>

At(step, then) == up = "up" /\ pc = step /\ pc' = then

ServerUnchanged == UNCHANGED <<up, current, retired, held, prev, job, runs>>

WriteSegment ==
  /\ At("write_segment", "replace_segment")
  /\ tmp' = tmp \cup {"segment"}
  /\ UNCHANGED disk /\ ServerUnchanged

ReplaceSegment ==
  /\ At("replace_segment", "rename_segment")
  /\ seg' = [seg EXCEPT ![next] = Absent]
  /\ UNCHANGED <<st, man, dseg, dst, dman, tmp>> /\ ServerUnchanged

RenameSegment ==
  /\ At("rename_segment", "sync_segments")
  /\ seg' = [seg EXCEPT ![next] = job]
  /\ tmp' = tmp \ {"segment"}
  /\ UNCHANGED <<st, man, dseg, dst, dman>> /\ ServerUnchanged

(* Mutant: segments/ is not fsynced after the rename. *)
SyncSegmentsSkipped ==
  /\ At("sync_segments", "write_state_tmp")
  /\ UNCHANGED <<disk, tmp>> /\ ServerUnchanged

(* fsync of segments/ *)
SyncSegments ==
  /\ At("sync_segments", "write_state_tmp")
  /\ dseg' = seg
  /\ UNCHANGED <<seg, st, man, dst, dman, tmp>> /\ ServerUnchanged

WriteStateTmp ==
  /\ At("write_state_tmp", "rename_state")
  /\ tmp' = tmp \cup {"state"}
  /\ UNCHANGED disk /\ ServerUnchanged

RenameState ==
  /\ At("rename_state", "sync_state")
  /\ st' = [st EXCEPT ![next] = job]
  /\ tmp' = tmp \ {"state"}
  /\ UNCHANGED <<seg, man, dseg, dst, dman>> /\ ServerUnchanged

(* fsync of the root directory: state files and manifest alike *)
SyncRoot(step, then) ==
  /\ At(step, then)
  /\ dst' = st /\ dman' = man
  /\ UNCHANGED <<seg, st, man, dseg, tmp>> /\ ServerUnchanged

SyncState == SyncRoot("sync_state", "write_manifest_tmp")

WriteManifestTmp ==
  /\ At("write_manifest_tmp", "rename_manifest")
  /\ tmp' = tmp \cup {"manifest"}
  /\ UNCHANGED disk /\ ServerUnchanged

(* The single commit point. *)
RenameManifest ==
  /\ At("rename_manifest", "sync_manifest")
  /\ man' = [gen |-> next, run |-> job.run, count |-> job.count]
  /\ tmp' = tmp \ {"manifest"}
  /\ UNCHANGED <<seg, st, dseg, dst, dman>> /\ ServerUnchanged

(* Mutant: the root is not fsynced after the manifest's rename. *)
SyncManifestSkipped ==
  /\ At("sync_manifest", "open_snapshot")
  /\ UNCHANGED <<disk, tmp>> /\ ServerUnchanged

SyncManifest == SyncRoot("sync_manifest", "open_snapshot")

(* Open the committed pair, swap it in, queue the superseded snapshot. *)
OpenAndSwap ==
  /\ At("open_snapshot", "tail_janitor")
  /\ open_snapshot(man, seg[next], st[next])
  /\ current' = snapshot_of(man, seg[next], st[next])
  /\ retired' = retired \cup ({current} \ {NoSnap})
  /\ UNCHANGED <<disk, tmp, up, held, prev, job, runs>>

-------------------------------------------------------------------------------
(* Mutant: a reader's clone does not count. *)
DroppedIgnoresReaders(s, pinned) == s # pinned

(* A snapshot has dropped when nobody holds a clone of it. *)
Dropped(s, pinned) == s # pinned /\ \A r \in Readers : held[r] # s

(* run_janitor: delete the files of every retired snapshot that has dropped    *)
(* and forget it, whether or not the deletion succeeded (its result is         *)
(* ignored).                                                                   *)
run_janitor(pinned) ==
  LET drained == {s \in retired : Dropped(s, pinned)}
      gens == {s.gen : s \in drained}
  IN /\ retired' = retired \ drained
     /\ \E goneSeg \in SUBSET gens, goneSt \in SUBSET gens :
          /\ "remove" \notin FaultPoints => goneSeg = gens /\ goneSt = gens
          /\ seg' = [g \in Gens |-> IF g \in goneSeg THEN Absent ELSE seg[g]]
          /\ st' = [g \in Gens |-> IF g \in goneSt THEN Absent ELSE st[g]]

(* The janitor at publish's tail still sees prev pinned by publish itself... *)
TailJanitor ==
  /\ At("tail_janitor", "ingest_janitor")
  /\ run_janitor(prev)
  /\ prev' = NoSnap
  /\ job' = Absent
  /\ UNCHANGED <<man, dseg, dst, dman, tmp, up, current, held, runs>>

(* ...and ingest runs it again once publish has returned. *)
IngestJanitor ==
  /\ At("ingest_janitor", "idle")
  /\ run_janitor(NoSnap)
  /\ UNCHANGED <<man, dseg, dst, dman, tmp, up, current, held, prev, job, runs>>

(* An I/O error returns from publish at once; what was done so far stays, and  *)
(* ingest returns the error without running its janitor.                       *)
PublishFails ==
  /\ up = "up"
  /\ pc \in FaultPoints
  /\ pc' = "idle"
  /\ prev' = NoSnap
  /\ job' = Absent
  /\ UNCHANGED <<disk, tmp, up, current, retired, held, runs>>

-------------------------------------------------------------------------------
(* Readers: Store::current / Store::retain, and the drop of the clone. *)
Retain(r) ==
  /\ up = "up"
  /\ held[r] = NoSnap
  /\ current # NoSnap
  /\ held' = [held EXCEPT ![r] = current]
  /\ UNCHANGED <<disk, tmp, up, current, retired, prev, pc, job, runs>>

Release(r) ==
  /\ held[r] # NoSnap
  /\ held' = [held EXCEPT ![r] = NoSnap]
  /\ UNCHANGED <<disk, tmp, up, current, retired, prev, pc, job, runs>>

-------------------------------------------------------------------------------
(* The process goes away: what was in memory is gone. *)
LoseMemory ==
  /\ up # "down"
  /\ up' = "down"
  /\ current' = NoSnap /\ retired' = {} /\ prev' = NoSnap
  /\ held' = [r \in Readers |-> NoSnap]
  /\ pc' = "idle" /\ job' = Absent
  /\ UNCHANGED runs

Kill == LoseMemory /\ UNCHANGED <<disk, tmp>>

(* A directory entry that was not yet fsynced survives in its old or its new   *)
(* form; a directory being replaced may also be found half removed.            *)
PowerLoss ==
  /\ LoseMemory
  /\ \E lostSeg \in SUBSET {g \in Gens : seg[g] # dseg[g]},
        half \in SUBSET {g \in Gens : seg[g] # dseg[g]},
        lostSt \in SUBSET {g \in Gens : st[g] # dst[g]}, m \in {man, dman} :
       /\ seg' = [g \in Gens |-> IF g \in half THEN Absent
                                 ELSE IF g \in lostSeg THEN dseg[g] ELSE seg[g]]
       /\ st' = [g \in Gens |-> IF g \in lostSt THEN dst[g] ELSE st[g]]
       /\ man' = m
  /\ dseg' = seg' /\ dst' = st' /\ dman' = man'
  /\ UNCHANGED tmp

-------------------------------------------------------------------------------
Publish ==
  \/ BeginPublish
  \/ WriteSegment \/ ReplaceSegment \/ RenameSegment \/ SyncSegments
  \/ WriteStateTmp \/ RenameState \/ SyncState
  \/ WriteManifestTmp \/ RenameManifest \/ SyncManifest
  \/ OpenAndSwap \/ TailJanitor \/ IngestJanitor

Open == OpenFresh \/ OpenStored

ServerStep ==
  \/ Open
  \/ Publish \/ PublishFails
  \/ \E r \in Readers : Retain(r) \/ Release(r)
  \/ Kill

Next == ServerStep \/ PowerLoss

Spec == Init /\ [][Next]_vars

(* The editor restarts a server that went away, or that could not open its     *)
(* store, so the store is opened again.                                        *)
Restart == up = "refused" /\ Kill

FairSpec == Spec /\ WF_vars(Open) /\ WF_vars(Publish) /\ WF_vars(Restart)

-------------------------------------------------------------------------------
(* Type correctness of the store's files, memory and publish program counter. *)
TypeOK ==
  /\ seg \in [Gens -> Contents \cup {Absent}]
  /\ dseg \in [Gens -> Contents \cup {Absent}]
  /\ st \in [Gens -> Contents \cup {Absent}]
  /\ dst \in [Gens -> Contents \cup {Absent}]
  /\ man \in Manifests \cup {NoManifest}
  /\ dman \in Manifests \cup {NoManifest}
  /\ tmp \subseteq {"segment", "state", "manifest"}
  /\ up \in {"down", "up", "refused"}
  /\ current \in Snapshots \cup {NoSnap}
  /\ retired \subseteq Snapshots
  /\ held \in [Readers -> Snapshots \cup {NoSnap}]
  /\ prev \in Snapshots \cup {NoSnap}
  /\ pc \in Steps \cup {"idle", "tail_janitor", "ingest_janitor"}
  /\ job \in Contents \cup {Absent}
  /\ runs \in 0 .. MaxRuns

(* Crash consistency: at every instant, whichever of the visible and the       *)
(* durable manifest a crash leaves behind, each of the two files it names is   *)
(* there and is the one that manifest was written for, whichever of their      *)
(* forms survive.  This is what the order segment, state, manifest and their   *)
(* fsyncs buy, and what the janitor must not undo.                             *)
Recoverable ==
  \A m \in {man, dman} \ {NoManifest} :
    \A f \in {seg[m.gen], dseg[m.gen], st[m.gen], dst[m.gen]} :
      f = [run |-> m.run, count |-> m.count]

(* A reader's snapshot, and the one being served, keep their files: neither    *)
(* the janitor nor a later publish deletes or replaces the segment or state    *)
(* file of a generation somebody still holds.                                  *)
RetainedIntact ==
  \A s \in ({current} \cup {held[r] : r \in Readers}) \ {NoSnap} :
    seg[s.gen] = s.seg /\ st[s.gen] = s.st

(* The segment and the workspace state that are served together come from the  *)
(* same publish.                                                               *)
NeverMixed ==
  \A s \in {current} \cup {held[r] : r \in Readers} : s.seg = s.st

(* A store whose manifest names a missing segment is refused, "heals on the    *)
(* next ingest" (docs/architecture.md): restarting the server, which ingests   *)
(* when its store opens, gets it out of the refusal.                           *)
RefusalHeals == up = "refused" ~> up = "up"

(* What a reader is answered from. *)
Serving == [gen |-> current.gen, run |-> current.seg.run, count |-> current.seg.count]

Index == INSTANCE DurableIndex WITH
  Payloads  <- Contents,
  committed <- man,
  durable   <- dman,
  alive     <- up = "up",
  serving   <- Serving

(* The store implements the abstract index: the manifest is the commit point,  *)
(* the root fsync makes it durable, readers see one committed generation.      *)
ImplementsDurableIndex == Index!IndexSpec

-------------------------------------------------------------------------------
(* The inductive strengthening of RetainedIntact, for every set of faults.     *)
Live == (({current} \cup retired) \cup {held[r] : r \in Readers}) \ {NoSnap}

(* The publish in progress builds on the served snapshot, which no other step  *)
(* replaces meanwhile, and its manifest is in place once renamed.              *)
PublishOK ==
  /\ pc # "idle" => up = "up"
  /\ pc \in Steps => prev = current /\ current.gen < MaxGen /\ job \in Contents
  /\ pc \in PostCommit =>
       man = [gen |-> current.gen + 1, run |-> job.run, count |-> job.count]

DownOK ==
  up # "up" => current = NoSnap /\ retired = {} /\ \A r \in Readers : held[r] = NoSnap

(* No live snapshot is newer than the served one, all still have their files,  *)
(* and the queued ones are older than the served one.                          *)
LiveOK ==
  /\ \A s \in Live : s.gen <= current.gen /\ seg[s.gen] = s.seg /\ st[s.gen] = s.st
  /\ \A s \in retired : s.gen < current.gen

LiveInv == TypeOK /\ PublishOK /\ DownOK /\ LiveOK

(* What the publish in progress has staged for the next generation so far, and *)
(* how much of it a power loss can no longer take back.                        *)
StagedOK ==
  LET n == current.gen + 1 IN
  /\ pc \in {"sync_segments", "write_state_tmp", "rename_state", "sync_state",
             "write_manifest_tmp", "rename_manifest"} => seg[n] = job
  /\ pc \in {"write_state_tmp", "rename_state", "sync_state",
             "write_manifest_tmp", "rename_manifest"} => dseg[n] = job
  /\ pc \in {"sync_state", "write_manifest_tmp", "rename_manifest"} => st[n] = job
  /\ pc \in {"write_manifest_tmp", "rename_manifest"} => dst[n] = job

(* Where the commit point stands: the durable manifest lags the visible one,   *)
(* which names the served generation except between its rename and the swap;   *)
(* the janitor's queue is older than both.                                     *)
CommitOK ==
  /\ dman.gen <= man.gen
  /\ up = "up" /\ pc \notin PostCommit => man.gen = current.gen
  /\ up = "up" /\ pc # "open_snapshot" => dman.gen <= current.gen
  /\ pc = "open_snapshot" => dman = man
  /\ \A s \in retired : s.gen < dman.gen

(* The inductive strengthening of Recoverable while no error is returned after *)
(* the manifest rename.                                                        *)
CommitInv == LiveInv /\ StagedOK /\ CommitOK /\ Recoverable
===============================================================================
