---------------------------- MODULE StoreInspector ----------------------------
(***************************************************************************)
(* A second process (the doctor's store section, `ls dump`) that opens the *)
(* store read-only while a server owns it.  Store::open_readonly reads the *)
(* manifest, then the segment, then the state: three reads that the        *)
(* server's publish and janitor steps may fall between.                    *)
(***************************************************************************)
EXTENDS Store

VARIABLE insp    \* the inspector: its next read, and what it has read so far

NotInspecting == [at |-> "idle", man |-> NoManifest, seg |-> Absent, st |-> Absent]

InspectorInit == Init /\ insp = NotInspecting

(* Manifest::load; a store without a manifest opens empty. *)
LoadManifest ==
  /\ insp.at = "idle"
  /\ insp' = [NotInspecting EXCEPT
                !.at = IF man = NoManifest THEN "empty" ELSE "segment",
                !.man = man]
  /\ UNCHANGED vars

(* SegmentReader::open and the id and count checks against the manifest. *)
OpenSegment ==
  /\ insp.at = "segment"
  /\ LET segment == seg[insp.man.gen] IN
       insp' = IF segment # Absent /\ segment.count = insp.man.count
               THEN [insp EXCEPT !.at = "state", !.seg = segment]
               ELSE [insp EXCEPT !.at = "refused"]
  /\ UNCHANGED vars

(* workspace_state::load and its checksum check. *)
LoadState ==
  /\ insp.at = "state"
  /\ LET state == st[insp.man.gen] IN
       insp' = IF state # Absent /\ state.run = insp.man.run
               THEN [insp EXCEPT !.at = "opened", !.st = state]
               ELSE [insp EXCEPT !.at = "refused"]
  /\ UNCHANGED vars

(* The report is printed and the process ends; it can be run again. *)
Report ==
  /\ insp.at \in {"empty", "opened", "refused"}
  /\ insp' = NotInspecting
  /\ UNCHANGED vars

Inspect == LoadManifest \/ OpenSegment \/ LoadState \/ Report

InspectorNext ==
  \/ ServerStep /\ UNCHANGED insp
  \/ PowerLoss /\ insp' = NotInspecting
  \/ Inspect

InspectorSpec == InspectorInit /\ [][InspectorNext]_<<vars, insp>>

-------------------------------------------------------------------------------
(* What a read-only open returns is one published pair: the three separate     *)
(* reads never combine files of two publishes, however the server's publish    *)
(* and janitor steps fall between them.                                        *)
InspectorSeesOnePair ==
  insp.at = "opened" =>
    insp.seg = insp.st /\ insp.seg.run = insp.man.run

(* A read-only open of a healthy store is not disturbed by the server's        *)
(* publishes (the comment on Store::open_readonly: an inspector reads a store  *)
(* a live server owns "without racing its in-flight publish").                 *)
InspectorUndisturbed == Recoverable => insp.at # "refused"

-------------------------------------------------------------------------------
(* The inductive strengthening of InspectorSeesOnePair, beside CommitInv: the  *)
(* generation whose manifest the inspector has read is never written again, it *)
(* is only deleted.                                                            *)
Pair(m) == [run |-> m.run, count |-> m.count]

InspectorInv ==
  /\ insp \in [at : {"idle", "empty", "segment", "state", "opened", "refused"},
               man : Manifests \cup {NoManifest},
               seg : Contents \cup {Absent}, st : Contents \cup {Absent}]
  /\ insp.at \in {"segment", "state", "opened"} =>
       /\ insp.man # NoManifest /\ insp.man.gen <= man.gen
       /\ seg[insp.man.gen] \in {Absent, Pair(insp.man)}
       /\ st[insp.man.gen] \in {Absent, Pair(insp.man)}
  /\ insp.at \in {"state", "opened"} => insp.seg = Pair(insp.man)
  /\ insp.at = "opened" => insp.st = Pair(insp.man)
===============================================================================
