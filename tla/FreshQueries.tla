----------------------------- MODULE FreshQueries -----------------------------
(***************************************************************************)
(* References and rename while the files change under them (ls-engine:     *)
(* rename.rs, references.rs, the cursor and freshness part of              *)
(* orchestrator.rs; ls-server: the dirty test of pc_overlay.rs).           *)
(*                                                                         *)
(* Three actors besides the editor.  The message loop runs one request at  *)
(* a time, step by step.  The build worker compiles and ingests in the     *)
(* background.  Both ingest under one lock and read the files one by one;  *)
(* anything may be saved meanwhile.  A text is a number, and so is what    *)
(* stands for it on disk, in an open buffer, in the SemanticDB compiled    *)
(* from it (its md5) and in a segment; Absent is no text at all.  Every    *)
(* file uses the symbol under the cursor.                                  *)
(***************************************************************************)
EXTENDS Integers

CONSTANTS Files,
          MaxTexts,      \* texts a file goes through
          MaxJobs,       \* background builds
          MaxRequests,   \* requests the editor makes
          MaxCompiles,   \* compiles that fail
          MaxIngests     \* ingests that fail

Absent == 0
None == [f \in Files |-> Absent]

VARIABLES
    disk,      \* file -> its text
    buffer,    \* file -> the text of its open buffer, Absent when closed
    sdb,       \* file -> the text its SemanticDB was compiled from
    snap,      \* file -> the text the current segment knows it by
    lock,      \* who holds ingest_lock
    loop,      \* the request the message loop is running
    worker,    \* the job of the build worker
    pending,   \* what the worker is asked for, a subset of {"build", "reindex"}
    reply,     \* the last answer
    used       \* how much of each bound is used up

vars == <<disk, buffer, sdb, snap, lock, loop, worker, pending, reply, used>>

Idle == [at |-> "idle", todo |-> {}, part |-> None, reindex |-> FALSE]

\* base: the segment the answer is taken from; seen: the texts it was checked against
NoRequest ==
    [at |-> "idle", is |-> "none", cur |-> CHOOSE f \in Files : TRUE, stage |-> "now",
     source |-> "none", text |-> Absent, needs |-> FALSE, then |-> "none",
     todo |-> {}, part |-> None, base |-> None, seen |-> None, moved |-> FALSE]

FreshInit ==
    /\ disk = [f \in Files |-> 1]
    /\ buffer \in [Files -> {Absent, 1}]
    /\ sdb \in [Files -> {Absent, 1}]
    /\ snap = None
    /\ lock = "free"
    /\ loop = NoRequest
    /\ worker = Idle
    /\ pending = {}
    /\ reply = NoRequest
    /\ used = [jobs |-> 0, requests |-> 0, compiles |-> 0, ingests |-> 0]

Bounds == [jobs |-> MaxJobs, requests |-> MaxRequests, compiles |-> MaxCompiles, ingests |-> MaxIngests]
Use(what) == used[what] < Bounds[what] /\ used' = [used EXCEPT ![what] = @ + 1]

-----------------------------------------------------------------------------
(* The editor, and whoever else writes files                               *)

\* The next text of a file, one it has not had
Fresh(f) == 1 + IF buffer[f] > disk[f] THEN buffer[f] ELSE disk[f]

\* The loop takes note of an edit only between requests
Type(f) ==
    /\ loop.at = "idle" /\ buffer[f] = disk[f] /\ Fresh(f) <= MaxTexts
    /\ buffer' = [buffer EXCEPT ![f] = Fresh(f)]
    /\ UNCHANGED <<disk, sdb, snap, lock, loop, worker, pending, reply, used>>

\* A save schedules a build
Save(f) ==
    /\ loop.at = "idle" /\ buffer[f] > disk[f]
    /\ disk' = [disk EXCEPT ![f] = buffer[f]]
    /\ pending' = pending \cup {"build"} /\ Use("jobs")
    /\ UNCHANGED <<buffer, sdb, snap, lock, loop, worker, reply>>

\* A file changes with no word to the server, or before the word gets through
WriteFile(f) ==
    /\ Fresh(f) <= MaxTexts
    /\ disk' = [disk EXCEPT ![f] = Fresh(f)]
    /\ UNCHANGED <<buffer, sdb, snap, lock, loop, worker, pending, reply, used>>

-----------------------------------------------------------------------------
(* Freshness and ingest                                                    *)

\* An open buffer that differs from the file as it is now
is_dirty(f) == buffer[f] \notin {Absent, disk[f]}

\* The segment has the document, under the md5 of the text on disk
source_is_fresh(f) == snap[f] = disk[f]

\* An ingest reads the SemanticDB documents one by one, a stale one too ...
Reading(actor) == [actor EXCEPT !.at = "read", !.todo = {f \in Files : sdb[f] # Absent}, !.part = None]
ReadOne(actor, f) == [actor EXCEPT !.todo = @ \ {f}, !.part[f] = sdb[f]]

take_lock(who) == lock = "free" /\ lock' = who

-----------------------------------------------------------------------------
(* Requests on the message loop                                            *)

Respond(is, why) ==
    /\ reply' = [loop EXCEPT !.is = is, !.at = why]
    /\ loop' = NoRequest
Reject(why) == Respond("error", why)

references(f) ==
    /\ loop.at = "idle" /\ Use("requests")
    /\ loop' = [NoRequest EXCEPT !.is = "references", !.cur = f, !.at = "cursor"]
    /\ UNCHANGED <<disk, buffer, sdb, snap, lock, worker, pending, reply>>

\* A dirty buffer or a name that is no identifier ends it at once
rename(f) ==
    /\ loop.at = "idle" /\ Use("requests")
    /\ \/ /\ ~ is_dirty(f)
          /\ loop' = [NoRequest EXCEPT !.is = "rename", !.cur = f, !.at = "cursor"]
          /\ UNCHANGED reply
       \/ Reject("RenameRejected")
    /\ UNCHANGED <<disk, buffer, sdb, snap, lock, worker, pending>>

\* What a request does with its symbol
WithSymbol(source, text, needs) ==
    loop' = [loop EXCEPT !.source = source, !.text = text, !.needs = needs,
                 !.todo = IF loop.is = "rename" THEN Files ELSE {},
                 !.at = CASE loop.is = "references" -> "hits"
                          [] loop.stage = "now" -> "compile"
                          [] OTHER -> "collect"]

\* A clean document that the segment knows by the text on disk is answered from
\* the segment.  Any other is looked up in its SemanticDB file, if that is fresh,
\* and the segment is rebuilt on the spot.  A rename takes the segment's word only.
symbol_at_cursor ==
    LET f == loop.cur
    IN  /\ loop.at = "cursor"
        /\ CASE is_dirty(f) ->
                  \/ Reject("StaleIndex")
                  \/ Reject("PcOnlySymbol")
                  \/ /\ ~(loop.is = "rename" /\ loop.stage = "fresh")
                     /\ WithSymbol("overlay", buffer[f], FALSE) /\ UNCHANGED reply
             [] ~ is_dirty(f) /\ source_is_fresh(f) ->
                  \/ WithSymbol("snapshot", disk[f], FALSE) /\ UNCHANGED reply
                  \/ Reject("NoSymbolAtCursor")
             [] ~ is_dirty(f) /\ ~ source_is_fresh(f) /\ sdb[f] = disk[f] ->
                  \/ Reject("NoSymbolAtCursor")
                  \/ /\ loop' = [loop EXCEPT !.source = "raw", !.text = disk[f], !.needs = TRUE,
                                     !.at = "heal",
                                     !.then = IF loop.is = "references" THEN "hits"
                                              ELSE IF loop.stage = "now" THEN "compile" ELSE "stale"]
                     /\ UNCHANGED reply
             [] OTHER -> Reject(IF sdb[f] = Absent THEN "NoSemanticdb" ELSE "StaleIndex")
        /\ UNCHANGED <<disk, buffer, sdb, snap, lock, worker, pending, used>>

\* The ingest of a rename, and the one that heals a segment, without the lock
start_ingest_unlocked ==
    /\ loop.at \in {"heal", "ingest"}
    /\ loop' = Reading(loop)
    /\ UNCHANGED <<disk, buffer, sdb, snap, lock, worker, pending, reply, used>>

start_ingest ==
    /\ loop.at \in {"heal", "ingest"}
    /\ take_lock("loop")
    /\ loop' = Reading(loop)
    /\ UNCHANGED <<disk, buffer, sdb, snap, worker, pending, reply, used>>

read_document ==
    /\ loop.at = "read"
    /\ \E f \in loop.todo : loop' = ReadOne(loop, f)
    /\ UNCHANGED <<disk, buffer, sdb, snap, lock, worker, pending, reply, used>>

GoOn(needs) ==
    IF loop.then = "stale" THEN Reject("StaleIndex")
    ELSE /\ loop' = [loop EXCEPT !.at = loop.then, !.needs = needs, !.part = None,
                         !.todo = IF loop.then = "compile" THEN Files ELSE {}]
         /\ UNCHANGED reply

publish ==
    /\ loop.at = "read" /\ loop.todo = {}
    /\ snap' = loop.part /\ lock' = "free"
    /\ GoOn(FALSE)
    /\ UNCHANGED <<disk, buffer, sdb, worker, pending, used>>

fail_ingest_silent ==
    /\ loop.at = "read" /\ Use("ingests")
    /\ lock' = "free"
    /\ IF loop.then = "cursor" THEN Reject("StaleIndex") ELSE GoOn(FALSE)
    /\ UNCHANGED <<disk, buffer, sdb, snap, worker, pending>>

\* A failed ingest leaves the segment as it is.  A cursor resolved from its
\* SemanticDB file still counts; a rename needs its ingest.
fail_ingest ==
    /\ loop.at = "read" /\ Use("ingests")
    /\ lock' = "free"
    /\ IF loop.then = "cursor" THEN Reject("StaleIndex") ELSE GoOn(TRUE)
    /\ UNCHANGED <<disk, buffer, sdb, snap, worker, pending>>

\* The hits are read from the segment that is current by now; the answer is
\* complete, and a reindex is asked for when the segment could not be healed
references_ok ==
    /\ loop.at = "hits"
    /\ \/ Reject("StaleIndex")        \* the segment does not have the symbol
       \/ reply' = [loop EXCEPT !.is = "hits", !.base = snap] /\ loop' = NoRequest
    /\ pending' = pending \cup {w \in {"reindex"} : reply'.is = "hits" /\ loop.needs}
    /\ UNCHANGED <<disk, buffer, sdb, snap, lock, worker, used>>

-----------------------------------------------------------------------------
(* Rename: compile, ingest, resolve again, collect, validate                *)

\* The build server writes the SemanticDB of one file after another
compile ==
    /\ loop.at = "compile"
    /\ \/ \E f \in loop.todo : /\ sdb' = [sdb EXCEPT ![f] = disk[f]]
                               /\ loop' = [loop EXCEPT !.todo = @ \ {f}]
          /\ UNCHANGED <<reply, used>>
       \/ /\ loop.todo = {} /\ UNCHANGED <<sdb, reply, used>>
          /\ loop' = [loop EXCEPT !.at = "ingest", !.then = "cursor", !.stage = "fresh"]
       \/ Use("compiles") /\ Reject("CompileFailed") /\ UNCHANGED sdb
    /\ UNCHANGED <<disk, buffer, snap, lock, worker, pending>>

\* The edits come from the segment that is current now
collect_edits ==
    /\ loop.at = "collect"
    /\ \/ /\ loop' = [loop EXCEPT !.at = "validate", !.base = snap,
                          !.todo = {f \in Files : snap[f] # Absent}, !.moved = FALSE]
          /\ UNCHANGED reply
       \/ Reject("RenameRejected")    \* an unsafe group, or nothing to edit
    /\ UNCHANGED <<disk, buffer, sdb, snap, lock, worker, pending, used>>

\* Only the document of the cursor is compared with the disk
validate_cursor_only ==
    /\ loop.at = "validate"
    /\ \E f \in loop.todo :
           IF f # loop.cur \/ source_is_fresh(f)
           THEN loop' = [loop EXCEPT !.todo = @ \ {f}, !.seen[f] = disk[f]] /\ UNCHANGED reply
           ELSE Reject("StaleIndex")
    /\ UNCHANGED <<disk, buffer, sdb, snap, lock, worker, pending, used>>

\* Every edited document is compared with the disk, by the current segment.
\* Targets that share the file and disagree about it have it rejected.
validate ==
    /\ loop.at = "validate"
    /\ \E f \in loop.todo :
           \/ /\ source_is_fresh(f)
              /\ loop' = [loop EXCEPT !.todo = @ \ {f}, !.seen[f] = disk[f]] /\ UNCHANGED reply
           \/ ~ source_is_fresh(f) /\ Reject("StaleIndex")
           \/ Reject("RenameRejected")
    /\ UNCHANGED <<disk, buffer, sdb, snap, lock, worker, pending, used>>

emit ==
    /\ loop.at = "validate" /\ loop.todo = {}
    /\ Respond("plan", "done")
    /\ UNCHANGED <<disk, buffer, sdb, snap, lock, worker, pending, used>>

-----------------------------------------------------------------------------
(* The build worker                                                        *)

begin_job ==
    /\ worker.at = "idle" /\ pending # {}
    /\ worker' = [Idle EXCEPT !.at = IF "build" \in pending THEN "compile" ELSE "reingest",
                      !.todo = Files, !.reindex = "reindex" \in pending]
    /\ pending' = {}
    /\ UNCHANGED <<disk, buffer, sdb, snap, lock, loop, reply, used>>

CompileOne ==
    /\ \E f \in worker.todo : /\ sdb' = [sdb EXCEPT ![f] = disk[f]]
                              /\ worker' = [worker EXCEPT !.todo = @ \ {f}]
    /\ UNCHANGED used

\* A compile that fails takes a reindex asked for along with it down too
compile_job_all_or_nothing ==
    /\ worker.at = "compile"
    /\ \/ CompileOne
       \/ worker.todo = {} /\ worker' = [worker EXCEPT !.at = "reingest"] /\ UNCHANGED <<sdb, used>>
       \/ Use("compiles") /\ worker' = Idle /\ UNCHANGED sdb
    /\ UNCHANGED <<disk, buffer, snap, lock, loop, pending, reply>>

\* After a failed compile only a reindex that was asked for is still done
compile_job ==
    /\ worker.at = "compile"
    /\ \/ CompileOne
       \/ worker.todo = {} /\ worker' = [worker EXCEPT !.at = "reingest"] /\ UNCHANGED <<sdb, used>>
       \/ /\ Use("compiles") /\ UNCHANGED sdb
          /\ worker' = IF worker.reindex THEN [worker EXCEPT !.at = "reingest"] ELSE Idle
    /\ UNCHANGED <<disk, buffer, snap, lock, loop, pending, reply>>

reingest_current ==
    /\ worker.at = "reingest"
    /\ take_lock("worker")
    /\ worker' = Reading(worker)
    /\ UNCHANGED <<disk, buffer, sdb, snap, loop, pending, reply, used>>

reingest_read ==
    /\ worker.at = "read"
    /\ \E f \in worker.todo : worker' = ReadOne(worker, f)
    /\ UNCHANGED <<disk, buffer, sdb, snap, lock, loop, pending, reply, used>>

reingest_publish ==
    /\ worker.at = "read" /\ worker.todo = {}
    /\ snap' = worker.part /\ lock' = "free"
    /\ worker' = Idle
    /\ loop' = [loop EXCEPT !.moved = loop.at = "validate"]
    /\ UNCHANGED <<disk, buffer, sdb, pending, reply, used>>

\* A background ingest that fails is logged and not tried again
reingest_fail ==
    /\ worker.at = "read" /\ Use("ingests")
    /\ lock' = "free" /\ worker' = Idle
    /\ UNCHANGED <<disk, buffer, sdb, snap, loop, pending, reply>>

-----------------------------------------------------------------------------
Editor == \E f \in Files : Type(f) \/ Save(f) \/ WriteFile(f) \/ references(f) \/ rename(f)

Serving ==
    \/ symbol_at_cursor \/ start_ingest \/ read_document \/ publish \/ fail_ingest
    \/ references_ok \/ compile \/ collect_edits \/ validate \/ emit

Building == begin_job \/ compile_job \/ reingest_current \/ reingest_read \/ reingest_publish
            \/ reingest_fail

FreshNext == Editor \/ Serving \/ Building

\* The loop and the worker are threads that run until they wait for the lock
FreshSpec ==
    /\ FreshInit /\ [][FreshNext]_vars
    /\ WF_vars(Serving) /\ SF_vars(start_ingest)
    /\ WF_vars(Building) /\ SF_vars(reingest_current)

-----------------------------------------------------------------------------
Texts == 0 .. MaxTexts
\* Two threads ingest, each reading many files, yet a published segment never
\* knows a file by an older text than the one before it (ingest_lock is taken
\* before the first file is read)
SegmentsAdvance == [][\A f \in Files : snap'[f] >= snap[f]]_vars

\* An answer to references that does not ask for a reindex was read from a segment
\* that knows the cursor's document by the text the cursor was resolved in, or by
\* a later one (symbol_at_cursor, write_through_raw_path)
HitsCoverCursor ==
    reply.is = "hits" /\ reply.source # "overlay" /\ ~ reply.needs => reply.base[reply.cur] >= reply.text

\* A rename plan is made of spans of the very texts it was validated against,
\* every edited document included, if no other ingest was published between the
\* collection of the edits and the last validation
RenameEditsFresh ==
    reply.is = "plan" /\ ~ reply.moved =>
        \A f \in Files : reply.base[f] # Absent => reply.base[f] = reply.seen[f]

\* The same also if one was: rename.rs promises "an md5 re-validation of every
\* edited document immediately before emitting the plan".  It does not hold: the
\* validation reads the snapshot of its own moment, not the one of the edits
RenameNeverStale ==
    reply.is = "plan" => \A f \in Files : reply.base[f] # Absent => reply.base[f] = reply.seen[f]

\* Every request ends, whatever the worker does with the lock.  A reference answer
\* whose on-the-spot ingest failed asks for a reindex, and that reindex brings the
\* cursor's document into the segment, also when it shares a job with a compile
\* that fails, unless a second ingest fails
QueriesSettle ==
    /\ loop.at # "idle" ~> loop.at = "idle"
    /\ \A f \in Files, t \in Texts :
        (reply.is = "hits" /\ reply.source = "raw" /\ reply.needs /\ reply.cur = f /\ reply.text = t)
            ~> (snap[f] >= t \/ used.ingests > 1)
=============================================================================
