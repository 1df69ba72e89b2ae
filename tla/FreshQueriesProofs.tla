------------------------- MODULE FreshQueriesProofs -------------------------
(***************************************************************************)
(* Proofs about FreshQueries, for any number of files, texts, jobs and     *)
(* requests: segments only advance, an answer to references covers the     *)
(* cursor, and a rename plan is made of the texts it was validated against *)
(***************************************************************************)
EXTENDS FreshQueries, TLAPS

\* The shapes of a request and of a job; Anyone is a file, or what stands for
\* one before the first request
Anyone == Files \cup {NoRequest.cur}

Marks ==
    {"idle", "cursor", "heal", "ingest", "read", "hits", "compile", "collect", "validate",
     "none", "stale", "done", "StaleIndex", "PcOnlySymbol", "NoSymbolAtCursor",
     "NoSemanticdb", "RenameRejected", "CompileFailed"}

Nexts == {"none", "hits", "compile", "stale", "cursor"}

Request ==
    [at : Marks, is : {"none", "references", "rename", "hits", "plan", "error"},
     cur : Anyone, stage : {"now", "fresh"},
     source : {"none", "overlay", "snapshot", "raw"}, text : Nat, needs : BOOLEAN,
     then : Nexts, todo : SUBSET Files, part : [Files -> Nat],
     base : [Files -> Nat], seen : [Files -> Nat], moved : BOOLEAN]

Job == [at : {"idle", "compile", "reingest", "read"}, todo : SUBSET Files,
        part : [Files -> Nat], reindex : BOOLEAN]

ShapeInv ==
    /\ disk \in [Files -> Nat] /\ buffer \in [Files -> Nat]
    /\ sdb \in [Files -> Nat] /\ snap \in [Files -> Nat]
    /\ loop \in Request /\ reply \in Request /\ worker \in Job

\* A request in progress is about a file
CursorInv == loop.at # "idle" => loop.cur \in Files

\* A thread that reads for an ingest holds the lock
LockInv ==
    /\ loop.at = "read" <=> lock = "loop"
    /\ worker.at = "read" <=> lock = "worker"

\* What a reader has is no newer than the SemanticDB files and, for the files it
\* is done with, no older than the segment it is to replace
Covers(actor) ==
    actor.at = "read" =>
        \A f \in Files : /\ actor.part[f] <= sdb[f]
                         /\ f \notin actor.todo => snap[f] <= actor.part[f]

OrderInv ==
    /\ \A f \in Files : snap[f] <= sdb[f] /\ sdb[f] <= disk[f]
    /\ Covers(loop) /\ Covers(worker)

-----------------------------------------------------------------------------
\* The marks the handlers put on a request are marks
LEMMA MarksHold ==
    /\ "read" \in Marks /\ "cursor" \in Marks /\ "ingest" \in Marks /\ "heal" \in Marks
    /\ "hits" \in Marks /\ "compile" \in Marks /\ "stale" \in Marks /\ "collect" \in Marks
    /\ "validate" \in Marks /\ "StaleIndex" \in Marks /\ "PcOnlySymbol" \in Marks
    /\ "NoSymbolAtCursor" \in Marks /\ "NoSemanticdb" \in Marks
    /\ "RenameRejected" \in Marks /\ "CompileFailed" \in Marks /\ "done" \in Marks
  BY DEF Marks

\* The resting values have the shape of a request and of a job
LEMMA Resting == None \in [Files -> Nat] /\ NoRequest \in Request /\ Idle \in Job
<1>1. None \in [Files -> Nat]
  BY DEF None, Absent
<1>2. NoRequest \in Request
  BY <1>1 DEF NoRequest, Request, Anyone, Marks, Nexts, Absent
<1>3. Idle \in Job
  BY <1>1 DEF Idle, Job
<1> QED
  BY <1>1, <1>2, <1>3

\* The server starts in shape: nothing asked, nothing building
LEMMA ShapeInit == FreshInit => ShapeInv
  BY Resting DEF FreshInit, ShapeInv, Absent

\* An answer has the shape of the request it ends
LEMMA RespondShape ==
    ASSUME loop \in Request, NEW is \in {"hits", "plan", "error"}, NEW why \in Marks,
           Respond(is, why)
    PROVE  loop' \in Request /\ reply' \in Request
<1>1. loop' \in Request
  BY Resting DEF Respond
<1>2. [loop EXCEPT !.is = is, !.at = why] \in Request
  BY Zenon DEF Request
<1> QED
  BY <1>1, <1>2 DEF Respond

\* So has a request that reads the files
LEMMA ReadingShape ==
    ASSUME loop \in Request, worker \in Job, sdb \in [Files -> Nat]
    PROVE  /\ Reading(loop) \in Request /\ Reading(worker) \in Job
           /\ \A f \in Files : ReadOne(loop, f) \in Request /\ ReadOne(worker, f) \in Job
<1>1. Reading(loop) \in Request
  BY Resting, MarksHold, Zenon DEF Reading, Request
<1>2. Reading(worker) \in Job
  BY Resting, Zenon DEF Reading, Job
<1>3. ASSUME NEW f \in Files PROVE ReadOne(loop, f) \in Request
  BY Zenon DEF ReadOne, Request
<1>4. ASSUME NEW f \in Files PROVE ReadOne(worker, f) \in Job
  BY Zenon DEF ReadOne, Job
<1> QED
  BY <1>1, <1>2, <1>3, <1>4

\* And one that goes on after its ingest
LEMMA GoOnShape ==
    ASSUME loop \in Request, reply \in Request, NEW n \in BOOLEAN, GoOn(n)
    PROVE  loop' \in Request /\ reply' \in Request
<1>1. CASE loop.then = "stale"
  BY <1>1, RespondShape, MarksHold DEF GoOn, Reject
<1>2. CASE loop.then # "stale"
  <2>1. loop.then \in Marks
    BY DEF Request, Nexts, Marks
  <2>2. [loop EXCEPT !.at = loop.then, !.needs = n, !.part = None,
            !.todo = IF loop.then = "compile" THEN Files ELSE {}] \in Request
    BY <2>1, Resting, Zenon DEF Request
  <2> QED
    BY <1>2, <2>2 DEF GoOn
<1> QED
  BY <1>1, <1>2

\* And one that has its segment healed
LEMMA HealShape ==
    ASSUME loop \in Request, NEW t \in Nat, NEW then \in Nexts
    PROVE  [loop EXCEPT !.source = "raw", !.text = t, !.needs = TRUE,
                !.at = "heal", !.then = then] \in Request
<1>1. "heal" \in Marks
  BY MarksHold
<1> QED
  BY <1>1, Zenon DEF Request

\* A request that has its symbol keeps its shape
LEMMA WithSymbolShape ==
    ASSUME loop \in Request, NEW source \in {"overlay", "snapshot"}, NEW t \in Nat,
           WithSymbol(source, t, FALSE)
    PROVE  loop' \in Request
<1> DEFINE todo == IF loop.is = "rename" THEN Files ELSE {}
           at == CASE loop.is = "references" -> "hits"
                   [] loop.stage = "now" -> "compile"
                   [] OTHER -> "collect"
<1>1. at \in Marks
  BY DEF Marks
<1>2. todo \in SUBSET Files
  OBVIOUS
<1>3. loop' = [loop EXCEPT !.source = source, !.text = t, !.needs = FALSE,
                   !.todo = todo, !.at = at]
  BY DEF WithSymbol
<1> HIDE DEF todo, at
<1> QED
  BY <1>1, <1>2, <1>3, Zenon DEF Request

\* Every step keeps the shapes
LEMMA ShapeNext == ShapeInv /\ CursorInv /\ [FreshNext]_vars => ShapeInv'
<1> SUFFICES ASSUME ShapeInv, CursorInv, [FreshNext]_vars PROVE ShapeInv'
  OBVIOUS
<1> USE DEF ShapeInv
<1>1. ASSUME NEW f \in Files, Type(f) PROVE ShapeInv'
  BY <1>1 DEF Type, Fresh
<1>2. ASSUME NEW f \in Files, Save(f) PROVE ShapeInv'
  BY <1>2 DEF Save
<1>3. ASSUME NEW f \in Files, WriteFile(f) PROVE ShapeInv'
  BY <1>3 DEF WriteFile, Fresh
<1>4. ASSUME NEW f \in Files, references(f) PROVE ShapeInv'
  <2>0. f \in Anyone
    BY DEF Anyone
  <2>1. [NoRequest EXCEPT !.is = "references", !.cur = f, !.at = "cursor"] \in Request
    BY <2>0, Resting, MarksHold, Zenon DEF Request
  <2> QED
    BY <1>4, <2>1 DEF references
<1>5. ASSUME NEW f \in Files, rename(f) PROVE ShapeInv'
  <2>0. f \in Anyone
    BY DEF Anyone
  <2>1. [NoRequest EXCEPT !.is = "rename", !.cur = f, !.at = "cursor"] \in Request
    BY <2>0, Resting, MarksHold, Zenon DEF Request
  <2>2. CASE Reject("RenameRejected")
    BY <1>5, <2>2, RespondShape, MarksHold DEF rename, Reject
  <2>3. CASE ~ Reject("RenameRejected")
    BY <1>5, <2>1, <2>3 DEF rename
  <2> QED
    BY <2>2, <2>3
<1>6. ASSUME symbol_at_cursor PROVE ShapeInv'
  <2>1. UNCHANGED <<disk, buffer, sdb, snap, worker>> /\ loop.cur \in Files
    BY <1>6 DEF symbol_at_cursor, CursorInv
  <2>2. ASSUME NEW why \in Marks, Reject(why) PROVE loop' \in Request /\ reply' \in Request
    BY <2>2, RespondShape DEF Reject
  <2>3. disk[loop.cur] \in Nat /\ buffer[loop.cur] \in Nat
    BY <2>1
  <2>4. ASSUME WithSymbol("overlay", buffer[loop.cur], FALSE) PROVE loop' \in Request
    BY <2>3, <2>4, WithSymbolShape, Zenon
  <2>5. ASSUME WithSymbol("snapshot", disk[loop.cur], FALSE) PROVE loop' \in Request
    BY <2>3, <2>5, WithSymbolShape, Zenon
  <2>6. ASSUME NEW then,
               then = IF loop.is = "references" THEN "hits"
                      ELSE IF loop.stage = "now" THEN "compile" ELSE "stale",
               loop' = [loop EXCEPT !.source = "raw", !.text = disk[loop.cur], !.needs = TRUE,
                            !.at = "heal", !.then = then]
        PROVE  loop' \in Request
    <3>1. then \in Nexts
      BY <2>6 DEF Nexts
    <3> QED
      BY <2>3, <2>6, <3>1, HealShape, Zenon
  <2>7. loop' \in Request /\ reply' \in Request
    BY <1>6, <2>2, <2>4, <2>5, <2>6, MarksHold, Zenon DEF symbol_at_cursor
  <2> QED
    BY <2>1, <2>7
<1>7. ASSUME start_ingest PROVE ShapeInv'
  BY <1>7, ReadingShape DEF start_ingest
<1>8. ASSUME read_document PROVE ShapeInv'
  <2> PICK f \in loop.todo : loop' = ReadOne(loop, f)
    BY <1>8 DEF read_document
  <2>1. f \in Files
    BY DEF Request
  <2> QED
    BY <1>8, <2>1, ReadingShape, Zenon DEF read_document
<1>9. ASSUME publish PROVE ShapeInv'
  <2>1. loop.part \in [Files -> Nat]
    BY DEF Request
  <2> QED
    BY <1>9, <2>1, GoOnShape, Zenon DEF publish
<1>10. ASSUME fail_ingest PROVE ShapeInv'
  <2>1. CASE loop.then = "cursor"
    BY <1>10, <2>1, RespondShape, MarksHold DEF fail_ingest, Reject
  <2>2. CASE loop.then # "cursor"
    BY <1>10, <2>2, GoOnShape, Zenon DEF fail_ingest
  <2> QED
    BY <2>1, <2>2
<1>11. ASSUME references_ok PROVE ShapeInv'
  <2>1. CASE Reject("StaleIndex")
    BY <1>11, <2>1, RespondShape, MarksHold DEF references_ok, Reject
  <2>2. CASE ~ Reject("StaleIndex")
    <3>1. [loop EXCEPT !.is = "hits", !.base = snap] \in Request
      BY Zenon DEF Request
    <3> QED
      BY <1>11, <2>2, <3>1, Resting DEF references_ok
  <2> QED
    BY <2>1, <2>2
<1>12. ASSUME compile PROVE ShapeInv'
  <2>1. CASE Reject("CompileFailed") /\ UNCHANGED sdb
    BY <1>12, <2>1, RespondShape, MarksHold DEF compile, Reject
  <2>2. ASSUME NEW f \in loop.todo, sdb' = [sdb EXCEPT ![f] = disk[f]], UNCHANGED reply,
               loop' = [loop EXCEPT !.todo = @ \ {f}]
        PROVE  ShapeInv'
    <3>1. f \in Files
      BY <2>2 DEF Request
    <3>2. loop' \in Request
      BY <2>2 DEF Request
    <3> QED
      BY <1>12, <2>2, <3>1, <3>2 DEF compile
  <2>3. CASE /\ UNCHANGED <<sdb, reply>>
             /\ loop' = [loop EXCEPT !.at = "ingest", !.then = "cursor", !.stage = "fresh"]
    <3>1. "cursor" \in Nexts
      BY DEF Nexts
    <3>2. loop' \in Request
      BY <2>3, <3>1, MarksHold, Zenon DEF Request
    <3> QED
      BY <1>12, <2>3, <3>2 DEF compile
  <2> QED
    BY <1>12, <2>1, <2>2, <2>3 DEF compile
<1>13. ASSUME collect_edits PROVE ShapeInv'
  <2>1. CASE Reject("RenameRejected")
    BY <1>13, <2>1, RespondShape, MarksHold DEF collect_edits, Reject
  <2>2. CASE ~ Reject("RenameRejected")
    <3>1. [loop EXCEPT !.at = "validate", !.base = snap,
              !.todo = {f \in Files : snap[f] # Absent}, !.moved = FALSE] \in Request
      BY MarksHold, Zenon DEF Request
    <3> QED
      BY <1>13, <2>2, <3>1 DEF collect_edits
  <2> QED
    BY <2>1, <2>2
<1>14. ASSUME validate PROVE ShapeInv'
  <2>1. ASSUME NEW why \in Marks, Reject(why) PROVE ShapeInv'
    BY <1>14, <2>1, RespondShape DEF validate, Reject
  <2>2. ASSUME NEW f \in loop.todo, UNCHANGED reply,
               loop' = [loop EXCEPT !.todo = @ \ {f}, !.seen[f] = disk[f]]
        PROVE  ShapeInv'
    <3>1. f \in Files
      BY DEF Request
    <3>2. loop' \in Request
      BY <2>2, <3>1, Zenon DEF Request
    <3> QED
      BY <1>14, <2>2, <3>2 DEF validate
  <2>3. "StaleIndex" \in Marks /\ "RenameRejected" \in Marks
    BY DEF Marks
  <2> QED
    BY <1>14, <2>1, <2>2, <2>3, Zenon DEF validate
<1>15. ASSUME emit PROVE ShapeInv'
  BY <1>15, RespondShape, MarksHold DEF emit
<1>16. ASSUME begin_job PROVE ShapeInv'
  <2> DEFINE at == IF "build" \in pending THEN "compile" ELSE "reingest"
  <2>1. at \in {"compile", "reingest"} /\ ("reindex" \in pending) \in BOOLEAN
    OBVIOUS
  <2>2. worker' = [Idle EXCEPT !.at = at, !.todo = Files, !.reindex = "reindex" \in pending]
    BY <1>16 DEF begin_job
  <2> HIDE DEF at
  <2>3. worker' \in Job
    BY <2>1, <2>2, Resting, Zenon DEF Job
  <2> QED
    BY <1>16, <2>3 DEF begin_job
<1>17. ASSUME compile_job PROVE ShapeInv'
  <2>1. ASSUME NEW f \in worker.todo, sdb' = [sdb EXCEPT ![f] = disk[f]],
               worker' = [worker EXCEPT !.todo = @ \ {f}]
        PROVE  ShapeInv'
    <3>1. f \in Files /\ worker' \in Job
      BY <2>1 DEF Job
    <3> QED
      BY <1>17, <2>1, <3>1 DEF compile_job
  <2>2. CASE UNCHANGED sdb /\ worker' = [worker EXCEPT !.at = "reingest"]
    <3>1. worker' \in Job
      BY <2>2 DEF Job
    <3> QED
      BY <1>17, <2>2, <3>1 DEF compile_job
  <2>3. CASE UNCHANGED sdb /\ worker' = Idle
    BY <1>17, <2>3, Resting DEF compile_job
  <2> QED
    BY <1>17, <2>1, <2>2, <2>3 DEF compile_job, CompileOne
<1>18. ASSUME reingest_current PROVE ShapeInv'
  BY <1>18, ReadingShape DEF reingest_current
<1>19. ASSUME reingest_read PROVE ShapeInv'
  <2> PICK f \in worker.todo : worker' = ReadOne(worker, f)
    BY <1>19 DEF reingest_read
  <2>1. f \in Files
    BY DEF Job
  <2> QED
    BY <1>19, <2>1, ReadingShape, Zenon DEF reingest_read
<1>20. ASSUME reingest_publish PROVE ShapeInv'
  <2>1. worker.part \in [Files -> Nat]
    BY DEF Job
  <2>2. (loop.at = "validate") \in BOOLEAN
    OBVIOUS
  <2>3. loop' \in Request
    BY <1>20, <2>2, Zenon DEF reingest_publish, Request
  <2> QED
    BY <1>20, <2>1, <2>3, Resting DEF reingest_publish
<1>21. ASSUME reingest_fail PROVE ShapeInv'
  BY <1>21, Resting DEF reingest_fail
<1>22. CASE UNCHANGED vars
  BY <1>22 DEF vars
<1> QED
  BY <1>1, <1>2, <1>3, <1>4, <1>5, <1>6, <1>7, <1>8, <1>9, <1>10, <1>11, <1>12, <1>13,
     <1>14, <1>15, <1>16, <1>17, <1>18, <1>19, <1>20, <1>21, <1>22
     DEF FreshNext, Editor, Serving, Building

-----------------------------------------------------------------------------
\* A request that ends leaves the loop idle
LEMMA RespondIdle == ASSUME NEW is, NEW why, Respond(is, why) PROVE loop'.at = "idle"
  BY DEF Respond, NoRequest

\* A request that has its symbol goes on to its hits, its compile or its edits
LEMMA WithSymbolMoves ==
    ASSUME loop \in Request, NEW source, NEW t, WithSymbol(source, t, FALSE)
    PROVE  loop'.at \in {"hits", "compile", "collect"} /\ loop'.cur = loop.cur
<1> DEFINE at == CASE loop.is = "references" -> "hits"
                   [] loop.stage = "now" -> "compile"
                   [] OTHER -> "collect"
<1>1. at \in {"hits", "compile", "collect"}
  OBVIOUS
<1>2. loop' = [loop EXCEPT !.source = source, !.text = t, !.needs = FALSE,
                   !.todo = IF loop.is = "rename" THEN Files ELSE {}, !.at = at]
  BY DEF WithSymbol
<1> HIDE DEF at
<1>3. loop'.at = at /\ loop'.cur = loop.cur
  BY <1>2 DEF Request
<1> QED
  BY <1>1, <1>3

\* What symbol_at_cursor comes to
LEMMA CursorCases ==
    ASSUME symbol_at_cursor
    PROVE  \/ \E why : Reject(why)
           \/ WithSymbol("overlay", buffer[loop.cur], FALSE)
           \/ WithSymbol("snapshot", disk[loop.cur], FALSE)
           \/ \E then : loop' = [loop EXCEPT !.source = "raw", !.text = disk[loop.cur],
                                      !.needs = TRUE, !.at = "heal", !.then = then]
  BY Zenon DEF symbol_at_cursor

\* The steps of the loop outside an ingest, whatever file they are about
Plain(f) ==
    \/ references(f) \/ rename(f) \/ symbol_at_cursor \/ references_ok \/ compile
    \/ collect_edits \/ validate \/ emit

\* They neither begin nor end one, and keep to the file of the cursor
LEMMA PlainMoves ==
    ASSUME ShapeInv, CursorInv, NEW f \in Files, Plain(f)
    PROVE  /\ loop.at # "read" /\ loop'.at # "read"
           /\ CursorInv'
           /\ UNCHANGED <<disk, buffer, snap, lock, worker>>
<1> USE DEF ShapeInv
<1> DEFINE Goal == /\ loop.at # "read" /\ loop'.at # "read" /\ CursorInv'
                   /\ UNCHANGED <<disk, buffer, snap, lock, worker>>
<1>0. ASSUME loop'.at = "idle" PROVE CursorInv' /\ loop'.at # "read"
  BY <1>0 DEF CursorInv
<1>1. ASSUME references(f) PROVE Goal
  BY <1>1, Resting DEF references, CursorInv, Request
<1>2. ASSUME rename(f) PROVE Goal
  <2>1. CASE Reject("RenameRejected")
    BY <1>0, <1>2, <2>1, RespondIdle DEF rename, Reject
  <2>2. CASE loop' = [NoRequest EXCEPT !.is = "rename", !.cur = f, !.at = "cursor"]
    BY <1>2, <2>2, Resting DEF rename, CursorInv, Request
  <2> QED
    BY <1>2, <2>1, <2>2 DEF rename
<1>3. ASSUME symbol_at_cursor PROVE Goal
  <2>1. ASSUME NEW why, Reject(why) PROVE CursorInv' /\ loop'.at # "read"
    BY <1>0, <2>1, RespondIdle DEF Reject
  <2>2. ASSUME NEW source, NEW t, WithSymbol(source, t, FALSE)
        PROVE  CursorInv' /\ loop'.at # "read"
    BY <1>3, <2>2, WithSymbolMoves, Zenon DEF CursorInv, symbol_at_cursor
  <2>3. ASSUME NEW t, NEW then,
               loop' = [loop EXCEPT !.source = "raw", !.text = t, !.needs = TRUE,
                            !.at = "heal", !.then = then]
        PROVE  CursorInv' /\ loop'.at # "read"
    BY <1>3, <2>3 DEF CursorInv, Request, symbol_at_cursor
  <2>4. CursorInv' /\ loop'.at # "read"
    BY <1>3, <2>1, <2>2, <2>3, CursorCases, Zenon
  <2> QED
    BY <1>3, <2>4 DEF symbol_at_cursor
<1>4. ASSUME references_ok PROVE Goal
  <2>1. CASE Reject("StaleIndex")
    BY <1>0, <1>4, <2>1, RespondIdle DEF references_ok, Reject
  <2>2. CASE loop' = NoRequest
    BY <1>0, <1>4, <2>2 DEF references_ok, NoRequest
  <2> QED
    BY <1>4, <2>1, <2>2 DEF references_ok
<1>5. ASSUME compile PROVE Goal
  <2>1. CASE Reject("CompileFailed")
    BY <1>0, <1>5, <2>1, RespondIdle DEF compile, Reject
  <2>2. ASSUME NEW g, loop' = [loop EXCEPT !.todo = @ \ {g}] PROVE Goal
    BY <1>5, <2>2 DEF compile, CursorInv, Request
  <2>3. CASE loop' = [loop EXCEPT !.at = "ingest", !.then = "cursor", !.stage = "fresh"]
    BY <1>5, <2>3 DEF compile, CursorInv, Request
  <2> QED
    BY <1>5, <2>1, <2>2, <2>3 DEF compile
<1>6. ASSUME collect_edits PROVE Goal
  <2>1. CASE Reject("RenameRejected")
    BY <1>0, <1>6, <2>1, RespondIdle DEF collect_edits, Reject
  <2>2. CASE loop' = [loop EXCEPT !.at = "validate", !.base = snap,
                          !.todo = {g \in Files : snap[g] # Absent}, !.moved = FALSE]
    BY <1>6, <2>2 DEF collect_edits, CursorInv, Request
  <2> QED
    BY <1>6, <2>1, <2>2 DEF collect_edits
<1>7. ASSUME validate PROVE Goal
  <2>1. ASSUME NEW why, Reject(why) PROVE Goal
    BY <1>0, <1>7, <2>1, RespondIdle DEF validate, Reject
  <2>2. ASSUME NEW g, loop' = [loop EXCEPT !.todo = @ \ {g}, !.seen[g] = disk[g]] PROVE Goal
    BY <1>7, <2>2 DEF validate, CursorInv, Request
  <2> QED
    BY <1>7, <2>1, <2>2, Zenon DEF validate
<1>8. ASSUME emit PROVE Goal
  BY <1>0, <1>8, RespondIdle DEF emit
<1> QED
  BY <1>1, <1>2, <1>3, <1>4, <1>5, <1>6, <1>7, <1>8 DEF Plain

\* Plain steps and compiles only bring SemanticDB files up to date
LEMMA PlainCompiles ==
    ASSUME ShapeInv, OrderInv, NEW f \in Files, Plain(f)
    PROVE  \A g \in Files : sdb[g] <= sdb'[g] /\ sdb'[g] <= disk[g]
<1> USE DEF ShapeInv
<1>1. CASE compile
  <2>1. CASE UNCHANGED sdb
    BY <2>1 DEF OrderInv
  <2>2. ASSUME NEW h \in loop.todo, sdb' = [sdb EXCEPT ![h] = disk[h]]
        PROVE  \A g \in Files : sdb[g] <= sdb'[g] /\ sdb'[g] <= disk[g]
    <3>1. h \in Files
      BY DEF Request
    <3> QED
      BY <2>2, <3>1 DEF OrderInv
  <2> QED
    BY <1>1, <2>1, <2>2 DEF compile
<1>2. CASE UNCHANGED sdb
  BY <1>2 DEF OrderInv
<1>3. compile \/ UNCHANGED sdb
  BY Zenon DEF Plain, references, rename, symbol_at_cursor, references_ok, collect_edits, validate, emit
<1> QED
  BY <1>1, <1>2, <1>3

\* The loop leaves an ingest for where its request goes on
LEMMA GoOnMoves ==
    ASSUME ShapeInv, CursorInv, loop.at = "read", NEW n \in BOOLEAN, GoOn(n)
    PROVE  loop'.at # "read" /\ CursorInv'
<1>1. CASE loop.then = "stale"
  BY <1>1, RespondIdle DEF GoOn, Reject, CursorInv
<1>2. CASE loop.then # "stale"
  <2>1. loop'.at = loop.then /\ loop'.cur = loop.cur
    BY <1>2, Zenon DEF GoOn, ShapeInv, Request
  <2>2. loop.then # "read"
    BY DEF ShapeInv, Request, Nexts
  <2> QED
    BY <2>1, <2>2 DEF CursorInv
<1> QED
  BY <1>1, <1>2

Inv == ShapeInv /\ CursorInv /\ LockInv /\ OrderInv

Advances == \A f \in Files : snap'[f] >= snap[f]

\* A plain step keeps the order, since no one else's reading is disturbed by a
\* newer SemanticDB file
LEMMA PlainOrder ==
    ASSUME Inv, NEW f \in Files, Plain(f)
    PROVE  CursorInv' /\ LockInv' /\ OrderInv' /\ Advances
<1> USE DEF Inv
<1>1. /\ loop.at # "read" /\ loop'.at # "read" /\ CursorInv'
      /\ UNCHANGED <<disk, buffer, snap, lock, worker>>
  BY PlainMoves
<1>2. \A g \in Files : sdb[g] <= sdb'[g] /\ sdb'[g] <= disk[g]
  BY PlainCompiles
<1>3. ShapeInv'
  BY ShapeNext DEF FreshNext, Editor, Serving, Plain
<1>4. Covers(worker)'
  BY <1>1, <1>2, <1>3 DEF OrderInv, Covers, ShapeInv, Job
<1>5. \A g \in Files : snap'[g] <= sdb'[g] /\ sdb'[g] <= disk'[g]
  BY <1>1, <1>2, <1>3 DEF OrderInv, ShapeInv
<1> QED
  BY <1>1, <1>4, <1>5 DEF OrderInv, LockInv, Covers, Advances, ShapeInv

\* Every step keeps cursor, lock and order, and none takes a segment back:
\* the one that publishes holds ingest_lock, so it read over the segment it replaces
LEMMA OrderNext == Inv /\ [FreshNext]_vars => CursorInv' /\ LockInv' /\ OrderInv' /\ Advances
<1> SUFFICES ASSUME Inv, [FreshNext]_vars
             PROVE  CursorInv' /\ LockInv' /\ OrderInv' /\ Advances
  OBVIOUS
<1> DEFINE Goal == CursorInv' /\ LockInv' /\ OrderInv' /\ Advances
<1> USE DEF Inv
<1>0. ShapeInv'
  BY ShapeNext
<1>1. ASSUME NEW f \in Files, Type(f) PROVE Goal
  BY <1>1 DEF Type, OrderInv, LockInv, CursorInv, Covers, Advances, ShapeInv
<1>2. ASSUME NEW f \in Files, Save(f) PROVE Goal
  BY <1>2 DEF Save, OrderInv, LockInv, CursorInv, Covers, Advances, ShapeInv
<1>3. ASSUME NEW f \in Files, WriteFile(f) PROVE Goal
  <2>1. Fresh(f) >= disk[f] /\ disk'[f] \in Nat
    BY <1>0, <1>3 DEF Fresh, ShapeInv
  <2> QED
    BY <1>3, <2>1 DEF WriteFile, OrderInv, LockInv, CursorInv, Covers, Advances, ShapeInv
<1>4. ASSUME NEW f \in Files, Plain(f) PROVE Goal
  BY <1>4, PlainOrder
<1>5. ASSUME start_ingest PROVE Goal
  <2>1. /\ loop'.at = "read" /\ loop'.cur = loop.cur
        /\ loop'.todo = {f \in Files : sdb[f] # Absent} /\ loop'.part = None
    BY <1>5, Resting DEF start_ingest, Reading, ShapeInv, Request
  <2>2. CursorInv' /\ LockInv' /\ Advances
    BY <1>5, <2>1 DEF start_ingest, take_lock, CursorInv, LockInv, Advances, ShapeInv
  <2>3. Covers(loop)'
    BY <1>5, <2>1 DEF start_ingest, Covers, OrderInv, ShapeInv, None, Absent
  <2>4. Covers(worker)' /\ \A f \in Files : snap'[f] <= sdb'[f] /\ sdb'[f] <= disk'[f]
    BY <1>5 DEF start_ingest, Covers, OrderInv
  <2> QED
    BY <2>2, <2>3, <2>4 DEF OrderInv
<1>6. ASSUME read_document PROVE Goal
  <2> PICK f \in loop.todo : loop' = ReadOne(loop, f)
    BY <1>6 DEF read_document
  <2>1. /\ loop'.at = "read" /\ loop'.cur = loop.cur
        /\ loop'.todo = loop.todo \ {f} /\ loop'.part = [loop.part EXCEPT ![f] = sdb[f]]
    BY <1>6 DEF read_document, ReadOne, ShapeInv, Request
  <2>2. CursorInv' /\ LockInv' /\ Advances
    BY <1>6, <2>1 DEF read_document, CursorInv, LockInv, Advances, ShapeInv
  <2>3. loop.part \in [Files -> Nat] /\ f \in Files
    BY DEF ShapeInv, Request
  <2>4. Covers(loop)'
    BY <1>6, <2>1, <2>3 DEF read_document, Covers, OrderInv, ShapeInv
  <2>5. Covers(worker)' /\ \A g \in Files : snap'[g] <= sdb'[g] /\ sdb'[g] <= disk'[g]
    BY <1>6 DEF read_document, Covers, OrderInv
  <2> QED
    BY <2>2, <2>4, <2>5 DEF OrderInv
<1>7. ASSUME publish PROVE Goal
  <2>1. loop'.at # "read" /\ CursorInv'
    BY <1>7, GoOnMoves, Zenon DEF publish
  <2>2. worker.at # "read"
    BY <1>7 DEF publish, LockInv
  <2>3. \A f \in Files : snap[f] <= loop.part[f] /\ loop.part[f] <= sdb[f]
    BY <1>7 DEF publish, OrderInv, Covers
  <2> QED
    BY <1>7, <2>1, <2>2, <2>3 DEF publish, LockInv, OrderInv, Covers, Advances, ShapeInv, Request
<1>8. ASSUME fail_ingest PROVE Goal
  <2>1. loop'.at # "read" /\ CursorInv'
    <3>1. CASE loop.then = "cursor"
      BY <1>8, <3>1, RespondIdle DEF fail_ingest, Reject, CursorInv
    <3>2. CASE loop.then # "cursor"
      BY <1>8, <3>2, GoOnMoves, Zenon DEF fail_ingest
    <3> QED
      BY <3>1, <3>2
  <2>2. worker.at # "read"
    BY <1>8 DEF fail_ingest, LockInv
  <2> QED
    BY <1>8, <2>1, <2>2 DEF fail_ingest, LockInv, OrderInv, Covers, Advances, ShapeInv
<1>9. ASSUME begin_job PROVE Goal
  <2>1. worker'.at # "read"
    BY <1>9, Resting DEF begin_job, Job
  <2> QED
    BY <1>9, <2>1 DEF begin_job, CursorInv, LockInv, OrderInv, Covers, Advances, ShapeInv
<1>10. ASSUME compile_job PROVE Goal
  <2>1. worker.at # "read" /\ worker'.at # "read"
    BY <1>10, Resting DEF compile_job, CompileOne, ShapeInv, Job, Idle
  <2>2. \A g \in Files : sdb[g] <= sdb'[g] /\ sdb'[g] <= disk[g]
    <3>1. CASE UNCHANGED sdb
      BY <3>1 DEF OrderInv, ShapeInv
    <3>2. CASE ~ UNCHANGED sdb
      <4> PICK h \in worker.todo : sdb' = [sdb EXCEPT ![h] = disk[h]]
        BY <1>10, <3>2 DEF compile_job, CompileOne
      <4>1. h \in Files
        BY DEF ShapeInv, Job
      <4> QED
        BY <4>1 DEF OrderInv, ShapeInv
    <3> QED
      BY <3>1, <3>2
  <2>3. UNCHANGED <<disk, snap, lock, loop>>
    BY <1>10 DEF compile_job
  <2>4. Covers(loop)'
    BY <1>0, <2>2, <2>3 DEF Covers, OrderInv, ShapeInv, Request
  <2>5. \A g \in Files : snap'[g] <= sdb'[g] /\ sdb'[g] <= disk'[g]
    BY <1>0, <2>2, <2>3 DEF OrderInv, ShapeInv
  <2> QED
    BY <2>1, <2>3, <2>4, <2>5 DEF CursorInv, LockInv, OrderInv, Covers, Advances, ShapeInv
<1>11. ASSUME reingest_current PROVE Goal
  <2>1. /\ worker'.at = "read"
        /\ worker'.todo = {f \in Files : sdb[f] # Absent} /\ worker'.part = None
    BY <1>11, Resting DEF reingest_current, Reading, ShapeInv, Job
  <2>2. CursorInv' /\ LockInv' /\ Advances
    BY <1>11, <2>1 DEF reingest_current, take_lock, CursorInv, LockInv, Advances, ShapeInv
  <2>3. Covers(worker)'
    BY <1>11, <2>1 DEF reingest_current, Covers, OrderInv, ShapeInv, None, Absent
  <2>4. Covers(loop)' /\ \A f \in Files : snap'[f] <= sdb'[f] /\ sdb'[f] <= disk'[f]
    BY <1>11 DEF reingest_current, Covers, OrderInv
  <2> QED
    BY <2>2, <2>3, <2>4 DEF OrderInv
<1>12. ASSUME reingest_read PROVE Goal
  <2> PICK f \in worker.todo : worker' = ReadOne(worker, f)
    BY <1>12 DEF reingest_read
  <2>1. /\ worker'.at = "read"
        /\ worker'.todo = worker.todo \ {f} /\ worker'.part = [worker.part EXCEPT ![f] = sdb[f]]
    BY <1>12 DEF reingest_read, ReadOne, ShapeInv, Job
  <2>2. CursorInv' /\ LockInv' /\ Advances
    BY <1>12, <2>1 DEF reingest_read, CursorInv, LockInv, Advances, ShapeInv
  <2>3. worker.part \in [Files -> Nat] /\ f \in Files
    BY DEF ShapeInv, Job
  <2>4. Covers(worker)'
    BY <1>12, <2>1, <2>3 DEF reingest_read, Covers, OrderInv, ShapeInv
  <2>5. Covers(loop)' /\ \A g \in Files : snap'[g] <= sdb'[g] /\ sdb'[g] <= disk'[g]
    BY <1>12 DEF reingest_read, Covers, OrderInv
  <2> QED
    BY <2>2, <2>4, <2>5 DEF OrderInv
<1>13. ASSUME reingest_publish PROVE Goal
  <2>1. worker'.at # "read" /\ loop'.at = loop.at /\ loop'.cur = loop.cur
    BY <1>13, Resting DEF reingest_publish, Idle, ShapeInv, Request
  <2>2. loop.at # "read"
    BY <1>13 DEF reingest_publish, LockInv
  <2>3. \A f \in Files : snap[f] <= worker.part[f] /\ worker.part[f] <= sdb[f]
    BY <1>13 DEF reingest_publish, OrderInv, Covers
  <2> QED
    BY <1>13, <2>1, <2>2, <2>3
       DEF reingest_publish, CursorInv, LockInv, OrderInv, Covers, Advances, ShapeInv, Job
<1>14. ASSUME reingest_fail PROVE Goal
  <2>1. worker'.at # "read" /\ loop.at # "read"
    BY <1>14 DEF reingest_fail, Idle, LockInv
  <2> QED
    BY <1>14, <2>1
       DEF reingest_fail, CursorInv, LockInv, OrderInv, Covers, Advances, ShapeInv
<1>15. CASE UNCHANGED vars
  BY <1>15 DEF vars, CursorInv, LockInv, OrderInv, Covers, Advances, ShapeInv
<1>16. (\E f \in Files : Plain(f)) \/ Files = {} \/ ~ (symbol_at_cursor \/ references_ok
         \/ compile \/ collect_edits \/ validate \/ emit)
  BY DEF Plain
<1>17. Files # {} \/ ~ (symbol_at_cursor \/ references_ok \/ compile \/ collect_edits
                          \/ validate \/ emit)
  BY Zenon DEF CursorInv, symbol_at_cursor, references_ok, compile, collect_edits, validate, emit
<1> QED
  BY <1>1, <1>2, <1>3, <1>4, <1>5, <1>6, <1>7, <1>8, <1>9, <1>10, <1>11, <1>12, <1>13,
     <1>14, <1>15, <1>16, <1>17 DEF FreshNext, Editor, Serving, Building, Plain

-----------------------------------------------------------------------------
\* The invariant holds of a server that has just started
LEMMA InvInit == FreshInit => Inv
<1> SUFFICES ASSUME FreshInit PROVE Inv
  OBVIOUS
<1>1. ShapeInv
  BY ShapeInit
<1>2. CursorInv /\ LockInv
  BY DEF FreshInit, CursorInv, LockInv, NoRequest, Idle
<1>3. Covers(loop) /\ Covers(worker)
  BY DEF FreshInit, Covers, NoRequest, Idle
<1>4. ASSUME NEW f \in Files PROVE snap[f] <= sdb[f] /\ sdb[f] <= disk[f]
  <2>1. snap[f] = 0 /\ disk[f] = 1 /\ sdb[f] \in {0, 1}
    BY DEF FreshInit, None, Absent
  <2> QED
    BY <2>1
<1> QED
  BY <1>1, <1>2, <1>3, <1>4 DEF Inv, OrderInv

\* The invariant holds throughout
LEMMA InvHolds == FreshSpec => []Inv
<1>1. Inv /\ [FreshNext]_vars => Inv'
  BY ShapeNext, OrderNext DEF Inv
<1> QED
  BY <1>1, InvInit, PTL DEF FreshSpec

\* However the ingests of a request and of the build worker interleave, and
\* whatever is saved and compiled meanwhile, a published segment never knows a
\* file by an older text than the segment before it (ingest_lock)
THEOREM SegmentsOnlyAdvance == FreshSpec => SegmentsAdvance
<1>1. Inv /\ [FreshNext]_vars => [\A f \in Files : snap'[f] >= snap[f]]_vars
  BY OrderNext DEF Advances
<1> QED
  BY <1>1, InvHolds, PTL DEF FreshSpec, SegmentsAdvance

-----------------------------------------------------------------------------
(* Answers to references                                                   *)

\* Only two steps answer with something else than an error
LEMMA ReplyMoves ==
    ASSUME Inv, [FreshNext]_vars, ~ references_ok, ~ emit
    PROVE  UNCHANGED reply \/ reply'.is = "error"
<1>1. ASSUME NEW why, Reject(why) PROVE reply'.is = "error"
  BY <1>1 DEF Reject, Respond, Inv, ShapeInv, Request
<1>2. ASSUME NEW f \in Files, Type(f) \/ Save(f) \/ WriteFile(f) \/ references(f)
      PROVE  UNCHANGED reply
  BY <1>2 DEF Type, Save, WriteFile, references
<1>3. ASSUME NEW f \in Files, rename(f) PROVE UNCHANGED reply \/ reply'.is = "error"
  BY <1>1, <1>3 DEF rename
<1>4. ASSUME symbol_at_cursor PROVE UNCHANGED reply \/ reply'.is = "error"
  BY <1>1, <1>4, Zenon DEF symbol_at_cursor
<1>5. ASSUME start_ingest \/ read_document PROVE UNCHANGED reply
  BY <1>5 DEF start_ingest, read_document
<1>6. ASSUME publish \/ fail_ingest PROVE UNCHANGED reply \/ reply'.is = "error"
  BY <1>1, <1>6 DEF publish, fail_ingest, GoOn
<1>7. ASSUME compile \/ collect_edits \/ validate PROVE UNCHANGED reply \/ reply'.is = "error"
  BY <1>1, <1>7, Zenon DEF compile, collect_edits, validate
<1>8. ASSUME Building \/ UNCHANGED vars PROVE UNCHANGED reply
  BY <1>8 DEF Building, vars, begin_job, compile_job, reingest_current, reingest_read,
              reingest_publish, reingest_fail
<1> QED
  BY <1>2, <1>3, <1>4, <1>5, <1>6, <1>7, <1>8 DEF FreshNext, Editor, Serving

\* A request that is to answer with hits: its segment covers the cursor, or will
\* once the files it is reading are published
HitsInv ==
    /\ loop.at = "hits" /\ loop.source # "overlay" /\ ~ loop.needs => snap[loop.cur] >= loop.text
    /\ loop.at \in {"heal", "read"} /\ loop.then = "hits" => sdb[loop.cur] >= loop.text
    /\ loop.at = "read" /\ loop.then = "hits" =>
           loop.cur \in loop.todo \/ loop.part[loop.cur] >= loop.text
    /\ loop.at = "ingest" => loop.then = "cursor"
    /\ HitsCoverCursor

\* The answer a step gives to references covers the cursor
LEMMA HitsReply ==
    ASSUME Inv, HitsInv, [FreshNext]_vars
    PROVE  HitsCoverCursor'
<1>1. CASE references_ok
  <2>1. CASE Reject("StaleIndex")
    BY <2>1 DEF Reject, Respond, HitsCoverCursor, Inv, ShapeInv, Request
  <2>2. CASE reply' = [loop EXCEPT !.is = "hits", !.base = snap]
    <3>1. /\ reply'.source = loop.source /\ reply'.needs = loop.needs /\ reply'.base = snap
          /\ reply'.cur = loop.cur /\ reply'.text = loop.text
      BY <2>2 DEF Inv, ShapeInv, Request
    <3> QED
      BY <1>1, <3>1 DEF references_ok, HitsInv, HitsCoverCursor
  <2> QED
    BY <1>1, <2>1, <2>2 DEF references_ok
<1>2. CASE emit
  BY <1>2 DEF emit, Respond, HitsCoverCursor, Inv, ShapeInv, Request
<1>3. CASE ~ references_ok /\ ~ emit
  <2>1. UNCHANGED reply \/ reply'.is = "error"
    BY <1>3, ReplyMoves
  <2> QED
    BY <2>1 DEF HitsInv, HitsCoverCursor
<1> QED
  BY <1>1, <1>2, <1>3

\* Every step keeps what is promised of the hits
LEMMA HitsNext == Inv /\ HitsInv /\ [FreshNext]_vars => HitsInv'
<1> SUFFICES ASSUME Inv, HitsInv, [FreshNext]_vars PROVE HitsInv'
  OBVIOUS
<1> USE DEF Inv
<1>0. HitsCoverCursor' /\ Advances /\ ShapeInv'
  BY HitsReply, OrderNext, ShapeNext
<1>1. ASSUME loop'.at \notin {"hits", "heal", "read", "ingest"} PROVE HitsInv'
  BY <1>0, <1>1 DEF HitsInv
<1>2. ASSUME UNCHANGED <<loop, snap>>, \A g \in Files : sdb[g] <= sdb'[g] PROVE HitsInv'
  <2>1. loop.at # "idle" => loop.cur \in Files /\ loop.text \in Nat
    BY DEF CursorInv, ShapeInv, Request
  <2> QED
    BY <1>0, <1>2, <2>1 DEF HitsInv, ShapeInv
<1>3. ASSUME UNCHANGED <<loop, snap, sdb>> PROVE HitsInv'
  BY <1>0, <1>3 DEF HitsInv
<1>4. ASSUME NEW why, Reject(why) PROVE HitsInv'
  BY <1>1, <1>4, RespondIdle DEF Reject
<1>5. ASSUME NEW f \in Files, Type(f) \/ Save(f) \/ WriteFile(f) PROVE HitsInv'
  BY <1>3, <1>5 DEF Type, Save, WriteFile
<1>6. ASSUME NEW f \in Files, references(f) PROVE HitsInv'
  <2>1. loop'.at = "cursor"
    BY <1>6, Resting DEF references, Request
  <2> QED
    BY <1>1, <2>1
<1>7. ASSUME NEW f \in Files, rename(f) PROVE HitsInv'
  <2>1. CASE loop' = [NoRequest EXCEPT !.is = "rename", !.cur = f, !.at = "cursor"]
    <3>1. loop'.at = "cursor"
      BY <2>1, Resting DEF Request
    <3> QED
      BY <1>1, <3>1
  <2> QED
    BY <1>4, <1>7, <2>1 DEF rename
<1>8. ASSUME symbol_at_cursor PROVE HitsInv'
  <2> DEFINE f == loop.cur
  <2>1. f \in Files /\ UNCHANGED <<sdb, snap>>
    BY <1>8 DEF symbol_at_cursor, CursorInv
  <2>2. ASSUME WithSymbol("overlay", buffer[f], FALSE) PROVE HitsInv'
    <3>1. loop'.at \in {"hits", "compile", "collect"} /\ loop'.source = "overlay"
      BY <2>2, WithSymbolMoves DEF WithSymbol, ShapeInv, Request
    <3> QED
      BY <1>0, <3>1 DEF HitsInv
  <2>3. ASSUME source_is_fresh(f), WithSymbol("snapshot", disk[f], FALSE) PROVE HitsInv'
    <3>1. /\ loop'.at \in {"hits", "compile", "collect"}
          /\ loop'.cur = f /\ loop'.text = disk[f]
      BY <2>3, WithSymbolMoves DEF WithSymbol, ShapeInv, Request
    <3>2. snap'[f] >= disk[f]
      BY <2>1, <2>3 DEF source_is_fresh, ShapeInv
    <3> QED
      BY <1>0, <3>1, <3>2 DEF HitsInv
  <2>4. ASSUME sdb[f] = disk[f], NEW then,
               loop' = [loop EXCEPT !.source = "raw", !.text = disk[f], !.needs = TRUE,
                            !.at = "heal", !.then = then]
        PROVE  HitsInv'
    <3>1. loop'.at = "heal" /\ loop'.cur = f /\ loop'.text = disk[f]
      BY <2>4 DEF ShapeInv, Request
    <3>2. sdb'[f] >= disk[f]
      BY <2>1, <2>4 DEF ShapeInv
    <3> QED
      BY <1>0, <3>1, <3>2 DEF HitsInv
  <2> QED
    BY <1>4, <1>8, <2>2, <2>3, <2>4, Zenon DEF symbol_at_cursor
<1>9. ASSUME start_ingest PROVE HitsInv'
  <2>1. /\ loop'.at = "read" /\ loop'.cur = loop.cur /\ loop'.then = loop.then
        /\ loop'.text = loop.text
        /\ loop'.todo = {f \in Files : sdb[f] # Absent} /\ loop'.part = None
    BY <1>9, Resting DEF start_ingest, Reading, ShapeInv, Request
  <2>2. loop.cur \in Files /\ UNCHANGED <<sdb, snap>> /\ loop.text \in Nat
    BY <1>9 DEF start_ingest, CursorInv, ShapeInv, Request
  <2>3. loop.then = "hits" => sdb[loop.cur] >= loop.text
    BY <1>9 DEF start_ingest, HitsInv
  <2>4. loop.then = "hits" => loop.cur \in loop'.todo \/ loop'.part[loop.cur] >= loop.text
    BY <2>1, <2>2, <2>3 DEF None, Absent
  <2> QED
    BY <1>0, <2>1, <2>2, <2>3, <2>4 DEF HitsInv
<1>10. ASSUME read_document PROVE HitsInv'
  <2> PICK f \in loop.todo : loop' = ReadOne(loop, f)
    BY <1>10 DEF read_document
  <2>1. /\ loop'.at = "read" /\ loop'.cur = loop.cur /\ loop'.then = loop.then
        /\ loop'.text = loop.text
        /\ loop'.todo = loop.todo \ {f} /\ loop'.part = [loop.part EXCEPT ![f] = sdb[f]]
    BY <1>10 DEF read_document, ReadOne, ShapeInv, Request
  <2>2. loop.cur \in Files /\ UNCHANGED <<sdb, snap>> /\ loop.part \in [Files -> Nat]
    BY <1>10 DEF read_document, CursorInv, ShapeInv, Request
  <2>3. loop.then = "hits" =>
            /\ sdb[loop.cur] >= loop.text
            /\ loop.cur \in loop.todo \/ loop.part[loop.cur] >= loop.text
    BY <1>10 DEF read_document, HitsInv
  <2>4. loop.then = "hits" => loop.cur \in loop'.todo \/ loop'.part[loop.cur] >= loop.text
    BY <2>1, <2>2, <2>3
  <2> QED
    BY <1>0, <2>1, <2>2, <2>3, <2>4 DEF HitsInv
<1>11. ASSUME publish PROVE HitsInv'
  <2>1. CASE loop.then = "stale"
    BY <1>4, <1>11, <2>1 DEF publish, GoOn
  <2>2. CASE loop.then # "stale"
    <3>1. loop'.at = loop.then /\ loop'.cur = loop.cur /\ loop'.text = loop.text
      BY <1>11, <2>2, Zenon DEF publish, GoOn, ShapeInv, Request
    <3>2. loop.then \in {"none", "hits", "compile", "cursor"}
      BY <2>2 DEF ShapeInv, Request, Nexts
    <3>3. loop.then = "hits" => snap'[loop.cur] >= loop.text
      BY <1>11 DEF publish, HitsInv
    <3> QED
      BY <1>0, <3>1, <3>2, <3>3 DEF HitsInv
  <2> QED
    BY <2>1, <2>2
<1>12. ASSUME fail_ingest PROVE HitsInv'
  <2>1. CASE loop.then \in {"stale", "cursor"}
    BY <1>4, <1>12, <2>1 DEF fail_ingest, GoOn
  <2>2. CASE loop.then \notin {"stale", "cursor"}
    <3>1. loop'.at = loop.then /\ loop'.needs = TRUE
      BY <1>12, <2>2, Zenon DEF fail_ingest, GoOn, ShapeInv, Request
    <3>2. loop.then \in {"none", "hits", "compile"}
      BY <2>2 DEF ShapeInv, Request, Nexts
    <3> QED
      BY <1>0, <3>1, <3>2 DEF HitsInv
  <2> QED
    BY <2>1, <2>2
<1>13. ASSUME references_ok PROVE HitsInv'
  <2>1. CASE loop' = NoRequest
    BY <1>1, <2>1 DEF NoRequest
  <2> QED
    BY <1>4, <1>13, <2>1 DEF references_ok
<1>14. ASSUME compile PROVE HitsInv'
  <2>1. ASSUME NEW g, loop' = [loop EXCEPT !.todo = @ \ {g}] PROVE HitsInv'
    <3>1. loop'.at = "compile"
      BY <1>14, <2>1 DEF compile, ShapeInv, Request
    <3> QED
      BY <1>1, <3>1
  <2>2. CASE loop' = [loop EXCEPT !.at = "ingest", !.then = "cursor", !.stage = "fresh"]
    <3>1. loop'.at = "ingest" /\ loop'.then = "cursor"
      BY <2>2 DEF ShapeInv, Request
    <3> QED
      BY <1>0, <3>1 DEF HitsInv
  <2> QED
    BY <1>4, <1>14, <2>1, <2>2 DEF compile
<1>15. ASSUME collect_edits PROVE HitsInv'
  <2>1. CASE ~ Reject("RenameRejected")
    <3>1. loop'.at = "validate"
      BY <1>15, <2>1, Zenon DEF collect_edits, ShapeInv, Request
    <3> QED
      BY <1>1, <3>1
  <2> QED
    BY <1>4, <2>1
<1>16. ASSUME validate PROVE HitsInv'
  <2>1. ASSUME NEW g, loop' = [loop EXCEPT !.todo = @ \ {g}, !.seen[g] = disk[g]] PROVE HitsInv'
    <3>1. loop'.at = "validate"
      BY <1>16, <2>1 DEF validate, ShapeInv, Request
    <3> QED
      BY <1>1, <3>1
  <2> QED
    BY <1>4, <1>16, <2>1, Zenon DEF validate
<1>17. ASSUME emit PROVE HitsInv'
  BY <1>1, <1>17, RespondIdle DEF emit
<1>18. ASSUME begin_job \/ reingest_current \/ reingest_read \/ reingest_fail PROVE HitsInv'
  BY <1>3, <1>18 DEF begin_job, reingest_current, reingest_read, reingest_fail
<1>19. ASSUME compile_job PROVE HitsInv'
  <2>1. \A g \in Files : sdb[g] <= sdb'[g]
    BY <1>19 DEF compile_job, CompileOne, OrderInv, ShapeInv
  <2> QED
    BY <1>2, <1>19, <2>1 DEF compile_job
<1>20. ASSUME reingest_publish PROVE HitsInv'
  <2>1. /\ loop'.at = loop.at /\ loop'.cur = loop.cur /\ loop'.text = loop.text
        /\ loop'.source = loop.source /\ loop'.needs = loop.needs /\ loop'.then = loop.then
        /\ loop'.todo = loop.todo /\ loop'.part = loop.part /\ UNCHANGED sdb
    BY <1>20 DEF reingest_publish, ShapeInv, Request
  <2>2. loop.at # "idle" => loop.cur \in Files /\ loop.text \in Nat
    BY DEF CursorInv, ShapeInv, Request
  <2>3. loop.at = "hits" => snap'[loop.cur] >= snap[loop.cur]
    BY <1>0, <2>2 DEF Advances
  <2>4. loop.at = "hits" /\ loop.source # "overlay" /\ ~ loop.needs =>
            snap'[loop.cur] >= loop.text
    BY <1>0, <2>2, <2>3 DEF HitsInv, ShapeInv
  <2> QED
    BY <1>0, <2>1, <2>4 DEF HitsInv
<1>21. CASE UNCHANGED vars
  BY <1>3, <1>21 DEF vars
<1> QED
  BY <1>5, <1>6, <1>7, <1>8, <1>9, <1>10, <1>11, <1>12, <1>13, <1>14, <1>15, <1>16, <1>17,
     <1>18, <1>19, <1>20, <1>21 DEF FreshNext, Editor, Serving, Building

\* An answer to references that asks for no reindex was read from a segment that
\* knows the document of the cursor by the text the cursor was resolved in, or by
\* a later one, even if the worker published in between (write_through_raw_path)
THEOREM HitsAlwaysCover == FreshSpec => []HitsCoverCursor
<1>1. FreshInit => HitsInv
  BY DEF FreshInit, HitsInv, HitsCoverCursor, NoRequest
<1>2. HitsInv => HitsCoverCursor
  BY DEF HitsInv
<1> QED
  BY <1>1, <1>2, HitsNext, InvHolds, PTL DEF FreshSpec

-----------------------------------------------------------------------------
(* Rename plans                                                            *)

\* Unless another ingest was published since the edits were collected, the
\* segment is still the one they come from, and every document checked so far
\* was checked against the text its edits are for
RenameInv ==
    /\ loop.at = "validate" /\ ~ loop.moved =>
           \A f \in Files : /\ snap[f] = loop.base[f]
                            /\ f \notin loop.todo /\ loop.base[f] # Absent =>
                                   loop.base[f] = loop.seen[f]
    /\ RenameEditsFresh

\* The plan a step answers a rename with was checked against its own segment
LEMMA RenameReply ==
    ASSUME Inv, RenameInv, [FreshNext]_vars
    PROVE  RenameEditsFresh'
<1>1. CASE emit
  <2>1. /\ loop.at = "validate" /\ loop.todo = {}
        /\ reply' = [loop EXCEPT !.is = "plan", !.at = "done"]
    BY <1>1 DEF emit, Respond
  <2>2. reply'.moved = loop.moved /\ reply'.base = loop.base /\ reply'.seen = loop.seen
    BY <2>1 DEF Inv, ShapeInv, Request
  <2> QED
    BY <2>1, <2>2 DEF RenameInv, RenameEditsFresh
<1>2. CASE references_ok
  <2>1. reply'.is # "plan"
    BY <1>2, Zenon DEF references_ok, Reject, Respond, Inv, ShapeInv, Request
  <2> QED
    BY <2>1 DEF RenameEditsFresh
<1>3. CASE ~ references_ok /\ ~ emit
  <2>1. UNCHANGED reply \/ reply'.is = "error"
    BY <1>3, ReplyMoves
  <2> QED
    BY <2>1 DEF RenameInv, RenameEditsFresh
<1> QED
  BY <1>1, <1>2, <1>3

\* Every step keeps what is promised of the edits
LEMMA RenameNext == Inv /\ RenameInv /\ [FreshNext]_vars => RenameInv'
<1> SUFFICES ASSUME Inv, RenameInv, [FreshNext]_vars PROVE RenameInv'
  OBVIOUS
<1> USE DEF Inv
<1>0. RenameEditsFresh'
  BY RenameReply
<1>1. ASSUME loop'.at # "validate" PROVE RenameInv'
  BY <1>0, <1>1 DEF RenameInv
<1>2. ASSUME UNCHANGED <<loop, snap>> PROVE RenameInv'
  BY <1>0, <1>2 DEF RenameInv
<1>3. ASSUME NEW why, Reject(why) PROVE RenameInv'
  BY <1>1, <1>3, RespondIdle DEF Reject
<1>4. ASSUME NEW f \in Files, Type(f) \/ Save(f) \/ WriteFile(f) PROVE RenameInv'
  BY <1>2, <1>4 DEF Type, Save, WriteFile
<1>5. ASSUME NEW f \in Files, references(f) PROVE RenameInv'
  <2>1. loop'.at = "cursor"
    BY <1>5, Resting DEF references, Request
  <2> QED
    BY <1>1, <2>1
<1>6. ASSUME NEW f \in Files, rename(f) PROVE RenameInv'
  <2>1. CASE loop' = [NoRequest EXCEPT !.is = "rename", !.cur = f, !.at = "cursor"]
    <3>1. loop'.at = "cursor"
      BY <2>1, Resting DEF Request
    <3> QED
      BY <1>1, <3>1
  <2> QED
    BY <1>3, <1>6, <2>1 DEF rename
<1>7. ASSUME symbol_at_cursor PROVE RenameInv'
  <2>1. ASSUME NEW source, NEW t, WithSymbol(source, t, FALSE) PROVE RenameInv'
    BY <1>1, <2>1, WithSymbolMoves, Zenon DEF ShapeInv
  <2>2. ASSUME NEW t, NEW then,
               loop' = [loop EXCEPT !.source = "raw", !.text = t, !.needs = TRUE,
                            !.at = "heal", !.then = then]
        PROVE  RenameInv'
    <3>1. loop'.at = "heal"
      BY <2>2 DEF ShapeInv, Request
    <3> QED
      BY <1>1, <3>1
  <2> QED
    BY <1>3, <1>7, <2>1, <2>2, CursorCases, Zenon
<1>8. ASSUME start_ingest \/ read_document PROVE RenameInv'
  <2>1. loop'.at = "read"
    BY <1>8, Zenon DEF start_ingest, read_document, Reading, ReadOne, ShapeInv, Request
  <2> QED
    BY <1>1, <2>1
<1>9. ASSUME publish \/ fail_ingest PROVE RenameInv'
  <2>1. ASSUME NEW n, GoOn(n) PROVE RenameInv'
    <3>1. CASE loop.then = "stale"
      BY <1>3, <2>1, <3>1 DEF GoOn
    <3>2. CASE loop.then # "stale"
      <4>1. loop'.at = loop.then /\ loop.then # "validate"
        BY <2>1, <3>2, Zenon DEF GoOn, ShapeInv, Request, Nexts
      <4> QED
        BY <1>1, <4>1
    <3> QED
      BY <3>1, <3>2
  <2> QED
    BY <1>3, <1>9, <2>1, Zenon DEF publish, fail_ingest
<1>10. ASSUME references_ok PROVE RenameInv'
  <2>1. CASE loop' = NoRequest
    BY <1>1, <2>1 DEF NoRequest
  <2> QED
    BY <1>3, <1>10, <2>1 DEF references_ok
<1>11. ASSUME compile PROVE RenameInv'
  <2>1. CASE Reject("CompileFailed")
    BY <1>3, <2>1
  <2>2. CASE ~ Reject("CompileFailed")
    <3>1. loop'.at # "validate"
      BY <1>11, <2>2, Zenon DEF compile, ShapeInv, Request
    <3> QED
      BY <1>1, <3>1
  <2> QED
    BY <2>1, <2>2
<1>12. ASSUME collect_edits PROVE RenameInv'
  <2>1. CASE loop' = [loop EXCEPT !.at = "validate", !.base = snap,
                          !.todo = {f \in Files : snap[f] # Absent}, !.moved = FALSE]
    <3>1. loop'.base = snap /\ loop'.todo = {f \in Files : snap[f] # Absent}
      BY <2>1 DEF ShapeInv, Request
    <3>2. UNCHANGED snap
      BY <1>12 DEF collect_edits
    <3> QED
      BY <1>0, <3>1, <3>2 DEF RenameInv
  <2> QED
    BY <1>3, <1>12, <2>1 DEF collect_edits
<1>13. ASSUME validate PROVE RenameInv'
  <2>1. ASSUME NEW g \in loop.todo, source_is_fresh(g),
               loop' = [loop EXCEPT !.todo = @ \ {g}, !.seen[g] = disk[g]]
        PROVE  RenameInv'
    <3>1. /\ loop'.base = loop.base /\ loop'.moved = loop.moved
          /\ loop'.todo = loop.todo \ {g} /\ loop'.seen = [loop.seen EXCEPT ![g] = disk[g]]
          /\ loop.seen \in [Files -> Nat] /\ g \in Files
      BY <2>1 DEF ShapeInv, Request
    <3>2. loop.at = "validate" /\ UNCHANGED snap /\ snap[g] = disk[g]
      BY <1>13, <2>1 DEF validate, source_is_fresh
    <3>3. ASSUME ~ loop.moved, NEW f \in Files
          PROVE  /\ snap'[f] = loop'.base[f]
                 /\ f \notin loop'.todo /\ loop'.base[f] # Absent => loop'.base[f] = loop'.seen[f]
      BY <3>1, <3>2, <3>3 DEF RenameInv
    <3> QED
      BY <1>0, <3>1, <3>3 DEF RenameInv
  <2> QED
    BY <1>3, <1>13, <2>1, Zenon DEF validate
<1>14. ASSUME emit PROVE RenameInv'
  BY <1>1, <1>14, RespondIdle DEF emit
<1>15. ASSUME begin_job \/ compile_job \/ reingest_current \/ reingest_read \/ reingest_fail
       PROVE  RenameInv'
  BY <1>2, <1>15 DEF begin_job, compile_job, reingest_current, reingest_read, reingest_fail
<1>16. ASSUME reingest_publish PROVE RenameInv'
  <2>1. loop'.at = loop.at /\ loop'.moved = (loop.at = "validate")
    BY <1>16 DEF reingest_publish, ShapeInv, Request
  <2> QED
    BY <1>0, <2>1, Zenon DEF RenameInv
<1>17. CASE UNCHANGED vars
  BY <1>2, <1>17 DEF vars
<1> QED
  BY <1>4, <1>5, <1>6, <1>7, <1>8, <1>9, <1>10, <1>11, <1>12, <1>13, <1>14, <1>15, <1>16,
     <1>17 DEF FreshNext, Editor, Serving, Building

\* A rename plan is made of spans of the very texts it was validated against,
\* every edited document included, unless the worker published another segment
\* between the collection of the edits and the last validation (rename.rs)
THEOREM RenameAlwaysFresh == FreshSpec => []RenameEditsFresh
<1>1. FreshInit => RenameInv
  BY DEF FreshInit, RenameInv, RenameEditsFresh, NoRequest
<1>2. RenameInv => RenameEditsFresh
  BY DEF RenameInv
<1> QED
  BY <1>1, <1>2, RenameNext, InvHolds, PTL DEF FreshSpec
=============================================================================
