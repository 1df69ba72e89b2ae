---------------------------- MODULE PcDiagnostics ----------------------------
(***************************************************************************)
(* Two streams of diagnostics for one editor: the build server's, routed   *)
(* per file and target, and the presentation compiler's typing             *)
(* diagnostics for unsaved buffers, pulled in the background.  Four actors *)
(* meet here: the editor, the message loop, the pull worker, and the BSP   *)
(* reader thread.  The presentation compiler's island is one mutex that a  *)
(* pull holds while its query runs.                                        *)
(***************************************************************************)
EXTENDS Naturals, Sequences, Functions

CONSTANTS
  Uris,          \* source files
  Targets,       \* build targets that publish diagnostics for them
  Diags,         \* compile diagnostics
  Versions       \* bound: texts of one buffer are told apart modulo this

ASSUME PcDiagnosticsConstants == Versions \in Nat \ {0}

VARIABLES
  buf,                  \* DocumentStore: "closed", "clean" or "dirty" per file
  text,                 \* DocumentStore: the buffer's version, 0 when closed
  mloop,                \* the notification the message loop is handling
  booted,               \* the island has a driver
  mirror,               \* the version the island accepted, 0 when not held
  due,                  \* Shared: armed pulls, earliest first
  elapsed,              \* those whose debounce window is over
  worker,               \* the pull worker: next step, file, version pulled
  by_uri,               \* DiagnosticRouter: file -> target -> diagnostics
  router_published,     \* DiagnosticRouter::published_non_empty
  bsp, pc,              \* LayerState: compile set, version of the PC overlay
  published_non_empty,  \* LayerState
  shown,                \* the editor: the last publish per file
  excused               \* files whose overlay a documented race left behind

docVars == <<buf, text>>
layerVars == <<bsp, pc, published_non_empty, shown>>
routerVars == <<by_uri, router_published>>
dueVars == <<due, elapsed>>
diagVars == <<docVars, mloop, booted, mirror, dueVars, worker, routerVars, layerVars, excused>>

Idle == [op |-> "idle", uri |-> "none"]
NoPull == [at |-> "idle", uri |-> "none", got |-> 0]

DiagInit ==
  /\ buf = [u \in Uris |-> "closed"] /\ text = [u \in Uris |-> 0]
  /\ mloop = Idle /\ booted = FALSE /\ mirror = [u \in Uris |-> 0]
  /\ due = <<>> /\ elapsed = {} /\ worker = NoPull
  /\ by_uri = [u \in Uris |-> [t \in Targets |-> {}]] /\ router_published = {}
  /\ bsp = [u \in Uris |-> {}] /\ pc = [u \in Uris |-> 0]
  /\ published_non_empty = {} /\ shown = [u \in Uris |-> [bsp |-> {}, pc |-> 0]]
  /\ excused = {}

-------------------------------------------------------------------------------
(* Mutant: an empty union is never published. *)
emit_never_clears(u, compiled, overlay) ==
  IF compiled # {} \/ overlay # 0
  THEN /\ published_non_empty' = published_non_empty \cup {u}
       /\ shown' = [shown EXCEPT ![u] = [bsp |-> compiled, pc |-> overlay]]
  ELSE UNCHANGED <<published_non_empty, shown>>

(* PcDiagnosticsLayer, one critical section per call.  emit publishes the      *)
(* union of the compile set and the overlay; an empty one only once.           *)
emit(u, compiled, overlay) ==
  IF compiled # {} \/ overlay # 0
  THEN /\ published_non_empty' = published_non_empty \cup {u}
       /\ shown' = [shown EXCEPT ![u] = [bsp |-> compiled, pc |-> overlay]]
  ELSE /\ published_non_empty' = published_non_empty \ {u}
       /\ IF u \in published_non_empty
          THEN shown' = [shown EXCEPT ![u] = [bsp |-> {}, pc |-> 0]]
          ELSE UNCHANGED shown

bsp_published(u, diagnostics) ==
  /\ bsp' = [bsp EXCEPT ![u] = diagnostics]
  /\ pc' = [pc EXCEPT ![u] = 0]
  /\ emit(u, diagnostics, 0)

(* A pull of version v that found diagnostics; v = 0 is "none found". *)
set_pc(u, v) ==
  /\ UNCHANGED bsp
  /\ IF v = 0 /\ pc[u] = 0
     THEN UNCHANGED <<pc, published_non_empty, shown>>
     ELSE pc' = [pc EXCEPT ![u] = v] /\ emit(u, bsp[u], v)

clear_pc(u) == set_pc(u, 0)

(* The overlay of u is dropped now.  A pull inside its window puts its result  *)
(* back afterwards: one past its second open-and-dirty check always, one still *)
(* before it when the buffer is closed and reopened meanwhile.                 *)
Excuse(u, window) ==
  excused' = IF worker.at \in window /\ worker.uri = u THEN excused \cup {u}
             ELSE excused \ {u}

-------------------------------------------------------------------------------
(* BTreeMap::remove on the armed pulls, where no file occurs twice. *)
Without(s, u) ==
  IF u \in Range(s)
    THEN LET k == CHOOSE i \in DOMAIN s : s[i] = u
         IN SubSeq(s, 1, k - 1) \o SubSeq(s, k + 1, Len(s))
    ELSE s

(* Mutant: an edit to an armed file starts its window again. *)
schedule_slides(u) ==
  /\ due' = Append(Without(due, u), u)
  /\ elapsed' = elapsed \ {u}

(* PcDiagnosticsScheduler: a file that is armed keeps its window. *)
schedule(u) ==
  /\ due' = IF u \in Range(due) THEN due ELSE Append(due, u)
  /\ UNCHANGED elapsed

cancel(u) ==
  /\ due' = Without(due, u)
  /\ elapsed' = elapsed \ {u}

(* The message loop.  didOpen, didChange and didClose first update the         *)
(* document store, then the island's mirror, for which they need its mutex.    *)
did_open(u) ==
  /\ mloop = Idle
  /\ buf[u] = "closed"
  /\ \E state \in {"clean", "dirty"} : buf' = [buf EXCEPT ![u] = state]
  /\ text' = [text EXCEPT ![u] = 1]
  /\ mloop' = [op |-> "open", uri |-> u]
  /\ UNCHANGED <<booted, mirror, dueVars, worker, routerVars, layerVars, excused>>

did_change(u) ==
  /\ mloop = Idle
  /\ buf[u] # "closed"
  /\ \E state \in {"clean", "dirty"} : buf' = [buf EXCEPT ![u] = state]
  /\ text' = [text EXCEPT ![u] = (@ % Versions) + 1]
  /\ mloop' = [op |-> "change", uri |-> u]
  /\ UNCHANGED <<booted, mirror, dueVars, worker, routerVars, layerVars, excused>>

did_close(u) ==
  /\ mloop = Idle
  /\ buf[u] # "closed"
  /\ buf' = [buf EXCEPT ![u] = "closed"]
  /\ text' = [text EXCEPT ![u] = 0]
  /\ mloop' = [op |-> "close", uri |-> u]
  /\ UNCHANGED <<booted, mirror, dueVars, worker, routerVars, layerVars, excused>>

(* didSave needs no island: the buffer is clean, the pending pull is disarmed  *)
(* and the overlay dropped.                                                    *)
did_save(u) ==
  /\ mloop = Idle
  /\ buf[u] # "closed"
  /\ buf' = [buf EXCEPT ![u] = "clean"]
  /\ cancel(u)
  /\ clear_pc(u)
  /\ Excuse(u, {"set"})
  /\ UNCHANGED <<text, mloop, booted, mirror, worker, routerVars>>

IslandFree == worker.at # "query"

(* The island may reject a change once it is booted; the mirror then keeps     *)
(* what it had.                                                                *)
Accepted == IF booted THEN BOOLEAN ELSE {TRUE}

MirrorOpen ==
  /\ mloop.op = "open" /\ IslandFree
  /\ \E ok \in Accepted :
       mirror' = IF ok THEN [mirror EXCEPT ![mloop.uri] = text[mloop.uri]] ELSE mirror
  /\ mloop' = Idle
  /\ UNCHANGED <<docVars, booted, dueVars, worker, routerVars, layerVars, excused>>

MirrorChange ==
  /\ mloop.op = "change" /\ IslandFree
  /\ \E ok \in Accepted :
       mirror' = IF ok THEN [mirror EXCEPT ![mloop.uri] = text[mloop.uri]] ELSE mirror
  /\ IF mirror'[mloop.uri] # 0 THEN schedule(mloop.uri) ELSE UNCHANGED dueVars
  /\ mloop' = Idle
  /\ UNCHANGED <<docVars, booted, worker, routerVars, layerVars, excused>>

MirrorClose ==
  /\ mloop.op = "close" /\ IslandFree
  /\ \E ok \in Accepted :
       mirror' = IF ok THEN [mirror EXCEPT ![mloop.uri] = 0] ELSE mirror
  /\ cancel(mloop.uri)
  /\ clear_pc(mloop.uri)
  /\ Excuse(mloop.uri, {"recheck", "set"})
  /\ mloop' = Idle
  /\ UNCHANGED <<docVars, booted, worker, routerVars>>

(* The first query that needs the presentation compiler boots the island. *)
boot ==
  /\ mloop = Idle /\ ~ booted
  /\ booted' = TRUE
  /\ UNCHANGED <<docVars, mloop, mirror, dueVars, worker, routerVars, layerVars, excused>>

(* A build-model reload replaces the scheduler, joining its worker and losing  *)
(* what was armed, and replays the open buffers into the mirror.               *)
reload ==
  /\ mloop = Idle /\ worker = NoPull
  /\ due' = <<>> /\ elapsed' = {}
  /\ \E ok \in [Uris -> Accepted] :
       mirror' = [u \in Uris |-> IF buf[u] # "closed" /\ ok[u] THEN text[u] ELSE mirror[u]]
  /\ excused' = excused \cup Range(due) \cup {u \in Uris : mirror'[u] # mirror[u]}
  /\ UNCHANGED <<docVars, mloop, booted, worker, routerVars, layerVars>>

-------------------------------------------------------------------------------
(* The worker. *)
DirtyAndOpen(u) == mirror[u] # 0 /\ buf[u] = "dirty"

(* Windows all have the same length, so they end in the order they began. *)
DebounceElapses ==
  /\ \E i \in DOMAIN due :
       /\ elapsed = Range(SubSeq(due, 1, i - 1))
       /\ elapsed' = elapsed \cup {due[i]}
  /\ UNCHANGED <<docVars, mloop, booted, mirror, due, worker, routerVars, layerVars, excused>>

(* The earliest armed pull is due: take it and check the gate. *)
PullBegins ==
  /\ worker = NoPull /\ due # <<>> /\ Head(due) \in elapsed
  /\ LET u == Head(due) IN
     /\ IF booted THEN excused' = excused \ {u} ELSE UNCHANGED excused
     /\ IF ~ booted THEN UNCHANGED <<worker, layerVars>>
        ELSE IF DirtyAndOpen(u)
        THEN worker' = [at |-> "query", uri |-> u, got |-> 0] /\ UNCHANGED layerVars
        ELSE clear_pc(u) /\ UNCHANGED worker
  /\ due' = Tail(due) /\ elapsed' = elapsed \ {Head(due)}
  /\ UNCHANGED <<docVars, mloop, booted, mirror, routerVars>>

(* The island answers with the diagnostics of the text it holds, if any. *)
PullAnswers ==
  /\ worker.at = "query"
  /\ \E got \in {0, mirror[worker.uri]} :
       worker' = [worker EXCEPT !.at = "recheck", !.got = got]
  /\ UNCHANGED <<docVars, mloop, booted, mirror, dueVars, routerVars, layerVars, excused>>

(* Mutant: the gate is not checked again after the query. *)
PullTrustsGate ==
  /\ worker.at = "recheck"
  /\ worker' = [worker EXCEPT !.at = "set"]
  /\ UNCHANGED <<docVars, mloop, booted, mirror, dueVars, routerVars, layerVars, excused>>

PullRechecks ==
  /\ worker.at = "recheck"
  /\ IF DirtyAndOpen(worker.uri)
     THEN worker' = [worker EXCEPT !.at = "set"] /\ UNCHANGED layerVars
     ELSE clear_pc(worker.uri) /\ worker' = NoPull
  /\ UNCHANGED <<docVars, mloop, booted, mirror, dueVars, routerVars, excused>>

PullPublishes ==
  /\ worker.at = "set"
  /\ set_pc(worker.uri, worker.got)
  /\ worker' = NoPull
  /\ UNCHANGED <<docVars, mloop, booted, mirror, dueVars, routerVars, excused>>

-------------------------------------------------------------------------------
(* The BSP reader thread: DiagnosticRouter::accept, then the layer.  A reset   *)
(* replaces the target's diagnostics for the file, anything else adds to them. *)
merged(u, t, reset, incoming) ==
  [by_uri[u] EXCEPT ![t] = IF reset THEN incoming ELSE @ \cup incoming]

accept(u, t, reset, incoming) ==
  LET per_target == merged(u, t, reset, incoming)
      union == UNION {per_target[x] : x \in Targets}
  IN /\ by_uri' = [by_uri EXCEPT ![u] = per_target]
     /\ router_published' = IF union # {} THEN router_published \cup {u}
                            ELSE router_published \ {u}
     /\ IF union # {} \/ u \in router_published
        THEN /\ bsp_published(u, union)
             /\ excused' = IF worker.uri = u THEN excused ELSE excused \ {u}
        ELSE UNCHANGED <<layerVars, excused>>
     /\ UNCHANGED <<docVars, mloop, booted, mirror, dueVars, worker>>

-------------------------------------------------------------------------------
Notification == \E u \in Uris : did_open(u) \/ did_change(u) \/ did_close(u) \/ did_save(u)

LoopFinishes == MirrorOpen \/ MirrorChange \/ MirrorClose

WorkerPulls == PullBegins \/ PullAnswers \/ PullRechecks \/ PullPublishes

BuildServer ==
  \E u \in Uris, t \in Targets, reset \in BOOLEAN, incoming \in SUBSET Diags :
    accept(u, t, reset, incoming)

DiagNext ==
  \/ Notification \/ LoopFinishes \/ boot \/ reload
  \/ DebounceElapses \/ WorkerPulls
  \/ BuildServer

(* The worker thread runs, the debounce elapses, and a query returns (it is    *)
(* bounded by the island's request deadline); the loop finishes its handlers.  *)
DiagSpec ==
  /\ DiagInit
  /\ [][DiagNext]_diagVars
  /\ WF_diagVars(DebounceElapses)
  /\ WF_diagVars(WorkerPulls)
  /\ WF_diagVars(LoopFinishes)

-------------------------------------------------------------------------------
(* What the editor shows for a file is always the diagnostics every target     *)
(* last reported for it together with the typing overlay, although the router  *)
(* and the layer each suppress publishes and three threads publish.            *)
EditorShowsUnion ==
  \A u \in Uris :
    shown[u] = [bsp |-> UNION {by_uri[u][t] : t \in Targets}, pc |-> pc[u]]

(* Nothing is happening to the file: no handler, no pull, none armed. *)
AtRest(u) == mloop.uri # u /\ worker.uri # u /\ u \notin Range(due)

(* At rest, an overlay belongs to an unsaved buffer and to the newest text the *)
(* island holds, except after the race the header of pc_diagnostics.rs admits  *)
(* ("a save or close racing a pull") or a reload that lost an armed pull.      *)
OverlayTracksBuffer ==
  \A u \in Uris :
    AtRest(u) /\ u \notin excused /\ pc[u] # 0 => buf[u] = "dirty" /\ pc[u] = mirror[u]

(* An armed pull is eventually taken or disarmed, although the user may go on  *)
(* typing for ever: an edit coalesces into the armed window, never extends it. *)
PullsHappen == \A u \in Uris : u \in Range(due) ~> u \notin Range(due)

(* "the serve loop never blocks on a pull" (the header of pc_diagnostics.rs):  *)
(* no handler waits for the island while a pull holds it.                      *)
LoopNeverBlocksOnPull == mloop # Idle => IslandFree
===============================================================================
