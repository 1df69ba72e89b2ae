------------------------------- MODULE PcIsland -------------------------------
(***************************************************************************)
(* The presentation-compiler island: IslandPcService, which mirrors the    *)
(* editor's buffers and boots the embedded JVM on the first query; the     *)
(* Supervisor, which runs each request under a deadline and climbs the     *)
(* recovery ladder when one overruns it; the loaned dispatch threads, one  *)
(* per generation; and the compiler facade, which all of them share.       *)
(*                                                                         *)
(* The service's mutex is held over a whole call, so calls come one at a   *)
(* time; the dispatch threads run on their own.                            *)
(***************************************************************************)
EXTENDS Naturals, Sequences, FiniteSets, Functions

CONSTANTS
  Targets, Uris, Texts,
  max_abandoned,    \* dispatch generations that may be abandoned
  Rejects,          \* whether the island may refuse a well-formed request
  MaxCalls          \* bound: calls into the service

ASSUME IslandConstants ==
  /\ IsFiniteSet(Targets) /\ IsFiniteSet(Uris)
  /\ max_abandoned \in Nat /\ MaxCalls \in Nat
  /\ Rejects \in BOOLEAN

VARIABLES
  outer,        \* IslandState: the target set and the mirrored buffers
  driver,       \* whether a booted supervisor is installed
  boot_error,   \* why the boot failed, latched
  call, todo,   \* the call that holds the mutex, its requests still to be made
  jvm,          \* how far the JVM and its premain are
  sup,          \* what the supervisor waits for
  reply,        \* the outcome sent for the request it waits for
  mirror,       \* TargetMirror: the replay source
  fatal,
  active,       \* active_generation, also GenerationState's counters
  staged,       \* staged_dispatch: the generation whose receiver is staged
  busy,         \* busy_generation
  lane,         \* the dispatch thread of each generation and its channel
  loans,        \* threads the island has loaned that have not entered yet
  facade,       \* PcFacade: the registered targets and open buffers
  replays,      \* the replay requests still to be made into a new generation
  calls

serviceVars == <<outer, driver, boot_error, call, todo>>
supVars == <<sup, reply, mirror, fatal, replays>>
laneVars == <<staged, busy, lane, loans>>
islandVars == <<serviceVars, jvm, supVars, active, laneVars, facade, calls>>

Generations == 0 .. max_abandoned
None == "none"
NoGeneration == max_abandoned + 1
IDLE_GENERATION == NoGeneration

-------------------------------------------------------------------------------
(* Requests, and what each does to a set of open buffers: an open inserts or   *)
(* refreshes, a change of an unknown buffer is ignored, a close drops.         *)
RegisterTarget(t) == [op |-> "register", target |-> t]
DidOpen(t, u, x) == [op |-> "open", target |-> t, uri |-> u, text |-> x]
DidChange(u, x) == [op |-> "change", uri |-> u, text |-> x]
DidClose(u) == [op |-> "close", uri |-> u]
Query(u) == [op |-> "query", uri |-> u]

BuffersAfter(buffers, r) ==
  CASE r.op = "open" -> [u \in DOMAIN buffers \cup {r.uri} |->
                            IF u = r.uri THEN [target |-> r.target, text |-> r.text] ELSE buffers[u]]
    [] r.op = "change" /\ r.uri \in DOMAIN buffers -> [buffers EXCEPT ![r.uri].text = r.text]
    [] r.op = "close" -> [u \in DOMAIN buffers \ {r.uri} |-> buffers[u]]
    [] OTHER -> buffers

TargetsAfter(targets, r) == IF r.op = "register" THEN targets \cup {r.target} ELSE targets

observe(m, r) ==
  [targets |-> TargetsAfter(m.targets, r), buffers |-> BuffersAfter(m.buffers, r)]

(* When the facade takes a request: an open needs its target registered, a     *)
(* change or a query an open buffer.                                           *)
FacadeAccepts(f, r) ==
  CASE r.op = "open" -> r.target \in f.targets
    [] r.op \in {"change", "query"} -> r.uri \in DOMAIN f.buffers
    [] OTHER -> TRUE

(* The members of a finite set, in one order. *)
Listing(S) == CHOOSE s \in [1 .. Cardinality(S) -> S] : Range(s) = S

(* Replay order: every target, then every buffer with its latest text. *)
registrations(ts) == [i \in 1 .. Cardinality(ts) |-> RegisterTarget(Listing(ts)[i])]
opens(buffers) ==
  LET uris == Listing(DOMAIN buffers)
  IN [i \in 1 .. Cardinality(DOMAIN buffers) |->
        DidOpen(buffers[uris[i]].target, uris[i], buffers[uris[i]].text)]
replay_requests(m) == registrations(m.targets) \o opens(m.buffers)

EmptyMirror == [targets |-> {}, buffers |-> <<>>]
NoLane == [at |-> "none", queue |-> <<>>]

IslandInit ==
  /\ outer \in [targets : SUBSET Targets, buffers : {<<>>}]
  /\ driver = FALSE /\ boot_error = None /\ call = None /\ todo = <<>>
  /\ jvm = "absent"
  /\ sup = "idle" /\ reply = None /\ mirror = EmptyMirror /\ fatal = FALSE /\ replays = <<>>
  /\ active = 0 /\ staged = NoGeneration /\ busy = IDLE_GENERATION
  /\ lane = [g \in Generations |-> NoLane] /\ loans = 0
  /\ facade = EmptyMirror
  /\ calls = 0

-------------------------------------------------------------------------------
(* PcQueryService.  A document notification only reaches the mirror of a cold  *)
(* island; a booted one is told first, and the mirror follows its verdict.     *)
Calling ==
  /\ call = None /\ calls < MaxCalls
  /\ calls' = calls + 1
  /\ UNCHANGED <<jvm, supVars, active, laneVars, facade>>

Notify(r) ==
  /\ IF driver
     THEN call' = "document" /\ todo' = <<r>> /\ UNCHANGED outer
     ELSE outer' = [outer EXCEPT !.buffers = BuffersAfter(@, r)] /\ UNCHANGED <<call, todo>>
  /\ UNCHANGED <<driver, boot_error>>

did_open(t, u, x) == Calling /\ t \in outer.targets /\ Notify(DidOpen(t, u, x))
did_change(u, x) == Calling /\ u \in DOMAIN outer.buffers /\ Notify(DidChange(u, x))
did_close(u) == Calling /\ Notify(DidClose(u))

(* A query, of a buffer its caller has seen to be open.  It boots a cold       *)
(* island, unless an earlier boot failed.                                      *)
query_reply(u) ==
  /\ Calling
  /\ u \in DOMAIN outer.buffers
  /\ driver \/ boot_error = None
  /\ call' = IF driver THEN "query" ELSE "boot"
  /\ todo' = <<Query(u)>>
  /\ UNCHANGED <<outer, driver, boot_error>>

(* A reload installs the new target set and registers it into a booted island; *)
(* then it opens again, under its new owner, every open document that a target *)
(* of the new model owns.                                                      *)
reload(ts, owner) ==
  \E text \in [Uris -> Texts] :
    LET owned == [u \in {u \in Uris : owner[u] \in ts} |-> [target |-> owner[u], text |-> text[u]]]
    IN /\ Calling
       /\ IF driver
          THEN /\ outer' = [outer EXCEPT !.targets = ts]
               /\ todo' = registrations(ts) \o opens(owned)
               /\ call' = IF todo' = <<>> THEN None ELSE "reload"
          ELSE /\ outer' = [targets |-> ts,
                            buffers |-> [u \in DOMAIN outer.buffers \cup DOMAIN owned |->
                                           IF u \in DOMAIN owned THEN owned[u] ELSE outer.buffers[u]]]
               /\ UNCHANGED <<call, todo>>
       /\ UNCHANGED <<driver, boot_error>>

(* A configuration change un-latches a failed boot. *)
on_config_changed ==
  /\ Calling
  /\ ~ driver /\ boot_error # None
  /\ boot_error' = None
  /\ UNCHANGED <<outer, driver, call, todo>>

(* What the call does with a request's outcome.  A refusal leaves the mirror   *)
(* alone.  A boot ends at the first refusal, with a latched error; a reload    *)
(* latches one too, skips the other registrations and goes on.                 *)
Resume(outcome) ==
  LET r == Head(todo)
      accepted == outcome # "status"
      failed == ~ accepted /\ (r.op = "register" \/ (r.op = "open" /\ call = "boot"))
      rest == IF ~ failed THEN Tail(todo)
              ELSE IF call = "boot" THEN <<>>
              ELSE SelectSeq(Tail(todo), LAMBDA q : q.op # "register")
  IN /\ todo' = rest
     /\ call' = IF rest = <<>> THEN None ELSE call
     /\ driver' = (driver \/ (call = "boot" /\ Len(rest) = 1))
     /\ outer' = IF accepted /\ call # "boot"
                 THEN [outer EXCEPT !.buffers = BuffersAfter(@, r)] ELSE outer
     /\ boot_error' = IF failed THEN r.op ELSE boot_error

-------------------------------------------------------------------------------
(* boot: resolve the paths, create the JVM (a process has at most one), which  *)
(* runs its premain on the calling thread, then wait for the rendezvous.       *)
Booting == call = "boot" /\ ~ driver /\ Len(todo) = 1

FailBoot(why) ==
  /\ boot_error' = why
  /\ call' = None /\ todo' = <<>>
  /\ UNCHANGED <<outer, driver, supVars, active, laneVars, facade, calls>>

create_java_vm ==
  /\ Booting /\ sup = "idle"
  /\ \/ FailBoot("environment") /\ UNCHANGED jvm
     \/ jvm # "absent" /\ FailBoot("second vm") /\ UNCHANGED jvm
     \/ /\ jvm = "absent" /\ jvm' = "premain" /\ sup' = "creating"
        /\ UNCHANGED <<serviceVars, reply, mirror, fatal, replays, active, laneVars, facade, calls>>

(* The premain registers a vtable of the right version, which stages the       *)
(* first channel, or is refused, or gives up without a word; the thread it     *)
(* loans says that it has come.                                                *)
register_pc_vtable ==
  /\ jvm = "premain"
  /\ \/ jvm' = "registered" /\ staged' = 0
     \/ jvm' \in {"refused", "silent"} /\ UNCHANGED staged
  /\ UNCHANGED <<serviceVars, supVars, active, busy, lane, loans, facade, calls>>

dispatch_loop ==
  /\ jvm = "registered"
  /\ jvm' = "ready" /\ loans' = 1
  /\ UNCHANGED <<serviceVars, supVars, active, staged, busy, lane, facade, calls>>

(* JNI_CreateJavaVM returns when the premain does, which no deadline bounds. *)
premain_returns ==
  /\ sup = "creating" /\ jvm # "premain"
  /\ sup' = "rendezvous"
  /\ UNCHANGED <<serviceVars, jvm, reply, mirror, fatal, replays, active, laneVars, facade, calls>>

(* The rendezvous, with its deadline; then install_driver: register the        *)
(* targets and replay the mirrored buffers before the driver is installed and  *)
(* the query runs.                                                             *)
wait_for_registration ==
  /\ sup = "rendezvous"
  /\ sup' = "idle"
  /\ IF jvm = "ready"
     THEN /\ todo' = replay_requests(outer) \o todo
          /\ driver' = (Len(todo') = 1)
          /\ UNCHANGED <<outer, call, boot_error>>
     ELSE /\ boot_error' = IF jvm = "refused" THEN "refused" ELSE "timeout"
          /\ call' = None /\ todo' = <<>>
          /\ UNCHANGED <<outer, driver>>
  /\ UNCHANGED <<jvm, reply, mirror, fatal, replays, active, laneVars, facade, calls>>

-------------------------------------------------------------------------------
(* A dispatch thread takes the staged receiver; a thread that finds none       *)
(* panics back into the island.                                                *)
enter_dispatch_worker ==
  /\ loans > 0
  /\ loans' = loans - 1
  /\ IF staged = NoGeneration THEN UNCHANGED <<staged, lane>>
     ELSE staged' = NoGeneration /\ lane' = [lane EXCEPT ![staged].at = "idle"]
  /\ UNCHANGED <<serviceVars, jvm, supVars, active, busy, facade, calls>>

(* The thread marks its generation busy and invokes the slot.  The facade's    *)
(* maps change at once; what comes after may take arbitrarily long.            *)
invoke_dispatch(g) ==
  /\ lane[g].at = "idle" /\ lane[g].queue # <<>>
  /\ LET job == Head(lane[g].queue)
     IN \E refused \in {~ FacadeAccepts(facade, job.request), Rejects} :
          /\ FacadeAccepts(facade, job.request) \/ refused
          /\ facade' = IF refused THEN facade ELSE observe(facade, job.request)
          /\ lane' = [lane EXCEPT ![g].at = IF refused THEN "refusing" ELSE "running"]
  /\ busy' = g
  /\ UNCHANGED <<serviceVars, jvm, supVars, active, staged, loans, calls>>

(* A compare-and-swap clears the busy marker if it is still this generation's. *)
ClearBusy(g) == IF busy = g THEN IDLE_GENERATION ELSE busy

(* The slot returns.  A request whose caller gave up has no one to reply to.   *)
return_from_slot(g) ==
  /\ lane[g].at \in {"running", "refusing"}
  /\ busy' = ClearBusy(g)
  /\ reply' = IF ~ Head(lane[g].queue).awaited THEN reply
              ELSE IF lane[g].at = "running" THEN "done" ELSE "status"
  /\ lane' = [lane EXCEPT ![g] = [at |-> "idle", queue |-> Tail(@.queue)]]
  /\ UNCHANGED <<serviceVars, jvm, sup, mirror, fatal, replays, active, staged, loans,
                 facade, calls>>

(* A superseded thread whose channel is empty finds it closed. *)
leave_dispatch_worker(g) ==
  /\ g # active /\ lane[g].at = "idle" /\ lane[g].queue = <<>>
  /\ lane' = [lane EXCEPT ![g].at = "gone"]
  /\ UNCHANGED <<serviceVars, jvm, supVars, active, staged, busy, loans, facade, calls>>

-------------------------------------------------------------------------------
(* VtableBackend::dispatch: send the job to the active generation and wait. *)
Send(r) == lane' = [lane EXCEPT ![active].queue = Append(@, [request |-> r, awaited |-> TRUE])]

GiveUp == [g \in Generations |->
             [lane[g] EXCEPT !.queue = [i \in DOMAIN @ |-> [@[i] EXCEPT !.awaited = FALSE]]]]

(* A query enters the compiler, and so does a close once the buffer is gone. *)
InCompiler(g) ==
  LET op == Head(lane[g].queue).request.op
  IN \/ lane[g].at = "running" /\ op \in {"query", "close"}
     \/ lane[g].at = "refusing" /\ op = "query"

(* Mutant: only a request inside its slot can time out. *)
OverrunInSlot == reply = None /\ InCompiler(active)

(* A deadline passes while the slot is in the compiler, or while the lane does *)
(* not serve the request at all: a free lane takes a job, and runs what only   *)
(* changes a map, well within it.                                              *)
Overrun ==
  /\ reply = None
  /\ \/ Len(lane[active].queue) > 1
     \/ lane[active].at = "none" /\ ~ (staged = active /\ loans > 0)
     \/ InCompiler(active)

request ==
  /\ sup = "idle" /\ todo # <<>> /\ (Booting => driver)
  /\ Send(Head(todo))
  /\ sup' = "waiting"
  /\ UNCHANGED <<serviceVars, jvm, reply, mirror, fatal, replays, active, staged, busy,
                 loans, facade, calls>>

(* An answer in time: an accepted request is mirrored, a refused one is not. *)
reply_in_time ==
  /\ sup = "waiting" /\ reply # None
  /\ sup' = "idle" /\ reply' = None
  /\ mirror' = IF reply = "done" THEN observe(mirror, Head(todo)) ELSE mirror
  /\ Resume(reply)
  /\ UNCHANGED <<jvm, fatal, replays, active, laneVars, facade, calls>>

(* Mutant: what a request that overruns tells the island is not mirrored. *)
overrun_unobserved ==
  /\ sup = "waiting" /\ Overrun
  /\ lane' = GiveUp
  /\ sup' = "restarting"
  /\ UNCHANGED <<serviceVars, jvm, reply, mirror, fatal, replays, active, staged, busy, loans,
                 facade, calls>>

(* A wedged request is mirrored all the same, and recovery starts. *)
overrun ==
  /\ sup = "waiting" /\ Overrun
  /\ lane' = GiveUp
  /\ mirror' = observe(mirror, Head(todo))
  /\ sup' = "restarting"
  /\ UNCHANGED <<serviceVars, jvm, reply, fatal, replays, active, staged, busy, loans,
                 facade, calls>>

(* The call gets its timeout once recovery is over. *)
Recovered(isFatal) ==
  /\ sup' = "idle"
  /\ fatal' = (fatal \/ isFatal)
  /\ replays' = <<>>
  /\ Resume("timeout")

(* Rung 1: restart_instances over the control lane.  It disposes compiler      *)
(* instances and keeps the facade's maps.                                      *)
restart_instances ==
  /\ sup = "restarting"
  /\ \/ sup' = "grace" /\ UNCHANGED <<serviceVars, fatal, replays>>
     \/ Recovered(TRUE)
  /\ UNCHANGED <<jvm, reply, mirror, active, laneVars, facade, calls>>

lane_idle == busy # active

(* Within the grace period the lane is polled; a lane that is idle is kept. *)
wait_lane_idle ==
  /\ sup = "grace" /\ lane_idle
  /\ Recovered(FALSE)
  /\ UNCHANGED <<jvm, reply, mirror, active, laneVars, facade, calls>>

(* Rung 2, when the grace period ends: abandon the generation, unless the cap  *)
(* is reached; stage a new channel and ask for a thread.  A request for one    *)
(* that times out may still be served later.                                   *)
advance ==
  /\ sup = "grace" /\ ~ lane_idle
  /\ IF active >= max_abandoned
     THEN Recovered(TRUE) /\ UNCHANGED <<active, staged, loans>>
     ELSE /\ active' = active + 1
          /\ staged' = active + 1
          /\ \/ /\ loans' = loans + 1
                /\ sup' = "attaching"
                /\ replays' = replay_requests(mirror)
                /\ UNCHANGED <<serviceVars, fatal>>
             \/ loans' \in {loans, loans + 1} /\ Recovered(TRUE)
  /\ UNCHANGED <<jvm, reply, mirror, busy, lane, facade, calls>>

(* Replay the mirror through the new lane; any failure is fatal. *)
ReplayNext ==
  IF replays' = <<>> THEN Recovered(FALSE) /\ UNCHANGED lane
  ELSE sup' = "replaying" /\ Send(Head(replays')) /\ UNCHANGED <<serviceVars, fatal>>

wait_attached ==
  /\ sup = "attaching"
  /\ IF lane[active].at = "idle"
     THEN UNCHANGED replays /\ ReplayNext
     ELSE loans = 0 /\ Recovered(TRUE) /\ UNCHANGED lane
  /\ UNCHANGED <<jvm, reply, mirror, active, staged, busy, loans, facade, calls>>

replayed ==
  /\ sup = "replaying" /\ reply # None
  /\ reply' = None
  /\ IF reply = "done" THEN replays' = Tail(replays) /\ ReplayNext
     ELSE Recovered(TRUE) /\ UNCHANGED lane
  /\ UNCHANGED <<jvm, mirror, active, staged, busy, loans, facade, calls>>

replay_overrun ==
  /\ sup = "replaying" /\ Overrun
  /\ lane' = GiveUp
  /\ Recovered(TRUE)
  /\ UNCHANGED <<jvm, reply, mirror, active, staged, busy, loans, facade, calls>>

-------------------------------------------------------------------------------
ServiceCalls ==
  \/ \E t \in Targets, u \in Uris, x \in Texts : did_open(t, u, x)
  \/ \E u \in Uris, x \in Texts : did_change(u, x)
  \/ \E u \in Uris : did_close(u) \/ query_reply(u)
  \/ \E ts \in SUBSET Targets, owner \in [Uris -> Targets \cup {None}] : reload(ts, owner)
  \/ on_config_changed

Supervising ==
  \/ create_java_vm \/ wait_for_registration
  \/ request \/ reply_in_time \/ overrun
  \/ restart_instances \/ wait_lane_idle \/ advance
  \/ wait_attached \/ replayed \/ replay_overrun

Threads ==
  \/ register_pc_vtable \/ dispatch_loop \/ premain_returns \/ enter_dispatch_worker
  \/ \E g \in Generations :
       invoke_dispatch(g) \/ return_from_slot(g) \/ leave_dispatch_worker(g)

IslandNext == ServiceCalls \/ Supervising \/ Threads

(* The caller's thread runs, and its deadlines pass; a loaned thread enters    *)
(* the loop and takes its jobs, and a slot that only changes a map returns.    *)
(* Nothing is assumed of the premain, nor of a slot that enters the compiler.  *)
ShortSlot(g) == ~ InCompiler(g) /\ return_from_slot(g)

IslandSpec ==
  /\ IslandInit
  /\ [][IslandNext]_islandVars
  /\ WF_islandVars(Supervising)
  /\ WF_islandVars(enter_dispatch_worker)
  /\ \A g \in Generations :
       WF_islandVars(invoke_dispatch(g)) /\ WF_islandVars(ShortSlot(g))

-------------------------------------------------------------------------------
AtRest == driver /\ ~ fatal /\ call = None

(* Between calls the three copies of the open buffers are one: the service's,  *)
(* the supervisor's replay source and the compiler's, whatever the island      *)
(* refused, whichever requests overran their deadline, and however recovery    *)
(* went, as long as it was not fatal; and the compiler knows every target the  *)
(* supervisor would replay.                                                    *)
MirrorsAgree ==
  AtRest =>
    /\ outer.buffers = mirror.buffers /\ mirror.buffers = facade.buffers
    /\ mirror.targets = facade.targets

(* Recovery works: unless it was fatal, the lane that the next request goes to *)
(* is free when a call returns.  No wedged thread, and no request whose caller *)
(* gave up, is in its way.                                                     *)
LaneReady ==
  AtRest => lane[active].at = "idle" /\ lane[active].queue = <<>>

(* The busy marker can be trusted as long as recovery was not fatal: it never  *)
(* calls the active lane idle while that lane's thread is inside a slot, even  *)
(* when an abandoned thread comes back meanwhile.                              *)
IdleIsIdle ==
  ~ fatal /\ lane_idle => lane[active].at \notin {"running", "refusing"}

(* Between calls the supervisor's picture of the island is true: buffers, lane *)
(* and busy marker.                                                            *)
IslandInStep == MirrorsAgree /\ LaneReady /\ IdleIsIdle

(* Every call returns, even when the compiler never does, or is the boot and   *)
(* stays in JNI_CreateJavaVM for good, whose premain has no deadline.          *)
CallsReturn == call # None ~> (call = None \/ [](sup = "creating"))
===============================================================================
