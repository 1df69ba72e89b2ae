----------------------------- MODULE MCServices -----------------------------
(***************************************************************************)
(* Instances, for TLC, of what the ready services show an editor: the      *)
(* diagnostics it displays, and the answers of the services while it types *)
(* and the build model is reloaded.  The parts share no state in this      *)
(* module: a behavior is one of one part, and the others stay as they      *)
(* begin.                                                                  *)
(***************************************************************************)
EXTENDS PcDiagnostics, LspServices

CONSTANTS f, g, t1, t2, d1

VARIABLE part

all == <<part, diagVars, servicesVars>>

\* An editor that drops answers, and a cache that loses nothing
K == INSTANCE LspServices WITH BuildTargets <- {t1}, SEMANTIC_TOKENS_CACHE_CAP <- 2,
         Discards <- TRUE, Refuses <- FALSE, MaxTexts <- 2, MaxAsks <- 3, MaxReloads <- 0

\* Two documents that evict each other's entries
E == INSTANCE LspServices WITH BuildTargets <- {t1}, Refuses <- FALSE,
         MaxTexts <- 2, MaxAsks <- 3, MaxReloads <- 0

\* Token requests around a reload
R == INSTANCE LspServices WITH MaxTexts <- 2, MaxAsks <- 2

\* The build model and the island are the subject: the editor opens f only
OneOpen == buffer[g] = Closed /\ services.uri_to_target[g] = NoTarget

Init ==
    /\ part \in {"diagnostics", "services", "tokens", "evictions", "reloads"}
    /\ DiagInit
    /\ CASE part = "tokens" -> K!ServicesInit
         [] part = "evictions" -> E!ServicesInit
         [] OTHER -> ServicesInit
    /\ part \in {"services", "reloads"} => OneOpen
    /\ part = "diagnostics" => services = CoreServices([u \in Documents |-> NoTarget], {}, FALSE) /\ rows = {}

\* The bounds end the behaviors of the services, and only those
Bounded == part # "diagnostics" /\ UNCHANGED all

Next ==
    \/ part = "diagnostics" /\ DiagNext /\ UNCHANGED <<part, servicesVars>>
    \/ part = "services" /\ ServicesNext /\ OneOpen' /\ UNCHANGED <<part, diagVars>>
    \/ part = "reloads" /\ R!ServicesNext /\ OneOpen' /\ UNCHANGED <<part, diagVars>>
    \/ part = "evictions" /\ E!ServicesNext /\ UNCHANGED <<part, diagVars>>
    \/ part = "tokens" /\ K!ServicesNext /\ UNCHANGED <<part, diagVars>>
    \/ Bounded

\* The fairness of the diagnostics' own specification
Spec ==
    /\ Init /\ [][Next]_all
    /\ WF_all(part = "diagnostics" /\ DebounceElapses /\ UNCHANGED <<part, servicesVars>>)
    /\ WF_all(part = "diagnostics" /\ WorkerPulls /\ UNCHANGED <<part, servicesVars>>)
    /\ WF_all(part = "diagnostics" /\ LoopFinishes /\ UNCHANGED <<part, servicesVars>>)
=============================================================================
