------------------------------ MODULE LspServices ------------------------------
(***************************************************************************)
(* The ready services of the server (ls-server: services.rs) as an editor  *)
(* meets them: CoreServices, the bundle made from one build model; the     *)
(* notification and request handlers; the cache of semantic-token streams  *)
(* that backs full/delta; the reload that replaces the bundle while the    *)
(* index, the island and the open documents live on (bootstrap.rs).        *)
(*                                                                         *)
(* The editor and the message loop talk through two ordered channels, so   *)
(* what the editor has typed, holds and asks runs ahead of the server.  A  *)
(* text is a number.  A token stream is named by what it is made from: the *)
(* text the island has, and the text its offsets are turned into positions *)
(* with.                                                                   *)
(***************************************************************************)
EXTENDS Naturals, Sequences, Functions

CONSTANTS
    Documents, BuildTargets,
    SEMANTIC_TOKENS_CACHE_CAP,
    Discards,      \* whether the editor may cancel a token request and drop its answer
    Refuses,       \* whether a booted island may refuse what it is told of a buffer
    MaxTexts,      \* bound: texts the editor goes through, over all documents
    MaxAsks,       \* bound: requests
    MaxReloads     \* bound: reloads of the build model

VARIABLES
    buffer,     \* editor: uri -> its text, Closed when it is not open
    tokens,     \* editor: uri -> the token stream it holds and the id it came under
    asked,      \* editor: uris with a token request on the way
    inbox,      \* messages on their way to the loop
    outbox,     \* answers on their way back
    docs,       \* DocumentStore
    island,     \* the island's mirror of the buffers: uri -> its owner and text
    driver,     \* whether the island has a driver
    stale,      \* history: documents whose text the island refused, or was not told
    unplaced,   \* history: documents whose open or close the island refused
    ready,      \* whether the bundle has been adopted
    services,   \* CoreServices, and the indexable targets of its model
    workspace,  \* the orchestrator's current_workspace: the targets last ingested
    rows,       \* uris that have an active document in the index
    used        \* how much of each bound is used up

mirrorVars == <<island, driver, stale, unplaced>>
servicesVars == <<buffer, tokens, asked, inbox, outbox, docs, mirrorVars, ready, services, workspace, rows, used>>

Closed == 0
NoTarget == "none"
NoNodes == <<Closed, Closed>>
NoTokens == [id |-> 0, stream |-> NoNodes]
Garbled == <<>>
NotHeld == [target |-> NoTarget, text |-> Closed]

ASSUME ServicesConstants ==
    /\ NoTarget \notin BuildTargets
    /\ SEMANTIC_TOKENS_CACHE_CAP \in Nat \ {0}
    /\ Discards \in BOOLEAN /\ Refuses \in BOOLEAN
    /\ MaxTexts \in Nat /\ MaxAsks \in Nat /\ MaxReloads \in Nat

Owners == [Documents -> BuildTargets \cup {NoTarget}]

CoreServices(owner, indexable, connected) ==
    [uri_to_target |-> owner, indexable |-> indexable, bsp_connected |-> connected,
     last_completion_target |-> NoTarget, semantic_tokens_cache |-> <<>>]

\* A first bootstrap with a live build server ingests its indexable targets; one
\* without serves the index it finds on disk
ServicesInit ==
    /\ buffer = [u \in Documents |-> Closed] /\ docs = buffer
    /\ tokens = [u \in Documents |-> NoTokens]
    /\ asked = {} /\ inbox = <<>> /\ outbox = <<>>
    /\ island = [u \in Documents |-> NotHeld] /\ driver = FALSE
    /\ stale = {} /\ unplaced = {}
    /\ ready = FALSE
    /\ \/ \E owner \in Owners, indexable \in SUBSET BuildTargets :
              /\ services = CoreServices(owner, indexable, TRUE)
              /\ workspace = indexable
              /\ rows = {u \in Documents : owner[u] \in indexable}
       \/ /\ services = CoreServices([u \in Documents |-> NoTarget], {}, FALSE)
          /\ workspace = {}
          /\ rows \in SUBSET Documents
    /\ used = [texts |-> 0, asks |-> 0, reloads |-> 0]

Bounds == [texts |-> MaxTexts, asks |-> MaxAsks, reloads |-> MaxReloads]
Use(what) == used[what] < Bounds[what] /\ used' = [used EXCEPT ![what] = @ + 1]

-----------------------------------------------------------------------------
(* The editor                                                              *)

serverVars == <<docs, mirrorVars, ready, services, workspace, rows>>
editorVars == <<buffer, tokens, asked>>

Send(message) == inbox' = Append(inbox, message) /\ UNCHANGED <<outbox, serverVars>>

Edit(u) ==
    /\ Use("texts")
    /\ buffer' = [buffer EXCEPT ![u] = used.texts + 1]
    /\ Send([is |-> IF buffer[u] = Closed THEN "didOpen" ELSE "didChange", uri |-> u, text |-> used.texts + 1])
    /\ UNCHANGED <<tokens, asked>>

\* An editor that folds its last edit into the save, which carries the text
Save(u) ==
    /\ buffer[u] # Closed /\ Use("texts")
    /\ buffer' = [buffer EXCEPT ![u] = used.texts + 1]
    /\ Send([is |-> "didSave", uri |-> u, text |-> used.texts + 1])
    /\ UNCHANGED <<tokens, asked>>

\* An editor forgets the tokens of a document it closes
Close(u) ==
    /\ buffer[u] # Closed /\ u \notin asked
    /\ buffer' = [buffer EXCEPT ![u] = Closed]
    /\ tokens' = [tokens EXCEPT ![u] = NoTokens]
    /\ Send([is |-> "didClose", uri |-> u])
    /\ UNCHANGED <<asked, used>>

\* A delta-capable editor has one token request per document under way, and names
\* the result it holds
AskTokens(u) ==
    /\ buffer[u] # Closed /\ u \notin asked /\ Use("asks")
    /\ asked' = asked \cup {u}
    /\ Send([is |-> "tokens", uri |-> u, previousResultId |-> tokens[u].id])
    /\ UNCHANGED <<buffer, tokens>>

\* The splice of a delta only fits the stream it was computed against
Receive ==
    LET answer == Head(outbox)
        held == tokens[answer.uri]
    IN  /\ outbox # <<>> /\ outbox' = Tail(outbox)
        /\ asked' = asked \ {answer.uri}
        /\ tokens' = CASE answer.is = "full" -> [tokens EXCEPT ![answer.uri] = [id |-> answer.id, stream |-> answer.stream]]
                      [] answer.is = "delta" /\ answer.base = held.stream ->
                           [tokens EXCEPT ![answer.uri] = [id |-> answer.id, stream |-> answer.stream]]
                      [] answer.is = "delta" /\ answer.base # held.stream ->
                           [tokens EXCEPT ![answer.uri] = [id |-> answer.id, stream |-> Garbled]]
                      [] answer.is = "null" -> tokens
        /\ UNCHANGED <<buffer, inbox, serverVars, used>>

\* A request the editor has cancelled: it ignores the answer
Discard ==
    /\ Discards /\ outbox # <<>> /\ outbox' = Tail(outbox)
    /\ asked' = asked \ {Head(outbox).uri}
    /\ UNCHANGED <<buffer, tokens, inbox, serverVars, used>>

-----------------------------------------------------------------------------
(* Notifications: the document store first, then the island's mirror       *)

Take(is) == inbox # <<>> /\ Head(inbox).is = is /\ inbox' = Tail(inbox)
is_open(u) == island[u] # NotHeld

\* What a booted island is told of these documents it may refuse; a cold one gets
\* the mirror when it boots
Refusals(us) == IF driver /\ Refuses THEN SUBSET us ELSE {{}}

\* pc.did_open of each of these documents: one whose owner is not registered is not
\* sent on, one the island refuses is not mirrored
IslandOpens(us, owner, registered, texts) ==
    LET sent == {u \in us : owner[u] \in registered}
    IN  \E refused \in Refusals(sent) :
            /\ island' = [u \in Documents |-> IF u \in sent \ refused
                                           THEN [target |-> owner[u], text |-> texts[u]] ELSE island[u]]
            /\ stale' = (stale \ sent) \cup refused
            /\ unplaced' = (unplaced \ sent) \cup refused

\* A refused change leaves the text the island last accepted
IslandChanges(u, text) ==
    \E refused \in Refusals({u}) :
        /\ island' = IF refused = {} THEN [island EXCEPT ![u].text = text] ELSE island
        /\ stale' = (stale \ {u}) \cup refused
        /\ UNCHANGED unplaced

\* A refused close leaves the buffer in the mirror
IslandCloses(u) ==
    \E refused \in Refusals({u}) :
        /\ island' = IF refused = {} THEN [island EXCEPT ![u] = NotHeld] ELSE island
        /\ stale' = (stale \ {u}) \cup refused
        /\ unplaced' = (unplaced \ {u}) \cup refused

\* A document's open, under the bundle in force
IslandOpen(u) == IslandOpens({u}, services.uri_to_target, services.indexable, docs')

on_did_open ==
    LET note == Head(inbox)
    IN  /\ Take("didOpen")
        /\ docs' = [docs EXCEPT ![note.uri] = note.text]
        /\ IF ready THEN IslandOpen(note.uri) ELSE UNCHANGED <<island, stale, unplaced>>
        /\ UNCHANGED <<editorVars, outbox, driver, ready, services, workspace, rows, used>>

\* A buffer the island holds is changed there under whatever owner it has
on_did_change ==
    LET note == Head(inbox)
    IN  /\ Take("didChange")
        /\ docs' = [docs EXCEPT ![note.uri] = note.text]
        /\ CASE ~ ready -> UNCHANGED <<island, stale, unplaced>>
             [] ready /\ is_open(note.uri) -> IslandChanges(note.uri, note.text)
             [] ready /\ ~ is_open(note.uri) -> IslandOpen(note.uri)
        /\ UNCHANGED <<editorVars, outbox, driver, ready, services, workspace, rows, used>>

\* The text of a save reaches the document store, if it has the document, and not
\* the island
did_save_text ==
    LET note == Head(inbox)
    IN  /\ Take("didSave")
        /\ IF docs[note.uri] # Closed
           THEN docs' = [docs EXCEPT ![note.uri] = note.text] /\ stale' = stale \cup {note.uri}
           ELSE UNCHANGED <<docs, stale>>
        /\ UNCHANGED <<editorVars, outbox, island, driver, unplaced, ready, services, workspace, rows, used>>

Excluding(cache, k) == SubSeq(cache, 1, k - 1) \o SubSeq(cache, k + 1, Len(cache))

\* The token cache has at most one entry of a uri
drop_uri(cache, u) ==
    IF \E i \in DOMAIN cache : cache[i].uri = u
    THEN Excluding(cache, CHOOSE i \in DOMAIN cache : cache[i].uri = u)
    ELSE cache

on_did_close ==
    LET u == Head(inbox).uri
    IN  /\ Take("didClose")
        /\ docs' = [docs EXCEPT ![u] = Closed]
        /\ IF ready
           THEN /\ IslandCloses(u)
                /\ services' = [services EXCEPT !.semantic_tokens_cache = drop_uri(@, u)]
           ELSE UNCHANGED <<island, stale, unplaced, services>>
        /\ UNCHANGED <<editorVars, outbox, driver, ready, workspace, rows, used>>

-----------------------------------------------------------------------------
(* The gates                                                               *)

\* The model owns the document through a target that was ingested, or there is no
\* live build server and the index on disk has it
require_semanticdb(u) ==
    LET owner == services.uri_to_target[u]
    IN  \/ owner # NoTarget /\ owner \in workspace
        \/ ~ services.bsp_connected /\ owner = NoTarget /\ u \in rows

\* The methods by the rungs their handlers put before the real work, and what a
\* handler answers where one breaks
Gated == {"references", "documentHighlight", "documentSymbol", "implementation", "prepareCallHierarchy",
          "prepareRename", "rename", "definition", "typeDefinition", "completion", "hover",
          "signatureHelp", "inlayHint", "codeAction", "semanticTokens"}
NeedsBuffer == {"definition", "typeDefinition", "completion", "hover", "signatureHelp", "inlayHint",
                "codeAction", "semanticTokens", "selectionRange", "foldingRange"}
NeedsDocument == {"formatting", "semanticTokens"}

\* "value": the index or the compiler is asked, on behalf of this document
Outcome(method, u) ==
    IF method \in Gated /\ ~ require_semanticdb(u) THEN "NoSemanticdb"
    ELSE IF method \in NeedsBuffer /\ ~ is_open(u) THEN "fallback"
    ELSE IF method \in NeedsDocument /\ docs[u] = Closed THEN "not open"
    ELSE "value"

\* The first query boots the island; a boot that fails leaves it cold
dispatch == driver' \in {driver, TRUE}

\* A completion that gets past the gates leaves its target for the resolve requests
\* that follow
completion(u) ==
    /\ ready /\ Outcome("completion", u) = "value" /\ services.uri_to_target[u] # NoTarget
    /\ services' = [services EXCEPT !.last_completion_target = services.uri_to_target[u]]
    /\ dispatch
    /\ UNCHANGED <<editorVars, inbox, outbox, docs, island, stale, unplaced, ready, workspace, rows, used>>

\* Of the other requests, those to the compiler boot it
pc_value(u) ==
    /\ ready /\ \E method \in NeedsBuffer : Outcome(method, u) = "value"
    /\ dispatch
    /\ UNCHANGED <<editorVars, inbox, outbox, docs, island, stale, unplaced, ready, services, workspace, rows, used>>

\* The target that a completionItem/resolve is sent to, or NoTarget: the item is
\* echoed.  The island has the indexable targets of the model registered.
resolve_enriched ==
    IF services.last_completion_target \in services.indexable THEN services.last_completion_target ELSE NoTarget

-----------------------------------------------------------------------------
(* Semantic tokens: the latest stream of each uri under its id, the least  *)
(* recently stored first                                                   *)

Entries(cache, u) == {entry \in Range(cache) : entry.uri = u}

next_counter(cache, u) ==
    IF Entries(cache, u) = {} THEN 1
    ELSE (CHOOSE entry \in Entries(cache, u) : TRUE).counter + 1

store(cache, u, data) ==
    LET entry == [uri |-> u, counter |-> next_counter(cache, u), data |-> data]
        stored == Append(drop_uri(cache, u), entry)
    IN  IF Len(stored) > SEMANTIC_TOKENS_CACHE_CAP THEN Tail(stored) ELSE stored

\* Mutant: whatever the editor holds, the entry of the uri is taken for it.
previous_any(cache, u, id) == Entries(cache, u)

\* The entry the id names, if it is the current one
previous(cache, u, id) == {entry \in Entries(cache, u) : entry.counter = id}

\* The nodes are the island's, for the text it mirrors, or none when the island is
\* cold or fails; their positions are worked out in the text of the document store
semantic_tokens_full_delta ==
    LET call == Head(inbox)
        cache == services.semantic_tokens_cache
        known == previous(cache, call.uri, call.previousResultId)
        id == next_counter(cache, call.uri)
    IN  /\ ready /\ Take("tokens")
        /\ IF Outcome("semanticTokens", call.uri) # "value"
           THEN /\ outbox' = Append(outbox, [is |-> "null", uri |-> call.uri])
                /\ UNCHANGED <<services, driver>>
           ELSE \E data \in {NoNodes, <<island[call.uri].text, docs[call.uri]>>} :
                /\ dispatch /\ (data # NoNodes => driver')
                /\ outbox' = Append(outbox,
                       IF known = {}
                       THEN [is |-> "full", uri |-> call.uri, id |-> id, stream |-> data]
                       ELSE [is |-> "delta", uri |-> call.uri, id |-> id, stream |-> data,
                             base |-> (CHOOSE entry \in known : TRUE).data])
                /\ services' = [services EXCEPT !.semantic_tokens_cache = store(@, call.uri, data)]
        /\ UNCHANGED <<editorVars, docs, island, stale, unplaced, ready, workspace, rows, used>>

\* A request that finds no ready services is answered without them
pre_ready ==
    /\ ~ ready /\ inbox # <<>> /\ Head(inbox).is = "tokens"
    /\ inbox' = Tail(inbox)
    /\ outbox' = Append(outbox, [is |-> "null", uri |-> Head(inbox).uri])
    /\ UNCHANGED <<editorVars, serverVars, used>>

-----------------------------------------------------------------------------
(* The bundle: adopted once, replaced by every reload                      *)

OpenDocuments == {u \in Documents : docs[u] # Closed}

\* Mutant: only the documents the island does not hold yet are opened.
replay_open_buffers_new(owner, registered) ==
    IslandOpens({u \in OpenDocuments : ~ is_open(u)}, owner, registered, docs)

\* Every open document that the model owns is opened again in its mirror
replay_open_buffers(owner, registered) == IslandOpens(OpenDocuments, owner, registered, docs)

replay ==
    /\ ~ ready /\ ready' = TRUE
    /\ replay_open_buffers(services.uri_to_target, services.indexable)
    /\ UNCHANGED <<editorVars, inbox, outbox, docs, driver, services, workspace, rows, used>>

\* A new bundle: no completion to resolve, no token streams.  The island's targets
\* are replaced before the buffers are replayed.
Refetched(owner, indexable) ==
    /\ services' = CoreServices(owner, indexable, TRUE)
    /\ replay_open_buffers(owner, indexable)

\* Mutant: the new bundle is installed although its ingest failed.
reload_build_model_partial(owner, indexable) ==
    /\ ready /\ services.bsp_connected /\ Use("reloads")
    /\ \/ UNCHANGED <<workspace, rows>>
       \/ workspace' = indexable /\ rows' = {u \in Documents : owner[u] \in indexable}
    /\ Refetched(owner, indexable)
    /\ UNCHANGED <<editorVars, inbox, outbox, docs, driver, ready>>

\* A failed refetch or ingest keeps the old bundle.  A model without an indexable
\* target is not ingested, so that the index keeps what it has.
reload_build_model(owner, indexable) ==
    /\ ready /\ services.bsp_connected /\ Use("reloads")
    /\ \/ UNCHANGED <<services, island, stale, unplaced, workspace, rows>>
       \/ /\ IF indexable = {} THEN UNCHANGED <<workspace, rows>>
             ELSE workspace' = indexable /\ rows' = {u \in Documents : owner[u] \in indexable}
          /\ Refetched(owner, indexable)
    /\ UNCHANGED <<editorVars, inbox, outbox, docs, driver, ready>>

-----------------------------------------------------------------------------
Typing == \E u \in Documents : Edit(u) \/ Save(u) \/ Close(u) \/ AskTokens(u)

Handling ==
    \/ on_did_open \/ on_did_change \/ did_save_text \/ on_did_close \/ semantic_tokens_full_delta \/ pre_ready
    \/ replay \/ (\E u \in Documents : completion(u) \/ pc_value(u))
    \/ \E owner \in Owners, indexable \in SUBSET BuildTargets : reload_build_model(owner, indexable)

ServicesNext == Typing \/ Receive \/ Discard \/ Handling

ServicesSpec == ServicesInit /\ [][ServicesNext]_servicesVars

-----------------------------------------------------------------------------
\* The tokens an editor shows were sent as they are, put together from full results
\* and splices across evictions, closes and reloads: no splice is ever applied to a
\* stream other than the one it was computed against (semantic_tokens_full_delta)
TokensInSync == \A u \in Documents : tokens[u].stream # Garbled

\* What the notifications and the replays of a reload leave in the island: a buffer
\* it holds is an open document and has its text, unless the island refused that
\* text or it came with a save; and a ready bundle has every open document of a
\* registered target in the island, under the owner it has now, unless the island
\* refused the last open, also after reloads that moved it from target to target,
\* to one that is not registered and back (on_did_open, on_did_change, on_did_close,
\* did_save_text, replay_open_buffers)
MirrorFollows ==
    /\ \A u \in Documents \ stale : is_open(u) => docs[u] # Closed /\ island[u].text = docs[u]
    /\ ready => \A u \in OpenDocuments \ unplaced :
                    services.uri_to_target[u] \in services.indexable
                        => island[u].target = services.uri_to_target[u]

\* The model in force decides, whatever the reloads before it left behind: an item
\* is resolved against a target that owns documents in it, and while a build
\* server is connected a gated method is answered for exactly the documents that
\* an indexable target of it owns, whatever the index still holds, if the model has
\* an indexable target at all
ModelInForce ==
    /\ resolve_enriched \in {NoTarget} \cup {services.uri_to_target[u] : u \in Documents}
    /\ services.bsp_connected /\ services.indexable # {} =>
        \A u \in Documents, method \in Gated :
            (Outcome(method, u) = "NoSemanticdb") = (services.uri_to_target[u] \notin services.indexable)
=============================================================================
