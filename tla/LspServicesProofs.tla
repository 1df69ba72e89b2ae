--------------------------- MODULE LspServicesProofs ---------------------------
(***************************************************************************)
(* Proofs about the ready services, for any documents, targets, cache size *)
(* and bounds: gates and resolves go by the model in force, the island     *)
(* mirrors the document store under the present owners, and no splice of   *)
(* semantic tokens meets a stream it was not computed against.             *)
(***************************************************************************)
EXTENDS LspServices, SequenceTheorems, TLAPS

Texts == 0 .. MaxTexts

\* A stream is made of the island's text and of the document's
Streams == Texts \X Texts

Message ==
    [is : {"didOpen", "didChange", "didSave"}, uri : Documents, text : Texts \ {Closed}]
    \cup [is : {"didClose"}, uri : Documents]
    \cup [is : {"tokens"}, uri : Documents, previousResultId : Nat]

Answer ==
    [is : {"null"}, uri : Documents]
    \cup [is : {"full"}, uri : Documents, id : Nat \ {0}, stream : Streams]
    \cup [is : {"delta"}, uri : Documents, id : Nat \ {0}, stream : Streams, base : Streams]

CacheEntry == [uri : Documents, counter : Nat \ {0}, data : Streams]

AnyTarget == BuildTargets \cup {NoTarget}

Bundle ==
    [uri_to_target : Owners, indexable : SUBSET BuildTargets, bsp_connected : BOOLEAN,
     last_completion_target : AnyTarget, semantic_tokens_cache : Seq(CacheEntry)]

Budget == [texts : Texts, asks : 0 .. MaxAsks, reloads : 0 .. MaxReloads]

Unique(cache) == \A i, j \in DOMAIN cache : cache[i].uri = cache[j].uri => i = j

\* What each variable holds
ServicesTypes ==
    /\ buffer \in [Documents -> Texts] /\ docs \in [Documents -> Texts]
    /\ tokens \in [Documents -> [id : Nat, stream : Streams \cup {Garbled}]]
    /\ asked \subseteq Documents
    /\ inbox \in Seq(Message) /\ outbox \in Seq(Answer)
    /\ island \in [Documents -> [target : AnyTarget, text : Texts]]
    /\ ready \in BOOLEAN
    /\ services \in Bundle /\ Unique(services.semantic_tokens_cache)
    /\ workspace \subseteq BuildTargets
    /\ used \in Budget

\* The model in force: while a build server is connected and has something to index,
\* the orchestrator's workspace is what the bundle was made from
ModelInv ==
    /\ services.last_completion_target \in {NoTarget} \cup {services.uri_to_target[u] : u \in Documents}
    /\ services.bsp_connected /\ services.indexable # {} => workspace = services.indexable

\* The document a message at i of the inbox may leave open, or closes
Opens(u, i) == inbox[i].uri = u /\ inbox[i].is \in {"didOpen", "didChange", "didSave"}
Closes(u, i) == inbox[i].uri = u /\ inbox[i].is = "didClose"

\* The document is closed once the messages before n are handled
ClosedBefore(u, n) ==
    /\ docs[u] # Closed => \E k \in 1 .. n - 1 : Closes(u, k)
    /\ \A j \in 1 .. n - 1 : Opens(u, j) => \E k \in j + 1 .. n - 1 : Closes(u, k)

\* The editor only opens what it has closed
NotesInOrder ==
    \A u \in Documents :
        /\ \A n \in DOMAIN inbox : inbox[n].uri = u /\ inbox[n].is = "didOpen" => ClosedBefore(u, n)
        /\ buffer[u] = Closed => ClosedBefore(u, Len(inbox) + 1)

\* The island holds a document only once the bundle is adopted: an open one, with
\* its text, unless it was refused or not told that text; a closed one only when it
\* refused to drop it; and an open document of a registered target is there under
\* the owner the bundle has for it, unless the island refused its last open
Mirrored(u) ==
    /\ is_open(u) => ready
    /\ is_open(u) /\ u \notin stale => docs[u] # Closed /\ island[u].text = docs[u]
    /\ is_open(u) /\ docs[u] = Closed => u \in unplaced
    /\ ready /\ docs[u] # Closed /\ services.uri_to_target[u] \in services.indexable /\ u \notin unplaced
         => island[u].target = services.uri_to_target[u]

MirrorInv == NotesInOrder /\ \A u \in Documents : Mirrored(u)

\* A token message of u on its way to the loop, an answer on its way back
Requested(u, i) == inbox[i].uri = u /\ inbox[i].is = "tokens"
Answered(u, i) == outbox[i].uri = u

\* One token request per document is under way, and it names what the editor holds
OneRequest ==
    \A u \in Documents :
        /\ \A i \in DOMAIN inbox : Requested(u, i) =>
               /\ u \in asked /\ inbox[i].previousResultId = tokens[u].id
               /\ \A j \in DOMAIN inbox : Requested(u, j) => i = j
               /\ \A j \in DOMAIN outbox : ~ Answered(u, j)
        /\ \A i \in DOMAIN outbox : Answered(u, i) =>
               u \in asked /\ \A j \in DOMAIN outbox : Answered(u, j) => i = j

\* A stream on its way is the one its cache entry holds
InFlight(e, i) == outbox[i].uri = e.uri /\ outbox[i].is # "null"
CarriedBy(e, i) == outbox[i].id = e.counter /\ outbox[i].stream = e.data

\* An entry of the cache is what the editor holds or is about to hold, unless the
\* editor holds nothing
EntriesKnown ==
    \A e \in Range(services.semantic_tokens_cache) :
        /\ \A i \in DOMAIN outbox : InFlight(e, i) => CarriedBy(e, i)
        /\ \/ \E i \in DOMAIN outbox : InFlight(e, i)
           \/ tokens[e.uri].id = 0
           \/ tokens[e.uri] = [id |-> e.counter, stream |-> e.data]

\* A splice on its way fits
DeltasFit ==
    \A i \in DOMAIN outbox : outbox[i].is = "delta" => outbox[i].base = tokens[outbox[i].uri].stream

TokensInv == OneRequest /\ EntriesKnown /\ DeltasFit /\ TokensInSync

-----------------------------------------------------------------------------
(* The fields of messages and answers                                      *)

\* What a message carries
LEMMA MessageFields ==
  ASSUME NEW m \in Message
  PROVE  /\ m.uri \in Documents
         /\ m.is \in {"didOpen", "didChange", "didSave", "didClose", "tokens"}
         /\ m.is \in {"didOpen", "didChange", "didSave"} => m.text \in Texts /\ m.text # Closed
         /\ m.is = "tokens" => m.previousResultId \in Nat
BY Zenon DEF Message

\* What an answer carries
LEMMA AnswerFields ==
  ASSUME NEW a \in Answer
  PROVE  /\ a.uri \in Documents /\ a.is \in {"null", "full", "delta"}
         /\ a.is # "null" => a.id \in Nat \ {0} /\ a.stream \in Streams
         /\ a.is = "delta" => a.base \in Streams
BY Zenon DEF Answer

\* The text numbers are numbers
LEMMA TextNumbers ==
  /\ MaxTexts \in Nat /\ Texts \subseteq Nat /\ Closed \in Texts
BY ServicesConstants DEF Texts, Closed

\* The marker of a stream that went wrong is no stream, the empty stream is one
LEMMA StreamNames ==
  Garbled \notin Streams /\ NoNodes \in Streams /\ NoTokens.stream = NoNodes
<1>1. NoNodes \in Streams
  BY TextNumbers DEF NoNodes, Streams
<1>2. Garbled \notin Streams
  BY DEF Garbled, Streams
<1>3. QED
  BY <1>1, <1>2 DEF NoTokens

\* The first element leaves a channel (Take, Receive)
LEMMA FirstOut ==
  ASSUME NEW S, NEW s \in Seq(S), s # <<>>
  PROVE  /\ Head(s) \in S /\ Head(s) = s[1]
         /\ Tail(s) \in Seq(S)
         /\ Len(s) \in Nat \ {0} /\ Len(Tail(s)) = Len(s) - 1
         /\ DOMAIN s = 1 .. Len(s) /\ DOMAIN Tail(s) = 1 .. Len(s) - 1
         /\ \A i \in 1 .. Len(s) : s[i] \in S
         /\ \A i \in 1 .. Len(s) - 1 : Tail(s)[i] = s[i + 1]
<1>1. Head(s) \in S /\ Tail(s) \in Seq(S) /\ Len(Tail(s)) = Len(s) - 1
      /\ \A i \in 1 .. Len(Tail(s)) : Tail(s)[i] = s[i + 1]
  BY HeadTailProperties, Zenon
<1>2. /\ Len(s) \in Nat \ {0} /\ DOMAIN s = 1 .. Len(s) /\ DOMAIN Tail(s) = 1 .. Len(Tail(s))
      /\ \A i \in 1 .. Len(s) : s[i] \in S
  BY <1>1, EmptySeq, LenProperties, ElementOfSeq, Zenon
<1>3. Head(s) = s[1]
  OBVIOUS
<1>4. QED
  BY <1>1, <1>2, <1>3, Zenon

\* An element enters a channel (Send, and the answers)
LEMMA LastIn ==
  ASSUME NEW S, NEW s \in Seq(S), NEW e \in S
  PROVE  /\ Append(s, e) \in Seq(S)
         /\ Len(s) \in Nat /\ Len(Append(s, e)) = Len(s) + 1
         /\ DOMAIN s = 1 .. Len(s) /\ DOMAIN Append(s, e) = 1 .. Len(s) + 1
         /\ \A i \in 1 .. Len(s) : s[i] \in S /\ Append(s, e)[i] = s[i]
         /\ Append(s, e)[Len(s) + 1] = e
<1>1. /\ Append(s, e) \in Seq(S) /\ Len(Append(s, e)) = Len(s) + 1
      /\ \A i \in 1 .. Len(s) : Append(s, e)[i] = s[i]
      /\ Append(s, e)[Len(s) + 1] = e
  BY AppendProperties
<1>2. /\ Len(s) \in Nat /\ DOMAIN s = 1 .. Len(s)
      /\ DOMAIN Append(s, e) = 1 .. Len(Append(s, e))
      /\ \A i \in 1 .. Len(s) : s[i] \in S
  BY <1>1, LenProperties, ElementOfSeq, Zenon
<1>3. QED
  BY <1>1, <1>2, Zenon

-----------------------------------------------------------------------------
(* The cache                                                               *)

\* A sequence without its k-th element
LEMMA ExcludingElement ==
  ASSUME NEW S, NEW s \in Seq(S), NEW k \in 1 .. Len(s)
  PROVE  /\ Excluding(s, k) \in Seq(S)
         /\ DOMAIN Excluding(s, k) = 1 .. Len(s) - 1
         /\ \A i \in 1 .. Len(s) - 1 : i < k => Excluding(s, k)[i] = s[i]
         /\ \A i \in 1 .. Len(s) - 1 : i >= k => Excluding(s, k)[i] = s[i + 1]
<1> DEFINE a == SubSeq(s, 1, k - 1)
           b == SubSeq(s, k + 1, Len(s))
           r == a \o b
<1>1. Len(s) \in Nat /\ k \in Nat /\ k >= 1 /\ k <= Len(s)
  OBVIOUS
<1>2. a \in Seq(S) /\ Len(a) = k - 1 /\ \A i \in 1 .. k - 1 : a[i] = s[i]
  BY <1>1
<1>3. b \in Seq(S) /\ Len(b) = Len(s) - k /\ \A i \in 1 .. Len(s) - k : b[i] = s[k + i]
  BY <1>1
<1>4. Excluding(s, k) = r
  BY Zenon DEF Excluding
<1> HIDE DEF a, b
<1>5. /\ r \in Seq(S) /\ Len(r) = Len(a) + Len(b)
      /\ \A i \in 1 .. Len(a) + Len(b) : r[i] = IF i <= Len(a) THEN a[i] ELSE b[i - Len(a)]
  BY <1>2, <1>3, ConcatProperties, Zenon
<1>6. Len(r) = Len(s) - 1
  BY <1>1, <1>2, <1>3, <1>5
<1>7. DOMAIN r = 1 .. Len(r)
  BY <1>5, LenProperties, Zenon
<1>8. ASSUME NEW i \in 1 .. Len(s) - 1, i < k  PROVE r[i] = s[i]
  BY <1>1, <1>2, <1>3, <1>5, <1>8
<1>9. ASSUME NEW i \in 1 .. Len(s) - 1, i >= k  PROVE r[i] = s[i + 1]
  <2>1. i - (k - 1) \in 1 .. Len(s) - k /\ r[i] = b[i - (k - 1)] /\ k + (i - (k - 1)) = i + 1
    BY <1>1, <1>2, <1>3, <1>5, <1>9
  <2>2. QED
    BY <1>3, <2>1, Zenon
<1> HIDE DEF r
<1>10. QED
  BY <1>4, <1>5, <1>6, <1>7, <1>8, <1>9, Zenon

\* drop_uri takes the one entry of the uri out, if there is one
LEMMA DropUri ==
  ASSUME NEW cache \in Seq(CacheEntry), Unique(cache), NEW u
  PROVE  /\ drop_uri(cache, u) \in Seq(CacheEntry)
         /\ Unique(drop_uri(cache, u))
         /\ \A e : e \in Range(drop_uri(cache, u)) <=> e \in Range(cache) /\ e.uri # u
<1>1. CASE ~ \E i \in DOMAIN cache : cache[i].uri = u
  BY <1>1, Zenon DEF drop_uri, Range
<1>2. CASE \E i \in DOMAIN cache : cache[i].uri = u
  <2>1. PICK n : n = Len(cache)
    BY Zenon
  <2>2. n \in Nat /\ DOMAIN cache = 1 .. n
    BY <2>1, LenProperties, Zenon
  <2>3. PICK k \in 1 .. n : cache[k].uri = u /\ k = CHOOSE i \in DOMAIN cache : cache[i].uri = u
    BY <1>2, <2>2, Zenon
  <2>4. PICK c : c = drop_uri(cache, u)
    BY Zenon
  <2>5. c = Excluding(cache, k)
    BY <1>2, <2>3, <2>4, Zenon DEF drop_uri
  <2>6. /\ c \in Seq(CacheEntry) /\ DOMAIN c = 1 .. n - 1
        /\ \A i \in 1 .. n - 1 : i < k => c[i] = cache[i]
        /\ \A i \in 1 .. n - 1 : i >= k => c[i] = cache[i + 1]
    BY <2>1, <2>3, <2>5, ExcludingElement, Zenon
  <2>7. \A i \in 1 .. n - 1 :
          \E j \in 1 .. n : c[i] = cache[j] /\ j # k /\ j = (IF i < k THEN i ELSE i + 1)
    BY <2>2, <2>6
  <2>8. \A i, j \in 1 .. n : cache[i].uri = cache[j].uri => i = j
    BY <2>2, Zenon DEF Unique
  <2>9. Unique(c)
    <3> SUFFICES ASSUME NEW i \in 1 .. n - 1, NEW j \in 1 .. n - 1, c[i].uri = c[j].uri  PROVE i = j
      BY <2>6, Zenon DEF Unique
    <3>1. PICK p \in 1 .. n : c[i] = cache[p] /\ p = (IF i < k THEN i ELSE i + 1)
      BY <2>7, Zenon
    <3>2. PICK q \in 1 .. n : c[j] = cache[q] /\ q = (IF j < k THEN j ELSE j + 1)
      BY <2>7, Zenon
    <3>3. p = q
      BY <2>8, <3>1, <3>2, Zenon
    <3>4. QED
      BY <2>2, <3>1, <3>2, <3>3
  <2>10. ASSUME NEW e, e \in Range(c)  PROVE e \in Range(cache) /\ e.uri # u
    <3>1. PICK i \in 1 .. n - 1 : e = c[i]
      BY <2>6, <2>10, Zenon DEF Range
    <3>2. PICK j \in 1 .. n : e = cache[j] /\ j # k
      BY <2>7, <3>1, Zenon
    <3>3. QED
      BY <2>2, <2>3, <2>8, <3>2, Zenon DEF Range
  <2>11. ASSUME NEW e, e \in Range(cache), e.uri # u  PROVE e \in Range(c)
    <3>1. PICK j \in 1 .. n : e = cache[j] /\ j # k
      BY <2>2, <2>3, <2>11, Zenon DEF Range
    <3>2. \E i \in 1 .. n - 1 : c[i] = cache[j]
      <4>1. CASE j < k
        BY <2>2, <2>6, <4>1
      <4>2. CASE j > k
        <5>1. j - 1 \in 1 .. n - 1 /\ j - 1 >= k /\ (j - 1) + 1 = j
          BY <2>2, <4>2
        <5>2. QED
          BY <2>6, <5>1, Zenon
      <4>3. QED
        BY <2>2, <3>1, <4>1, <4>2
    <3>3. QED
      BY <2>6, <3>1, <3>2, Zenon DEF Range
  <2>12. QED
    BY <2>4, <2>6, <2>9, <2>10, <2>11, Zenon
<1>3. QED
  BY <1>1, <1>2, Zenon

\* A uri has one entry at most
LEMMA OneEntry ==
  ASSUME NEW cache \in Seq(CacheEntry), Unique(cache), NEW e \in Range(cache), NEW f \in Range(cache),
         e.uri = f.uri
  PROVE  e = f
BY Zenon DEF Unique, Range

\* What an entry of the cache carries
LEMMA EntryFields ==
  ASSUME NEW cache \in Seq(CacheEntry), NEW e \in Range(cache)
  PROVE  e \in CacheEntry /\ e.uri \in Documents /\ e.counter \in Nat \ {0} /\ e.data \in Streams
<1>1. PICK i \in DOMAIN cache : e = cache[i]
  BY Zenon DEF Range
<1>2. e \in CacheEntry
  BY <1>1, LenProperties, ElementOfSeq, Zenon
<1>3. QED
  BY <1>2, Zenon DEF CacheEntry

\* The next id of a document is a positive number
LEMMA NextCounter ==
  ASSUME NEW cache \in Seq(CacheEntry), NEW u
  PROVE  next_counter(cache, u) \in Nat \ {0}
<1>1. CASE Entries(cache, u) = {}
  BY <1>1 DEF next_counter
<1>2. CASE Entries(cache, u) # {}
  <2>1. PICK e \in Range(cache) : next_counter(cache, u) = e.counter + 1
    BY <1>2, Zenon DEF next_counter, Entries
  <2>2. e.counter \in Nat \ {0}
    BY EntryFields, Zenon
  <2>3. QED
    BY <2>1, <2>2
<1>3. QED
  BY <1>1, <1>2, Zenon

\* store replaces the entry of the uri, and may evict another one
LEMMA Stored ==
  ASSUME NEW cache \in Seq(CacheEntry), Unique(cache), NEW u \in Documents, NEW data \in Streams,
         NEW new, new = [uri |-> u, counter |-> next_counter(cache, u), data |-> data]
  PROVE  /\ store(cache, u, data) \in Seq(CacheEntry)
         /\ Unique(store(cache, u, data))
         /\ \A e \in Range(store(cache, u, data)) : e = new \/ (e \in Range(cache) /\ e.uri # u)
<1>1. PICK kept : kept = drop_uri(cache, u)
  BY Zenon
<1>2. /\ kept \in Seq(CacheEntry) /\ Unique(kept)
      /\ \A e : e \in Range(kept) <=> e \in Range(cache) /\ e.uri # u
  BY <1>1, DropUri, Zenon
<1>3. new \in CacheEntry /\ new.uri = u
  <2>1. next_counter(cache, u) \in Nat \ {0}
    BY NextCounter, Zenon
  <2>2. QED
    BY <2>1, Zenon DEF CacheEntry
<1>4. PICK full : full = Append(kept, new)
  BY Zenon
<1>5. /\ full \in Seq(CacheEntry) /\ Len(kept) \in Nat /\ Len(full) = Len(kept) + 1
      /\ DOMAIN kept = 1 .. Len(kept) /\ DOMAIN full = 1 .. Len(kept) + 1
      /\ \A i \in 1 .. Len(kept) : full[i] = kept[i]
      /\ full[Len(kept) + 1] = new
  BY <1>2, <1>3, <1>4, LastIn
<1>6. \A i \in 1 .. Len(kept) : full[i] \in Range(cache) /\ full[i].uri # u
  BY <1>2, <1>5, Zenon DEF Range
<1>7. Unique(full)
  <2> SUFFICES ASSUME NEW i \in 1 .. Len(kept) + 1, NEW j \in 1 .. Len(kept) + 1,
                      full[i].uri = full[j].uri
               PROVE  i = j
    BY <1>5, Zenon DEF Unique
  <2>1. CASE i \in 1 .. Len(kept) /\ j \in 1 .. Len(kept)
    BY <1>2, <1>5, <2>1, Zenon DEF Unique
  <2>2. (i \in 1 .. Len(kept) \/ i = Len(kept) + 1) /\ (j \in 1 .. Len(kept) \/ j = Len(kept) + 1)
    BY <1>5
  <2>3. QED
    BY <1>3, <1>5, <1>6, <2>1, <2>2, Zenon
<1>8. \A e \in Range(full) : e = new \/ (e \in Range(cache) /\ e.uri # u)
  <2>1. \A i \in 1 .. Len(kept) + 1 : i \in 1 .. Len(kept) \/ i = Len(kept) + 1
    BY <1>5
  <2>2. QED
    BY <1>5, <1>6, <2>1, Zenon DEF Range
<1>9. CASE store(cache, u, data) = full
  BY <1>5, <1>7, <1>8, <1>9, Zenon
<1>10. CASE store(cache, u, data) = Tail(full)
  <2>1. full # <<>>
    <3>1. Len(full) # 0
      BY <1>5
    <3>2. QED
      BY <3>1, EmptySeq, Zenon
  <2>2. PICK t : t = Tail(full)
    BY Zenon
  <2>3. /\ t \in Seq(CacheEntry) /\ DOMAIN t = 1 .. Len(full) - 1
        /\ \A i \in 1 .. Len(full) - 1 : t[i] = full[i + 1]
    BY <1>5, <2>1, <2>2, FirstOut, Zenon
  <2>4. \A i \in 1 .. Len(full) - 1 : i + 1 \in DOMAIN full /\ i \in Nat
    BY <1>5
  <2>5. Unique(t)
    <3> SUFFICES ASSUME NEW i \in 1 .. Len(full) - 1, NEW j \in 1 .. Len(full) - 1, t[i].uri = t[j].uri
                 PROVE  i = j
      BY <2>3, Zenon DEF Unique
    <3>1. i + 1 = j + 1
      BY <1>7, <2>3, <2>4, Zenon DEF Unique
    <3>2. QED
      BY <2>4, <3>1
  <2>6. \A e \in Range(t) : e \in Range(full)
    BY <2>3, <2>4, Zenon DEF Range
  <2>7. QED
    BY <1>8, <1>10, <2>2, <2>3, <2>5, <2>6, Zenon
<1>11. QED
  BY <1>1, <1>4, <1>9, <1>10, Zenon DEF store

-----------------------------------------------------------------------------
(* What each variable holds                                                *)

\* A new bundle has an empty cache and no completion target
LEMMA FreshBundle ==
  ASSUME NEW owner \in Owners, NEW indexable \in SUBSET BuildTargets, NEW connected \in BOOLEAN,
         NEW b, b = CoreServices(owner, indexable, connected)
  PROVE  /\ b \in Bundle /\ Unique(b.semantic_tokens_cache)
         /\ b.semantic_tokens_cache = <<>> /\ b.last_completion_target = NoTarget
         /\ b.uri_to_target = owner /\ b.indexable = indexable /\ b.bsp_connected = connected
<1>1. <<>> \in Seq(CacheEntry) /\ DOMAIN <<>> = {}
  OBVIOUS
<1>2. Unique(<<>>)
  BY <1>1, Zenon DEF Unique
<1>3. QED
  BY <1>1, <1>2, Zenon DEF CoreServices, Bundle, AnyTarget

\* Replacing the cache keeps the rest of the bundle
LEMMA CacheReplaced ==
  ASSUME services \in Bundle, NEW cache \in Seq(CacheEntry),
         services' = [services EXCEPT !.semantic_tokens_cache = cache]
  PROVE  /\ services' \in Bundle /\ services'.semantic_tokens_cache = cache
         /\ services'.uri_to_target = services.uri_to_target
         /\ services'.indexable = services.indexable
         /\ services'.bsp_connected = services.bsp_connected
         /\ services'.last_completion_target = services.last_completion_target
BY Zenon DEF Bundle

\* The editor starts with nothing open, the services with what the bootstrap found
LEMMA TypesInit == ServicesInit => ServicesTypes
<1> SUFFICES ASSUME ServicesInit PROVE ServicesTypes
  BY Zenon
<1>1. services \in Bundle /\ Unique(services.semantic_tokens_cache) /\ workspace \subseteq BuildTargets
  <2>1. [u \in Documents |-> NoTarget] \in Owners
    BY Zenon DEF Owners
  <2>2. CASE workspace = {} /\ services = CoreServices([u \in Documents |-> NoTarget], {}, FALSE)
    <3>1. PICK owner \in Owners : services = CoreServices(owner, {}, FALSE)
      BY <2>1, <2>2, Zenon
    <3>2. {} \in SUBSET BuildTargets /\ FALSE \in BOOLEAN
      OBVIOUS
    <3>3. services \in Bundle /\ Unique(services.semantic_tokens_cache)
      BY <3>1, <3>2, FreshBundle, Zenon
    <3>4. QED
      BY <2>2, <3>3, Zenon
  <2>3. CASE \E owner \in Owners, indexable \in SUBSET BuildTargets :
                 services = CoreServices(owner, indexable, TRUE) /\ workspace = indexable
    <3>1. PICK owner \in Owners, indexable \in SUBSET BuildTargets :
              services = CoreServices(owner, indexable, TRUE) /\ workspace = indexable
      BY <2>3, Zenon
    <3>2. services \in Bundle /\ Unique(services.semantic_tokens_cache)
      BY <3>1, FreshBundle, Zenon
    <3>3. QED
      BY <3>1, <3>2, Zenon
  <2>4. QED
    BY <2>2, <2>3, Zenon DEF ServicesInit
<1>2. inbox \in Seq(Message) /\ outbox \in Seq(Answer)
  BY EmptySeq, Zenon DEF ServicesInit
<1>3. used \in Budget
  BY ServicesConstants DEF ServicesInit, Texts, Budget
<1>4. \A u \in Documents : NoTokens \in [id : Nat, stream : Streams \cup {Garbled}]
  BY StreamNames DEF NoTokens
<1>5. QED
  BY <1>1, <1>2, <1>3, <1>4, TextNumbers, Zenon
  DEF ServicesInit, ServicesTypes, NotHeld, AnyTarget

\* A bound that is used a little more is still kept, and the next text is a text
LEMMA Used ==
  ASSUME used \in Budget
  PROVE  /\ Use("texts") => used' \in Budget /\ used.texts + 1 \in Texts /\ used.texts + 1 # Closed
         /\ Use("asks") => used' \in Budget
         /\ Use("reloads") => used' \in Budget
<1>1. used.texts \in Texts /\ used.asks \in 0 .. MaxAsks /\ used.reloads \in 0 .. MaxReloads
  BY Zenon DEF Budget
<1>2. /\ Use("texts") => used.texts < MaxTexts /\ used' = [used EXCEPT !.texts = used.texts + 1]
      /\ Use("asks") => used.asks < MaxAsks /\ used' = [used EXCEPT !.asks = used.asks + 1]
      /\ Use("reloads") => used.reloads < MaxReloads /\ used' = [used EXCEPT !.reloads = used.reloads + 1]
  BY Zenon DEF Use, Bounds, Budget
<1>3. /\ Use("texts") => used.texts + 1 \in Texts /\ used.texts + 1 # Closed
      /\ Use("asks") => used.asks + 1 \in 0 .. MaxAsks
      /\ Use("reloads") => used.reloads + 1 \in 0 .. MaxReloads
  BY <1>1, <1>2, ServicesConstants DEF Texts, Closed
<1>4. QED
  BY <1>1, <1>2, <1>3, Zenon DEF Budget

\* What the editor does keeps the types
LEMMA EditorTypes ==
  ASSUME ServicesTypes, Typing
  PROVE  ServicesTypes'
<1> USE ServicesConstants, TextNumbers
<1>1. PICK u \in Documents : Edit(u) \/ Save(u) \/ Close(u) \/ AskTokens(u)
  BY Zenon DEF Typing
<1>2. CASE Edit(u) \/ Save(u)
  <2>1. used.texts + 1 \in Texts \ {Closed} /\ used' \in Budget
    BY <1>2, Used, Zenon DEF Edit, Save, ServicesTypes
  <2>2. buffer' \in [Documents -> Texts]
    BY <1>2, <2>1, Zenon DEF Edit, Save, ServicesTypes
  <2>3. inbox' \in Seq(Message)
    <3>1. PICK m \in Message : inbox' = Append(inbox, m)
      BY <1>2, <2>1 DEF Edit, Save, Send, Message
    <3>2. QED
      BY <3>1, LastIn, Zenon DEF ServicesTypes
  <2>4. QED
    BY <1>2, <2>1, <2>2, <2>3, Zenon DEF Edit, Save, Send, serverVars, mirrorVars, ServicesTypes
<1>3. CASE Close(u)
  <2>1. buffer' \in [Documents -> Texts] /\ tokens' \in [Documents -> [id : Nat, stream : Streams \cup {Garbled}]]
    <3>1. NoTokens \in [id : Nat, stream : Streams \cup {Garbled}]
      BY StreamNames DEF NoTokens
    <3>2. QED
      BY <1>3, <3>1, Zenon DEF Close, ServicesTypes
  <2>2. inbox' \in Seq(Message)
    <3>1. PICK m \in Message : inbox' = Append(inbox, m)
      BY <1>3, Zenon DEF Close, Send, Message
    <3>2. QED
      BY <3>1, LastIn, Zenon DEF ServicesTypes
  <2>3. QED
    BY <1>3, <2>1, <2>2, Zenon DEF Close, Send, serverVars, mirrorVars, ServicesTypes
<1>4. CASE AskTokens(u)
  <2>1. used' \in Budget
    BY <1>4, Used, Zenon DEF AskTokens, ServicesTypes
  <2>2. inbox' \in Seq(Message)
    <3>1. tokens[u].id \in Nat
      BY Zenon DEF ServicesTypes
    <3>2. PICK m \in Message : inbox' = Append(inbox, m)
      BY <1>4, <3>1, Zenon DEF AskTokens, Send, Message
    <3>3. QED
      BY <3>2, LastIn, Zenon DEF ServicesTypes
  <2>3. asked' \subseteq Documents
    BY <1>4, Zenon DEF AskTokens, ServicesTypes
  <2>4. QED
    BY <1>4, <2>1, <2>2, <2>3, Zenon DEF AskTokens, Send, serverVars, mirrorVars, ServicesTypes
<1>5. QED
  BY <1>1, <1>2, <1>3, <1>4, Zenon

\* What an answer makes of the tokens the editor holds: nothing, or what it carries,
\* or the marker when it is a splice that does not fit
LEMMA Received ==
  ASSUME ServicesTypes, Receive, NEW a, a = outbox[1]
  PROVE  /\ a \in Answer /\ outbox' = Tail(outbox) /\ outbox # <<>>
         /\ asked' = asked \ {a.uri}
         /\ a.is = "null" => tokens' = tokens
         /\ a.is = "full" \/ (a.is = "delta" /\ a.base = tokens[a.uri].stream) =>
                tokens' = [tokens EXCEPT ![a.uri] = [id |-> a.id, stream |-> a.stream]]
         /\ a.is = "delta" /\ a.base # tokens[a.uri].stream =>
                tokens' = [tokens EXCEPT ![a.uri] = [id |-> a.id, stream |-> Garbled]]
<1>1. outbox # <<>> /\ outbox' = Tail(outbox)
  BY Zenon DEF Receive
<1>2. Head(outbox) = a /\ a \in Answer
  BY <1>1, FirstOut, Zenon DEF ServicesTypes
<1>3. a.is \in {"null", "full", "delta"}
  BY <1>2, AnswerFields, Zenon
<1>4. QED
  BY <1>1, <1>2, <1>3, Zenon DEF Receive

\* Receiving or ignoring an answer keeps the types
LEMMA AnswerTypes ==
  ASSUME ServicesTypes, Receive \/ Discard
  PROVE  ServicesTypes'
<1>1. outbox # <<>> /\ outbox' = Tail(outbox) /\ asked' \subseteq asked
      /\ UNCHANGED <<buffer, inbox, serverVars, used>>
  BY Zenon DEF Receive, Discard
<1>2. outbox' \in Seq(Answer)
  BY <1>1, FirstOut, Zenon DEF ServicesTypes
<1>3. tokens' \in [Documents -> [id : Nat, stream : Streams \cup {Garbled}]]
  <2>1. CASE Discard
    BY <2>1, Zenon DEF Discard, ServicesTypes
  <2>2. CASE Receive
    <3>1. PICK a : a = outbox[1]
      BY Zenon
    <3>2. a \in Answer
      BY <2>2, <3>1, Received, Zenon
    <3>3. CASE a.is = "null"
      BY <2>2, <3>1, <3>3, Received, Zenon DEF ServicesTypes
    <3>4. CASE a.is # "null"
      <4>1. a.uri \in Documents /\ a.id \in Nat /\ a.stream \in Streams /\ a.is \in {"full", "delta"}
        BY <3>2, <3>4, AnswerFields, Zenon
      <4>2. \E x \in Streams \cup {Garbled} : tokens' = [tokens EXCEPT ![a.uri] = [id |-> a.id, stream |-> x]]
        BY <2>2, <3>1, <4>1, Received, Zenon
      <4>3. QED
        BY <4>1, <4>2 DEF ServicesTypes
    <3>5. QED
      BY <3>3, <3>4, Zenon
  <2>3. QED
    BY <2>1, <2>2, Zenon
<1>4. QED
  BY <1>1, <1>2, <1>3, Zenon DEF ServicesTypes, serverVars, mirrorVars

\* Taking a message off the inbox
LEMMA Taken ==
  ASSUME ServicesTypes, NEW is, Take(is), NEW m, m = inbox[1]
  PROVE  /\ m \in Message /\ m.is = is /\ Head(inbox) = m /\ m.uri \in Documents
         /\ inbox # <<>> /\ inbox' = Tail(inbox) /\ inbox' \in Seq(Message)
<1>1. inbox # <<>> /\ inbox' = Tail(inbox) /\ Head(inbox).is = is
  BY Zenon DEF Take
<1>2. Head(inbox) = m /\ m \in Message /\ Tail(inbox) \in Seq(Message)
  BY <1>1, FirstOut, Zenon DEF ServicesTypes
<1>3. QED
  BY <1>1, <1>2, MessageFields, Zenon

Held == [target : AnyTarget, text : Texts]

\* The owner of a document in a bundle is a target, or there is none
LEMMA Owned ==
  ASSUME services \in Bundle
  PROVE  /\ services.uri_to_target \in Owners
         /\ services.indexable \subseteq BuildTargets
         /\ services.bsp_connected \in BOOLEAN
         /\ services.last_completion_target \in AnyTarget
         /\ services.semantic_tokens_cache \in Seq(CacheEntry)
         /\ \A u \in Documents : services.uri_to_target[u] \in AnyTarget
BY Zenon DEF Bundle, Owners, AnyTarget

\* Only what is sent can be refused
LEMMA OnlySentRefused ==
  ASSUME NEW us, NEW refused \in Refusals(us)
  PROVE  refused \subseteq us
BY Zenon DEF Refusals

\* What opening buffers makes of a document: one that is sent on is mirrored, or
\* refused, and the others stay as they are
OpenedAt(v, us, owner, registered, texts) ==
    \/ /\ v \in us /\ owner[v] \in registered
       /\ island'[v] = [target |-> owner[v], text |-> texts[v]]
       /\ v \notin stale' /\ v \notin unplaced'
    \/ /\ v \in us /\ owner[v] \in registered
       /\ island'[v] = island[v] /\ v \in stale' /\ v \in unplaced'
    \/ /\ ~ (v \in us /\ owner[v] \in registered)
       /\ island'[v] = island[v]
       /\ v \in stale' <=> v \in stale
       /\ v \in unplaced' <=> v \in unplaced

\* That is what it does
LEMMA OpensAt ==
  ASSUME NEW us, NEW owner, NEW registered, NEW texts, IslandOpens(us, owner, registered, texts),
         NEW v \in Documents
  PROVE  OpenedAt(v, us, owner, registered, texts)
<1>1. PICK sent : sent = {u \in us : owner[u] \in registered}
  BY Zenon
<1>2. PICK refused \in Refusals(sent) :
          /\ island' = [u \in Documents |-> IF u \in sent \ refused
                                         THEN [target |-> owner[u], text |-> texts[u]] ELSE island[u]]
          /\ stale' = (stale \ sent) \cup refused
          /\ unplaced' = (unplaced \ sent) \cup refused
  BY <1>1, Zenon DEF IslandOpens
<1>3. refused \subseteq sent /\ (v \in sent <=> v \in us /\ owner[v] \in registered)
  BY <1>1, OnlySentRefused, Zenon
<1>4. island'[v] = IF v \in sent \ refused THEN [target |-> owner[v], text |-> texts[v]] ELSE island[v]
  BY <1>2, Zenon
<1>5. QED
  BY <1>2, <1>3, <1>4, Zenon DEF OpenedAt

\* What opening buffers makes of the island
LEMMA OpensTypes ==
  ASSUME island \in [Documents -> Held], NEW owner \in Owners, NEW registered, NEW texts \in [Documents -> Texts],
         NEW us, IslandOpens(us, owner, registered, texts)
  PROVE  island' \in [Documents -> Held]
<1>1. ASSUME NEW v \in Documents
      PROVE  island[v] \in Held /\ [target |-> owner[v], text |-> texts[v]] \in Held
  BY Zenon DEF Held, Owners, AnyTarget
<1>2. PICK sent, refused : island' = [u \in Documents |-> IF u \in sent \ refused
                                         THEN [target |-> owner[u], text |-> texts[u]] ELSE island[u]]
  BY Zenon DEF IslandOpens
<1>3. QED
  BY <1>1, <1>2, Zenon

\* What a change or a close makes of the island
LEMMA ChangeTypes ==
  ASSUME island \in [Documents -> Held], NEW u \in Documents, NEW text \in Texts
  PROVE  /\ IslandChanges(u, text) => island' \in [Documents -> Held]
         /\ IslandCloses(u) => island' \in [Documents -> Held]
<1>1. NotHeld \in Held
  BY TextNumbers, Zenon DEF Held, NotHeld, AnyTarget
<1>2. [island[u] EXCEPT !.text = text] \in Held
  BY Zenon DEF Held
<1>3. /\ [island EXCEPT ![u].text = text] \in [Documents -> Held]
      /\ [island EXCEPT ![u] = NotHeld] \in [Documents -> Held]
  BY <1>1, <1>2, Zenon
<1>4. /\ IslandChanges(u, text) => island' = island \/ island' = [island EXCEPT ![u].text = text]
      /\ IslandCloses(u) => island' = island \/ island' = [island EXCEPT ![u] = NotHeld]
  BY Zenon DEF IslandChanges, IslandCloses
<1>5. QED
  BY <1>3, <1>4, Zenon

\* The handlers of notifications keep the types
LEMMA NotificationTypes ==
  ASSUME ServicesTypes, on_did_open \/ on_did_change \/ did_save_text \/ on_did_close
  PROVE  ServicesTypes'
<1>1. PICK m : m = inbox[1]
  BY Zenon
<1>2. island \in [Documents -> Held] /\ services \in Bundle
  BY Zenon DEF ServicesTypes, Held
<1>3. CASE on_did_open \/ on_did_change
  <2>1. /\ m.is \in {"didOpen", "didChange"} /\ Head(inbox) = m /\ m \in Message
        /\ inbox' \in Seq(Message)
        /\ UNCHANGED <<editorVars, outbox, ready, services, workspace, rows, used>>
    BY <1>1, <1>3, Taken, Zenon DEF on_did_open, on_did_change
  <2>2. m.uri \in Documents /\ m.text \in Texts
    BY <2>1, MessageFields, Zenon
  <2>3. docs' = [docs EXCEPT ![m.uri] = m.text]
    BY <1>3, <2>1, Zenon DEF on_did_open, on_did_change
  <2>4. docs' \in [Documents -> Texts]
    BY <2>2, <2>3, Zenon DEF ServicesTypes
  <2>5. \/ island' = island \/ IslandOpen(m.uri) \/ IslandChanges(m.uri, m.text)
    BY <1>3, <2>1, Zenon DEF on_did_open, on_did_change
  <2>6. island' \in [Documents -> Held]
    <3>1. CASE IslandOpen(m.uri)
      BY <1>2, <2>4, <3>1, Owned, OpensTypes, Zenon DEF IslandOpen
    <3>2. CASE IslandChanges(m.uri, m.text)
      BY <1>2, <2>2, <3>2, ChangeTypes, Zenon
    <3>3. QED
      BY <1>2, <2>5, <3>1, <3>2, Zenon
  <2>7. QED
    BY <2>1, <2>4, <2>6, Zenon DEF ServicesTypes, editorVars, Held
<1>4. CASE on_did_close
  <2>1. /\ m.is = "didClose" /\ Head(inbox) = m /\ m.uri \in Documents
        /\ inbox' \in Seq(Message)
        /\ UNCHANGED <<editorVars, outbox, ready, workspace, rows, used>>
    BY <1>1, <1>4, Taken, Zenon DEF on_did_close
  <2>2. docs' = [docs EXCEPT ![m.uri] = Closed]
    BY <1>4, <2>1, Zenon DEF on_did_close
  <2>3. docs' \in [Documents -> Texts]
    BY <2>1, <2>2, TextNumbers, Zenon DEF ServicesTypes
  <2>4. island' \in [Documents -> Held]
    <3>1. island' = island \/ IslandCloses(m.uri)
      BY <1>4, <2>1, Zenon DEF on_did_close
    <3>2. QED
      BY <1>2, <2>1, <3>1, ChangeTypes, TextNumbers, Zenon
  <2>5. services' \in Bundle /\ Unique(services'.semantic_tokens_cache)
    <3>1. CASE ready
      <4>1. services' = [services EXCEPT !.semantic_tokens_cache = drop_uri(services.semantic_tokens_cache, m.uri)]
        BY <1>4, <2>1, <3>1, Zenon DEF on_did_close
      <4>2. /\ drop_uri(services.semantic_tokens_cache, m.uri) \in Seq(CacheEntry)
            /\ Unique(drop_uri(services.semantic_tokens_cache, m.uri))
        BY <2>1, <1>2, Owned, DropUri, Zenon DEF ServicesTypes
      <4>3. QED
        BY <4>1, <4>2, <1>2, CacheReplaced, Zenon
    <3>2. CASE ~ ready
      BY <1>4, <3>2, Zenon DEF on_did_close, ServicesTypes
    <3>3. QED
      BY <3>1, <3>2, Zenon
  <2>6. QED
    BY <2>1, <2>3, <2>4, <2>5, Zenon DEF ServicesTypes, editorVars, Held
<1>5. CASE did_save_text
  <2>1. /\ m.is = "didSave" /\ Head(inbox) = m /\ m \in Message /\ inbox' \in Seq(Message)
        /\ UNCHANGED <<editorVars, outbox, island, ready, services, workspace, rows, used>>
    BY <1>1, <1>5, Taken, Zenon DEF did_save_text
  <2>2. m.uri \in Documents /\ m.text \in Texts
    BY <2>1, MessageFields, Zenon
  <2>3. docs' = docs \/ docs' = [docs EXCEPT ![m.uri] = m.text]
    BY <1>5, <2>1, Zenon DEF did_save_text
  <2>4. docs' \in [Documents -> Texts]
    BY <2>2, <2>3, Zenon DEF ServicesTypes
  <2>5. QED
    BY <2>1, <2>4, Zenon DEF ServicesTypes, editorVars
<1>6. QED
  BY <1>3, <1>4, <1>5, Zenon

NullAnswer(u) == [is |-> "null", uri |-> u]

\* The replies to a token request: null, which leaves the bundle, or a stream under
\* the next id, as a splice only of the entry that the request names, which the
\* cache keeps
TokensReply(m, cache) ==
    \/ outbox' = Append(outbox, NullAnswer(m.uri)) /\ services' = services
    \/ \E a \in Answer :
          /\ outbox' = Append(outbox, a)
          /\ a.is \in {"full", "delta"} /\ a.uri = m.uri
          /\ a.id = next_counter(cache, m.uri)
          /\ a.is = "delta" => \E e \in Range(cache) :
                 e.uri = m.uri /\ e.counter = m.previousResultId /\ a.base = e.data
          /\ services' = [services EXCEPT !.semantic_tokens_cache = store(cache, m.uri, a.stream)]

\* What the token handler does
LEMMA TokensAnswered ==
  ASSUME ServicesTypes, semantic_tokens_full_delta, NEW m, m = inbox[1],
         NEW cache, cache = services.semantic_tokens_cache
  PROVE  /\ ready /\ m \in Message /\ m.is = "tokens" /\ m.uri \in Documents /\ m.previousResultId \in Nat
         /\ inbox # <<>> /\ inbox' = Tail(inbox) /\ inbox' \in Seq(Message)
         /\ UNCHANGED <<editorVars, docs, island, stale, unplaced, ready, workspace, rows, used>>
         /\ TokensReply(m, cache)
<1>1. /\ ready /\ m \in Message /\ m.is = "tokens" /\ m.uri \in Documents /\ Head(inbox) = m
      /\ inbox # <<>> /\ inbox' = Tail(inbox) /\ inbox' \in Seq(Message)
      /\ UNCHANGED <<editorVars, docs, island, stale, unplaced, ready, workspace, rows, used>>
  BY Taken, Zenon DEF semantic_tokens_full_delta
<1>2. m.previousResultId \in Nat
  BY <1>1, MessageFields, Zenon
<1>3. CASE Outcome("semanticTokens", m.uri) # "value"
  BY <1>1, <1>2, <1>3, Zenon DEF semantic_tokens_full_delta, NullAnswer, TokensReply
<1>4. CASE Outcome("semanticTokens", m.uri) = "value"
  <2>1. PICK known : known = previous(cache, m.uri, m.previousResultId)
    BY Zenon
  <2>2. PICK id : id = next_counter(cache, m.uri)
    BY Zenon
  <2>3. PICK e : e = CHOOSE entry \in known : TRUE
    BY Zenon
  <2>4. island[m.uri].text \in Texts /\ docs[m.uri] \in Texts
    BY <1>1, Zenon DEF ServicesTypes
  <2>5. PICK data \in {NoNodes, <<island[m.uri].text, docs[m.uri]>>} :
          /\ outbox' = Append(outbox,
               IF known = {} THEN [is |-> "full", uri |-> m.uri, id |-> id, stream |-> data]
               ELSE [is |-> "delta", uri |-> m.uri, id |-> id, stream |-> data, base |-> e.data])
          /\ services' = [services EXCEPT !.semantic_tokens_cache = store(cache, m.uri, data)]
    BY <1>1, <1>4, <2>1, <2>2, <2>3, Zenon DEF semantic_tokens_full_delta
  <2>6. cache \in Seq(CacheEntry) /\ data \in Streams
    <3>1. cache \in Seq(CacheEntry)
      BY Owned, Zenon DEF ServicesTypes
    <3>2. data \in Streams
      BY <2>4, StreamNames DEF Streams
    <3>3. QED
      BY <3>1, <3>2, Zenon
  <2>7. id \in Nat \ {0}
    BY <2>2, <2>6, NextCounter, Zenon
  <2>8. CASE known = {}
    <3>1. PICK a : a = [is |-> "full", uri |-> m.uri, id |-> id, stream |-> data]
      BY Zenon
    <3>2. a \in Answer /\ a.is = "full" /\ a.uri = m.uri /\ a.id = id /\ a.stream = data
      BY <3>1, <1>1, <2>6, <2>7, Zenon DEF Answer
    <3>3. outbox' = Append(outbox, a)
      BY <2>5, <2>8, <3>1, Zenon
    <3>4. a.is # "delta"
      BY <3>2, Zenon
    <3>5. QED
      BY <1>1, <1>2, <2>2, <2>5, <3>2, <3>3, <3>4, Zenon DEF TokensReply
  <2>9. CASE known # {}
    <3>1. e \in known
      BY <2>3, <2>9, Zenon
    <3>2. e \in Range(cache) /\ e.uri = m.uri /\ e.counter = m.previousResultId
      BY <3>1, <2>1, Zenon DEF previous, Entries
    <3>3. e.data \in Streams
      BY <2>6, <3>2, EntryFields, Zenon
    <3>4. PICK a : a = [is |-> "delta", uri |-> m.uri, id |-> id, stream |-> data, base |-> e.data]
      BY Zenon
    <3>5. a \in Answer /\ a.is = "delta" /\ a.uri = m.uri /\ a.id = id /\ a.stream = data /\ a.base = e.data
      BY <3>3, <3>4, <1>1, <2>6, <2>7, Zenon DEF Answer
    <3>6. outbox' = Append(outbox, a)
      BY <2>5, <2>9, <3>4, Zenon
    <3>7. QED
      BY <1>1, <1>2, <2>2, <2>5, <3>2, <3>5, <3>6, Zenon DEF TokensReply
  <2>10. QED
    BY <2>8, <2>9, Zenon
<1>5. QED
  BY <1>3, <1>4, Zenon

\* The handlers of token requests keep the types
LEMMA TokensTypes ==
  ASSUME ServicesTypes, semantic_tokens_full_delta \/ pre_ready
  PROVE  ServicesTypes'
<1>0. \A u \in Documents : NullAnswer(u) \in Answer
  BY Zenon DEF NullAnswer, Answer
<1>1. CASE pre_ready
  <2>1. /\ Take("tokens") /\ outbox' = Append(outbox, NullAnswer(Head(inbox).uri))
        /\ UNCHANGED <<editorVars, serverVars, used>>
    BY <1>1, Zenon DEF pre_ready, Take, NullAnswer
  <2>2. inbox' \in Seq(Message) /\ Head(inbox).uri \in Documents
    BY <2>1, Taken, Zenon
  <2>3. outbox' \in Seq(Answer)
    BY <1>0, <2>1, <2>2, LastIn, Zenon DEF ServicesTypes
  <2>4. QED
    BY <2>1, <2>2, <2>3, Zenon DEF ServicesTypes, editorVars, serverVars, mirrorVars
<1>2. CASE semantic_tokens_full_delta
  <2>1. PICK m : m = inbox[1]
    OBVIOUS
  <2>2. PICK cache : cache = services.semantic_tokens_cache
    BY Zenon
  <2>3. /\ m.uri \in Documents /\ inbox' \in Seq(Message)
        /\ UNCHANGED <<editorVars, docs, island, stale, unplaced, ready, workspace, rows, used>>
        /\ \/ outbox' = Append(outbox, NullAnswer(m.uri)) /\ services' = services
           \/ \E a \in Answer :
                 /\ outbox' = Append(outbox, a) /\ a.is \in {"full", "delta"}
                 /\ services' = [services EXCEPT !.semantic_tokens_cache = store(cache, m.uri, a.stream)]
    <3>1. TokensReply(m, cache)
      BY <1>2, <2>1, <2>2, TokensAnswered, Zenon
    <3>2. QED
      BY <1>2, <3>1, <2>1, <2>2, TokensAnswered, Zenon DEF TokensReply
  <2>4. outbox' \in Seq(Answer)
    <3>1. PICK a \in Answer : outbox' = Append(outbox, a)
      BY <1>0, <2>3, Zenon
    <3>2. QED
      BY <3>1, LastIn, Zenon DEF ServicesTypes
  <2>5. cache \in Seq(CacheEntry) /\ Unique(cache) /\ services \in Bundle
    BY <2>2, <2>3, Owned, Zenon DEF ServicesTypes
  <2>6. ASSUME NEW a \in Answer, a.is \in {"full", "delta"}
        PROVE  store(cache, m.uri, a.stream) \in Seq(CacheEntry) /\ Unique(store(cache, m.uri, a.stream))
    <3>1. a.stream \in Streams
      BY <2>6, AnswerFields, Zenon
    <3>2. QED
      BY <2>3, <2>5, <3>1, Stored, Zenon
  <2>7. services' \in Bundle /\ Unique(services'.semantic_tokens_cache)
    BY <2>2, <2>3, <2>5, <2>6, CacheReplaced, Zenon DEF ServicesTypes
  <2>8. QED
    BY <2>3, <2>4, <2>7, Zenon DEF ServicesTypes, editorVars
<1>3. QED
  BY <1>1, <1>2, Zenon

\* A reload either keeps everything but its count, or refetches
LEMMA Reloaded ==
  ASSUME NEW owner, NEW indexable, reload_build_model(owner, indexable)
  PROVE  /\ ready /\ services.bsp_connected /\ Use("reloads")
         /\ UNCHANGED <<editorVars, inbox, outbox, docs, ready>>
         /\ \/ UNCHANGED <<services, island, stale, unplaced, workspace>>
            \/ /\ services' = CoreServices(owner, indexable, TRUE)
               /\ IslandOpens(OpenDocuments, owner, indexable, docs)
               /\ workspace' = IF indexable = {} THEN workspace ELSE indexable
BY Zenon DEF reload_build_model, Refetched, replay_open_buffers

\* Adopting a bundle, replacing it and completing keep the types
LEMMA BundleTypes ==
  ASSUME ServicesTypes,
         \/ replay \/ (\E u \in Documents : completion(u) \/ pc_value(u))
         \/ \E owner \in Owners, indexable \in SUBSET BuildTargets : reload_build_model(owner, indexable)
  PROVE  ServicesTypes'
<1>0. /\ island \in [Documents -> Held] /\ services \in Bundle /\ docs \in [Documents -> Texts]
      /\ used \in Budget /\ workspace \subseteq BuildTargets
  BY Zenon DEF ServicesTypes, Held
<1>1. CASE replay
  <2>1. island' \in [Documents -> Held]
    BY <1>0, <1>1, Owned, OpensTypes, Zenon DEF replay, replay_open_buffers
  <2>2. ready' \in BOOLEAN /\ UNCHANGED <<editorVars, inbox, outbox, docs, services, workspace, rows, used>>
    BY <1>1, Zenon DEF replay
  <2>3. QED
    BY <2>1, <2>2, Zenon DEF ServicesTypes, editorVars, Held
<1>2. ASSUME NEW u \in Documents, completion(u)
      PROVE  ServicesTypes'
  <2>1. /\ UNCHANGED <<editorVars, inbox, outbox, docs, island, ready, workspace, rows, used>>
        /\ services' = [services EXCEPT !.last_completion_target = services.uri_to_target[u]]
    BY <1>2, Zenon DEF completion
  <2>2. services.uri_to_target[u] \in AnyTarget
    BY <1>0, Owned, Zenon
  <2>3. services' \in Bundle /\ services'.semantic_tokens_cache = services.semantic_tokens_cache
    BY <1>0, <2>1, <2>2, Zenon DEF Bundle
  <2>4. QED
    BY <2>1, <2>3, Zenon DEF ServicesTypes, editorVars
<1>3. ASSUME NEW owner \in Owners, NEW indexable \in SUBSET BuildTargets, reload_build_model(owner, indexable)
      PROVE  ServicesTypes'
  <2>1. UNCHANGED <<editorVars, inbox, outbox, docs, ready>> /\ used' \in Budget
    BY <1>0, <1>3, Reloaded, Used, Zenon
  <2>2. CASE UNCHANGED <<services, island, stale, unplaced, workspace>>
    BY <2>1, <2>2, Zenon DEF ServicesTypes, editorVars
  <2>3. CASE /\ services' = CoreServices(owner, indexable, TRUE)
             /\ IslandOpens(OpenDocuments, owner, indexable, docs)
             /\ workspace' = IF indexable = {} THEN workspace ELSE indexable
    <3>1. services' \in Bundle /\ Unique(services'.semantic_tokens_cache)
      BY <2>3, FreshBundle, Zenon
    <3>2. island' \in [Documents -> Held]
      BY <1>0, <2>3, OpensTypes, Zenon
    <3>3. workspace' \subseteq BuildTargets
      BY <1>0, <2>3, Zenon
    <3>4. QED
      BY <2>1, <3>1, <3>2, <3>3, Zenon DEF ServicesTypes, editorVars, Held
  <2>4. QED
    BY <1>3, <2>2, <2>3, Reloaded, Zenon
<1>4. ASSUME NEW u \in Documents, pc_value(u)
      PROVE  ServicesTypes'
  BY <1>4, Zenon DEF pc_value, ServicesTypes, editorVars
<1>5. QED
  BY <1>1, <1>2, <1>3, <1>4, Zenon

\* Every step keeps the types
LEMMA TypesStep == ServicesTypes /\ [ServicesNext]_servicesVars => ServicesTypes'
<1> SUFFICES ASSUME ServicesTypes, [ServicesNext]_servicesVars PROVE ServicesTypes'
  BY Zenon
<1>1. CASE UNCHANGED servicesVars
  BY <1>1, Zenon DEF servicesVars, mirrorVars, ServicesTypes
<1>2. CASE ServicesNext
  BY <1>2, EditorTypes, AnswerTypes, NotificationTypes, TokensTypes, BundleTypes, Zenon
  DEF ServicesNext, Handling
<1>3. QED
  BY <1>1, <1>2, Zenon

-----------------------------------------------------------------------------
(* The model in force                                                      *)

\* A bootstrap with a build server ingests what it found, one without is not connected
LEMMA ModelInit == ServicesInit => ModelInv
<1> SUFFICES ASSUME ServicesInit PROVE ModelInv
  OBVIOUS
<1>1. CASE \E owner \in Owners, indexable \in SUBSET BuildTargets :
               services = CoreServices(owner, indexable, TRUE) /\ workspace = indexable
  BY <1>1 DEF ModelInv, CoreServices
<1>2. CASE services = CoreServices([u \in Documents |-> NoTarget], {}, FALSE)
  BY <1>2, Zenon DEF ModelInv, CoreServices
<1>3. QED
  BY <1>1, <1>2, Zenon DEF ServicesInit

\* Every step keeps the bundle and the workspace of one model
LEMMA ModelStep == ServicesTypes /\ ModelInv /\ [ServicesNext]_servicesVars => ModelInv'
<1> SUFFICES ASSUME ServicesTypes, ModelInv, [ServicesNext]_servicesVars PROVE ModelInv'
  BY Zenon
<1>0. services \in Bundle
  BY Zenon DEF ServicesTypes
<1>1. ASSUME UNCHANGED <<services, workspace>>
      PROVE  ModelInv'
  BY <1>1, Zenon DEF ModelInv
<1>2. ASSUME NEW cache \in Seq(CacheEntry), workspace' = workspace,
             services' = [services EXCEPT !.semantic_tokens_cache = cache]
      PROVE  ModelInv'
  BY <1>0, <1>2, CacheReplaced, Zenon DEF ModelInv
<1>3. CASE Typing \/ Receive \/ Discard
  BY <1>1, <1>3, Zenon DEF Typing, Edit, Save, Close, AskTokens, Send, Receive, Discard, serverVars
<1>4. CASE \/ on_did_open \/ on_did_change \/ did_save_text \/ pre_ready \/ replay
           \/ \E u \in Documents : pc_value(u)
  BY <1>1, <1>4, Zenon DEF on_did_open, on_did_change, did_save_text, pre_ready, replay, pc_value, serverVars
<1>5. CASE on_did_close
  <2>1. PICK u : u = Head(inbox).uri
    BY Zenon
  <2>2. drop_uri(services.semantic_tokens_cache, u) \in Seq(CacheEntry)
    BY <1>0, Owned, DropUri, Zenon DEF ServicesTypes
  <2>3. /\ workspace' = workspace
        /\ \/ services' = services
           \/ services' = [services EXCEPT !.semantic_tokens_cache = drop_uri(services.semantic_tokens_cache, u)]
    BY <1>5, <2>1, Zenon DEF on_did_close
  <2>4. QED
    BY <1>1, <1>2, <2>2, <2>3, Zenon
<1>6. CASE semantic_tokens_full_delta
  <2>1. PICK m : m = inbox[1]
    BY Zenon
  <2>2. PICK cache : cache = services.semantic_tokens_cache
    BY Zenon
  <2>3. /\ workspace' = workspace /\ m.uri \in Documents
        /\ \/ services' = services
           \/ \E a \in Answer :
                 /\ a.is \in {"full", "delta"}
                 /\ services' = [services EXCEPT !.semantic_tokens_cache = store(cache, m.uri, a.stream)]
    <3>1. TokensReply(m, cache)
      BY <1>6, <2>1, <2>2, TokensAnswered, Zenon
    <3>2. QED
      BY <1>6, <3>1, <2>1, <2>2, TokensAnswered, Zenon DEF TokensReply
  <2>4. cache \in Seq(CacheEntry) /\ Unique(cache)
    BY <1>0, <2>2, <2>3, Owned, Zenon DEF ServicesTypes
  <2>5. ASSUME NEW a \in Answer, a.is \in {"full", "delta"}
        PROVE  store(cache, m.uri, a.stream) \in Seq(CacheEntry)
    <3>1. a.stream \in Streams
      BY <2>5, AnswerFields, Zenon
    <3>2. QED
      BY <2>3, <2>4, <3>1, Stored, Zenon
  <2>6. QED
    BY <1>1, <1>2, <2>3, <2>5, Zenon
<1>7. ASSUME NEW u \in Documents, completion(u)
      PROVE  ModelInv'
  <2>1. services' = [services EXCEPT !.last_completion_target = services.uri_to_target[u]] /\ workspace' = workspace
    BY <1>7, Zenon DEF completion
  <2>2. /\ services'.last_completion_target = services.uri_to_target[u]
        /\ services'.uri_to_target = services.uri_to_target /\ services'.indexable = services.indexable
        /\ services'.bsp_connected = services.bsp_connected
    BY <1>0, <2>1, Zenon DEF Bundle
  <2>3. QED
    BY <2>1, <2>2, Zenon DEF ModelInv
<1>8. ASSUME NEW owner \in Owners, NEW indexable \in SUBSET BuildTargets, reload_build_model(owner, indexable)
      PROVE  ModelInv'
  <2>1. CASE UNCHANGED <<services, island, stale, unplaced, workspace>>
    BY <1>1, <2>1, Zenon
  <2>2. CASE /\ services' = CoreServices(owner, indexable, TRUE)
             /\ workspace' = IF indexable = {} THEN workspace ELSE indexable
    <3>1. services'.indexable = indexable /\ services'.last_completion_target = NoTarget
      BY <2>2, Zenon DEF CoreServices
    <3>2. QED
      BY <2>2, <3>1, Zenon DEF ModelInv
  <2>3. QED
    BY <1>8, <2>1, <2>2, Reloaded, Zenon
<1>9. CASE UNCHANGED servicesVars
  BY <1>1, <1>9, Zenon DEF servicesVars
<1>10. QED
  BY <1>3, <1>4, <1>5, <1>6, <1>7, <1>8, <1>9, Zenon DEF ServicesNext, Handling

\* The gate of a method refuses exactly what the model does not own through an
\* indexable target
LEMMA ModelDecides == ServicesTypes /\ ModelInv => ModelInForce
<1> SUFFICES ASSUME ServicesTypes, ModelInv PROVE ModelInForce
  BY Zenon
<1>1. ASSUME services.bsp_connected, services.indexable # {}, NEW u \in Documents, NEW method \in Gated
      PROVE  (Outcome(method, u) = "NoSemanticdb") = (services.uri_to_target[u] \notin services.indexable)
  <2>1. services.indexable \subseteq BuildTargets
    BY Owned, Zenon DEF ServicesTypes
  <2>2. services.uri_to_target[u] \in services.indexable => services.uri_to_target[u] # NoTarget
    BY <2>1, ServicesConstants, Zenon
  <2>3. workspace = services.indexable
    BY <1>1, Zenon DEF ModelInv
  <2>4. require_semanticdb(u) <=> services.uri_to_target[u] \in services.indexable
    BY <1>1, <2>2, <2>3, Zenon DEF require_semanticdb
  <2>5. Outcome(method, u) = "NoSemanticdb" <=> ~ require_semanticdb(u)
    BY <1>1, Zenon DEF Outcome
  <2>6. QED
    BY <2>4, <2>5, Zenon
<1>2. QED
  BY <1>1, Zenon DEF ModelInForce, ModelInv, resolve_enriched

\* Gates and completion resolves go by the model in force, whatever reloads and
\* failed reloads came before (require_semanticdb, resolve_enriched,
\* reload_build_model)
THEOREM ModelDecidesAlways == ServicesSpec => []ModelInForce
<1>1. ServicesInit => ServicesTypes /\ ModelInv
  BY TypesInit, ModelInit, Zenon
<1>2. ServicesTypes /\ ModelInv /\ [ServicesNext]_servicesVars => ServicesTypes' /\ ModelInv'
  BY TypesStep, ModelStep, Zenon
<1>3. ServicesTypes /\ ModelInv => ModelInForce
  BY ModelDecides, Zenon
<1>4. QED
  BY <1>1, <1>2, <1>3, PTL DEF ServicesSpec

-----------------------------------------------------------------------------
(* The order of notifications                                              *)

\* What is left of the inbox when a message is taken
LEMMA InboxTail ==
  ASSUME ServicesTypes, inbox # <<>>, inbox' = Tail(inbox)
  PROVE  /\ Len(inbox) \in Nat \ {0} /\ Len(inbox') = Len(inbox) - 1 /\ inbox' \in Seq(Message)
         /\ DOMAIN inbox = 1 .. Len(inbox) /\ DOMAIN inbox' = 1 .. Len(inbox) - 1
         /\ \A i \in 1 .. Len(inbox) - 1 : inbox'[i] = inbox[i + 1]
         /\ \A i \in 1 .. Len(inbox) : inbox[i] \in Message
<1>1. /\ Len(inbox) \in Nat \ {0} /\ Len(Tail(inbox)) = Len(inbox) - 1 /\ Tail(inbox) \in Seq(Message)
      /\ DOMAIN inbox = 1 .. Len(inbox) /\ DOMAIN Tail(inbox) = 1 .. Len(inbox) - 1
      /\ \A i \in 1 .. Len(inbox) - 1 : Tail(inbox)[i] = inbox[i + 1]
      /\ \A i \in 1 .. Len(inbox) : inbox[i] \in Message
  BY FirstOut, Zenon DEF ServicesTypes
<1>2. QED
  BY <1>1, Zenon

\* What the inbox is when a message has joined it
LEMMA InboxAppend ==
  ASSUME ServicesTypes, NEW m \in Message, inbox' = Append(inbox, m)
  PROVE  /\ Len(inbox) \in Nat /\ Len(inbox') = Len(inbox) + 1 /\ inbox' \in Seq(Message)
         /\ DOMAIN inbox = 1 .. Len(inbox) /\ DOMAIN inbox' = 1 .. Len(inbox) + 1
         /\ \A i \in 1 .. Len(inbox) : inbox[i] \in Message /\ inbox'[i] = inbox[i]
         /\ inbox'[Len(inbox) + 1] = m
<1>1. /\ Append(inbox, m) \in Seq(Message)
      /\ Len(inbox) \in Nat /\ Len(Append(inbox, m)) = Len(inbox) + 1
      /\ DOMAIN inbox = 1 .. Len(inbox) /\ DOMAIN Append(inbox, m) = 1 .. Len(inbox) + 1
      /\ \A i \in 1 .. Len(inbox) : inbox[i] \in Message /\ Append(inbox, m)[i] = inbox[i]
      /\ Append(inbox, m)[Len(inbox) + 1] = m
  <2>1. inbox \in Seq(Message)
    BY Zenon DEF ServicesTypes
  <2>2. QED
    BY <2>1, LastIn
<1>2. QED
  BY <1>1, Zenon

\* A document closed by the first n messages is closed by what is left of them when
\* the first one is handled
LEMMA ClosedShift ==
  ASSUME ServicesTypes, inbox # <<>>, inbox' = Tail(inbox), NEW u \in Documents,
         NEW n \in 1 .. Len(inbox), ClosedBefore(u, n + 1),
         Closes(u, 1) => docs'[u] = Closed,
         ~ Opens(u, 1) /\ ~ Closes(u, 1) => docs'[u] = docs[u]
  PROVE  ClosedBefore(u, n)'
<1>0. Len(inbox) \in Nat \ {0} /\ \A i \in 1 .. Len(inbox) - 1 : inbox'[i] = inbox[i + 1]
  BY InboxTail, Zenon
<1>1. (\A i \in 1 .. n - 1 : inbox'[i] = inbox[i + 1]) /\ n \in Nat \ {0} /\ (n + 1) - 1 = n
  BY <1>0
<1>2. ASSUME NEW i \in 0 .. n - 1, \E k \in i + 2 .. n : Closes(u, k)
      PROVE  \E k \in i + 1 .. n - 1 : Closes(u, k)'
  <2>1. PICK k \in i + 2 .. n : Closes(u, k)
    BY <1>2, Zenon
  <2>2. k - 1 \in i + 1 .. n - 1 /\ k - 1 \in 1 .. n - 1 /\ (k - 1) + 1 = k
    BY <1>1
  <2>3. inbox'[k - 1] = inbox[k]
    BY <1>1, <2>2, Zenon
  <2>4. Closes(u, k - 1)'
    BY <2>1, <2>3, Zenon DEF Closes
  <2>5. QED
    BY <2>2, <2>4, Zenon
<1>3. ASSUME docs'[u] # Closed
      PROVE  \E k \in 1 .. n - 1 : Closes(u, k)'
  <2>1. ~ Closes(u, 1)
    BY <1>3, Zenon
  <2>2. \E k \in 2 .. n : Closes(u, k)
    <3>1. CASE Opens(u, 1)
      BY <3>1, <1>1 DEF ClosedBefore
    <3>2. CASE ~ Opens(u, 1)
      <4>1. PICK k \in 1 .. n : Closes(u, k)
        BY <3>2, <2>1, <1>1, <1>3, Zenon DEF ClosedBefore
      <4>2. k # 1
        BY <4>1, <2>1, Zenon
      <4>3. QED
        BY <4>1, <4>2, <1>1
    <3>3. QED
      BY <3>1, <3>2, Zenon
  <2>3. 0 \in 0 .. n - 1 /\ 0 + 2 = 2 /\ 0 + 1 = 1
    BY <1>1
  <2>4. QED
    BY <2>2, <2>3, <1>2, Zenon
<1>4. ASSUME NEW j \in 1 .. n - 1, Opens(u, j)'
      PROVE  \E k \in j + 1 .. n - 1 : Closes(u, k)'
  <2>1. Opens(u, j + 1)
    BY <1>1, <1>4, Zenon DEF Opens
  <2>2. j + 1 \in 1 .. n /\ (j + 1) + 1 = j + 2 /\ j \in 0 .. n - 1
    BY <1>1
  <2>3. \E k \in j + 2 .. n : Closes(u, k)
    BY <1>1, <2>1, <2>2, Zenon DEF ClosedBefore
  <2>4. QED
    BY <1>2, <2>2, <2>3, Zenon
<1>5. QED
  BY <1>3, <1>4, Zenon DEF ClosedBefore

\* The order of the notifications survives the handling of a message
LEMMA NotesTaken ==
  ASSUME ServicesTypes, NotesInOrder, inbox # <<>>, inbox' = Tail(inbox), buffer' = buffer,
         \A u \in Documents : /\ Closes(u, 1) => docs'[u] = Closed
                              /\ ~ Opens(u, 1) /\ ~ Closes(u, 1) => docs'[u] = docs[u]
  PROVE  NotesInOrder'
<1>0. /\ Len(inbox) \in Nat \ {0} /\ DOMAIN inbox' = 1 .. Len(inbox) - 1 /\ Len(inbox') = Len(inbox) - 1
      /\ DOMAIN inbox = 1 .. Len(inbox) /\ \A i \in 1 .. Len(inbox) - 1 : inbox'[i] = inbox[i + 1]
  BY InboxTail, Zenon
<1>1. ASSUME NEW u \in Documents, NEW n \in 1 .. Len(inbox), ClosedBefore(u, n + 1)
      PROVE  ClosedBefore(u, n)'
  <2>1. /\ Closes(u, 1) => docs'[u] = Closed
        /\ ~ Opens(u, 1) /\ ~ Closes(u, 1) => docs'[u] = docs[u]
    BY Zenon
  <2>2. QED
    BY <1>1, <2>1, ClosedShift, Zenon
<1>2. ASSUME NEW u \in Documents, NEW n \in DOMAIN inbox', inbox'[n].uri = u, inbox'[n].is = "didOpen"
      PROVE  ClosedBefore(u, n)'
  <2>1. n \in 1 .. Len(inbox) - 1 /\ n \in 1 .. Len(inbox) /\ n + 1 \in DOMAIN inbox
    BY <1>0
  <2>2. inbox'[n] = inbox[n + 1]
    BY <1>0, <2>1, Zenon
  <2>3. ClosedBefore(u, n + 1)
    BY <1>2, <2>1, <2>2, Zenon DEF NotesInOrder
  <2>4. QED
    BY <1>1, <2>1, <2>3, Zenon
<1>3. ASSUME NEW u \in Documents, buffer[u] = Closed
      PROVE  ClosedBefore(u, Len(inbox) + 1)'
  <2>1. ClosedBefore(u, Len(inbox) + 1)
    BY <1>3, Zenon DEF NotesInOrder
  <2>2. Len(inbox) \in 1 .. Len(inbox) /\ Len(inbox') + 1 = Len(inbox)
    BY <1>0
  <2>3. PICK n : n = Len(inbox)
    BY Zenon
  <2>4. ClosedBefore(u, n)'
    BY <1>1, <2>1, <2>2, <2>3, Zenon
  <2>5. QED
    BY <2>2, <2>3, <2>4, Zenon
<1>4. QED
  BY <1>2, <1>3, Zenon DEF NotesInOrder

\* What is in the inbox stays as it is when a message joins it
LEMMA ClosedKept ==
  ASSUME ServicesTypes, NEW m \in Message, inbox' = Append(inbox, m), docs' = docs,
         NEW u \in Documents, NEW n \in 1 .. Len(inbox) + 1, ClosedBefore(u, n)
  PROVE  ClosedBefore(u, n)'
<1>1. Len(inbox) \in Nat /\ \A i \in 1 .. Len(inbox) : inbox'[i] = inbox[i]
  BY InboxAppend, Zenon
<1>2. \A i \in 1 .. n - 1 : inbox'[i] = inbox[i]
  BY <1>1
<1>3. \A j \in 1 .. n - 1 : \A k \in j + 1 .. n - 1 : k \in 1 .. n - 1
  BY <1>1
<1>4. \A i \in 1 .. n - 1 : (Opens(u, i)' <=> Opens(u, i)) /\ (Closes(u, i)' <=> Closes(u, i))
  BY <1>2, Zenon DEF Opens, Closes
<1>5. QED
  BY <1>3, <1>4, Zenon DEF ClosedBefore

\* A closed document stays closed after a message that does not open it, and any
\* document is closed after its didClose
LEMMA ClosedExtended ==
  ASSUME ServicesTypes, NEW m \in Message, inbox' = Append(inbox, m), docs' = docs, NEW u \in Documents,
         \/ ClosedBefore(u, Len(inbox) + 1) /\ ~ (m.uri = u /\ m.is \in {"didOpen", "didChange", "didSave"})
         \/ m.uri = u /\ m.is = "didClose"
  PROVE  ClosedBefore(u, Len(inbox) + 1)'
<1>1. PICK n : n = Len(inbox) + 1
  BY Zenon
<1>2. n \in Nat \ {0} /\ Len(inbox') = n /\ inbox'[n] = m /\ n \in 1 .. n
  BY <1>1, InboxAppend
<1>3. SUFFICES ClosedBefore(u, n + 1)'
  BY <1>2, Zenon
<1>4. 1 .. (n + 1) - 1 = (1 .. n - 1) \cup {n} /\ (n + 1) - 1 = n
  BY <1>2
<1>5. \A j \in 1 .. n - 1 : (j + 1 .. n = (j + 1 .. n - 1) \cup {n})
  BY <1>2
<1>6. ~ Opens(u, n)'
  BY <1>2, Zenon DEF Opens
<1>7. CASE m.uri = u /\ m.is = "didClose"
  <2>1. Closes(u, n)'
    BY <1>2, <1>7, Zenon DEF Closes
  <2>2. QED
    BY <2>1, <1>4, <1>5, <1>6, Zenon DEF ClosedBefore
<1>8. CASE ClosedBefore(u, n)
  <2>1. n \in 1 .. Len(inbox) + 1
    BY <1>1, <1>2, Zenon
  <2>2. ClosedBefore(u, n)'
    BY <2>1, <1>8, ClosedKept, Zenon
  <2>3. QED
    BY <2>2, <1>4, <1>5, <1>6, Zenon DEF ClosedBefore
<1>9. QED
  BY <1>1, <1>7, <1>8, Zenon

\* Every step keeps the notifications in order
LEMMA NotesStep == ServicesTypes /\ NotesInOrder /\ [ServicesNext]_servicesVars => NotesInOrder'
<1> SUFFICES ASSUME ServicesTypes, NotesInOrder, [ServicesNext]_servicesVars PROVE NotesInOrder'
  OBVIOUS
<1>1. ASSUME UNCHANGED <<buffer, inbox, docs>>
      PROVE  NotesInOrder'
  <2>1. ASSUME NEW u, NEW n
        PROVE  ClosedBefore(u, n)' <=> ClosedBefore(u, n)
    BY <1>1, Zenon DEF ClosedBefore, Opens, Closes
  <2>2. QED
    BY <1>1, <2>1, Zenon DEF NotesInOrder
<1>2. ASSUME NEW m \in Message, inbox' = Append(inbox, m), docs' = docs,
             \A u \in Documents : m.uri = u /\ m.is = "didOpen" => buffer[u] = Closed,
             \A u \in Documents : buffer'[u] = Closed =>
                 \/ buffer[u] = Closed /\ ~ (m.uri = u /\ m.is \in {"didOpen", "didChange", "didSave"})
                 \/ m.uri = u /\ m.is = "didClose"
      PROVE  NotesInOrder'
  <2>1. ASSUME NEW u \in Documents, NEW n \in DOMAIN inbox', inbox'[n].uri = u, inbox'[n].is = "didOpen"
        PROVE  ClosedBefore(u, n)'
    <3>1. /\ Len(inbox) \in Nat /\ DOMAIN inbox = 1 .. Len(inbox) /\ DOMAIN inbox' = 1 .. Len(inbox) + 1
          /\ \A i \in 1 .. Len(inbox) : inbox'[i] = inbox[i]
          /\ inbox'[Len(inbox) + 1] = m
      BY <1>2, InboxAppend, Zenon
    <3>2. ClosedBefore(u, n)
      <4>1. CASE n \in 1 .. Len(inbox)
        BY <2>1, <3>1, <4>1, Zenon DEF NotesInOrder
      <4>2. CASE n = Len(inbox) + 1
        BY <1>2, <2>1, <3>1, <4>2, Zenon DEF NotesInOrder
      <4>3. QED
        BY <3>1, <4>1, <4>2
    <3>3. QED
      BY <1>2, <3>1, <3>2, ClosedKept, Zenon
  <2>2. ASSUME NEW u \in Documents, buffer'[u] = Closed
        PROVE  ClosedBefore(u, Len(inbox) + 1)'
    <3>1. \/ ClosedBefore(u, Len(inbox) + 1) /\ ~ (m.uri = u /\ m.is \in {"didOpen", "didChange", "didSave"})
          \/ m.uri = u /\ m.is = "didClose"
      BY <1>2, <2>2, Zenon DEF NotesInOrder
    <3>2. QED
      BY <1>2, <3>1, ClosedExtended, Zenon
  <2>3. QED
    BY <2>1, <2>2, Zenon DEF NotesInOrder
<1>3. ASSUME NEW u \in Documents, Edit(u) \/ Save(u)
      PROVE  NotesInOrder'
  <2>1. used.texts + 1 \in Texts \ {Closed}
    BY <1>3, Used, Zenon DEF Edit, Save, ServicesTypes
  <2>2. PICK is \in {"didOpen", "didChange", "didSave"} :
            /\ inbox' = Append(inbox, [is |-> is, uri |-> u, text |-> used.texts + 1])
            /\ is = "didOpen" => buffer[u] = Closed
    BY <1>3, Zenon DEF Edit, Save, Send
  <2>3. PICK m : m = [is |-> is, uri |-> u, text |-> used.texts + 1]
    BY Zenon
  <2>4. /\ m \in Message /\ m.uri = u /\ m.is = is
        /\ inbox' = Append(inbox, m) /\ docs' = docs
    <3>1. m \in Message /\ m.uri = u /\ m.is = is
      BY <2>1, <2>3, Zenon DEF Message
    <3>2. inbox' = Append(inbox, m) /\ docs' = docs
      BY <1>3, <2>2, <2>3, Zenon DEF Edit, Save, Send, serverVars
    <3>3. QED
      BY <3>1, <3>2, Zenon
  <2>5. \A v \in Documents : buffer'[v] = Closed => v # u /\ buffer[v] = Closed
    BY <1>3, <2>1, Zenon DEF Edit, Save, ServicesTypes
  <2>6. QED
    BY <1>2, <2>2, <2>4, <2>5, Zenon
<1>4. ASSUME NEW u \in Documents, Close(u)
      PROVE  NotesInOrder'
  <2>1. PICK m : m = [is |-> "didClose", uri |-> u]
    BY Zenon
  <2>2. m \in Message /\ m.uri = u /\ m.is = "didClose" /\ m.is # "didOpen"
    BY <2>1, Zenon DEF Message
  <2>3. inbox' = Append(inbox, m) /\ docs' = docs
    BY <1>4, <2>1, Zenon DEF Close, Send, serverVars
  <2>4. \A v \in Documents : buffer'[v] = Closed => v = u \/ buffer[v] = Closed
    BY <1>4, Zenon DEF Close, ServicesTypes
  <2>5. QED
    BY <1>2, <2>2, <2>3, <2>4, Zenon
<1>5. ASSUME NEW u \in Documents, AskTokens(u)
      PROVE  NotesInOrder'
  <2>1. PICK m : m = [is |-> "tokens", uri |-> u, previousResultId |-> tokens[u].id]
    BY Zenon
  <2>2. tokens[u].id \in Nat
    BY Zenon DEF ServicesTypes
  <2>3. m \in Message /\ m.is \notin {"didOpen", "didChange", "didSave"} /\ m.is # "didOpen"
    BY <2>1, <2>2, Zenon DEF Message
  <2>4. inbox' = Append(inbox, m) /\ docs' = docs /\ buffer' = buffer
    BY <1>5, <2>1, Zenon DEF AskTokens, Send, serverVars
  <2>5. QED
    BY <1>2, <2>3, <2>4, Zenon
<1>6. CASE Receive \/ Discard
  BY <1>1, <1>6, Zenon DEF Receive, Discard, serverVars
<1>7. CASE replay \/ (\E u \in Documents : completion(u) \/ pc_value(u))
  BY <1>1, <1>7, Zenon DEF replay, completion, pc_value, editorVars
<1>8. ASSUME NEW owner, NEW indexable, reload_build_model(owner, indexable)
      PROVE  NotesInOrder'
  BY <1>1, <1>8, Reloaded, Zenon DEF editorVars
<1>9. ASSUME NEW is, Take(is), buffer' = buffer,
             \/ /\ is \in {"didOpen", "didChange", "didSave"}
                /\ docs' = docs \/ \E text : docs' = [docs EXCEPT ![Head(inbox).uri] = text]
             \/ is = "didClose" /\ docs' = [docs EXCEPT ![Head(inbox).uri] = Closed]
             \/ is = "tokens" /\ docs' = docs
      PROVE  NotesInOrder'
  <2>1. PICK m : m = inbox[1]
    OBVIOUS
  <2>2. m.is = is /\ Head(inbox) = m /\ m.uri \in Documents /\ inbox # <<>> /\ inbox' = Tail(inbox)
    BY <1>9, <2>1, Taken, Zenon
  <2>3. ASSUME NEW u \in Documents
        PROVE  /\ Closes(u, 1) => docs'[u] = Closed
               /\ ~ Opens(u, 1) /\ ~ Closes(u, 1) => docs'[u] = docs[u]
    <3>1. CASE is = "didClose" /\ docs' = [docs EXCEPT ![m.uri] = Closed]
      BY <2>1, <2>2, <3>1, Zenon DEF Closes, Opens, ServicesTypes
    <3>2. CASE /\ is \in {"didOpen", "didChange", "didSave"}
               /\ docs' = docs \/ \E text : docs' = [docs EXCEPT ![m.uri] = text]
      BY <2>1, <2>2, <3>2, Zenon DEF Closes, Opens, ServicesTypes
    <3>3. CASE is = "tokens" /\ docs' = docs
      BY <2>1, <2>2, <3>3, Zenon DEF Closes, Opens
    <3>4. QED
      BY <1>9, <2>2, <3>1, <3>2, <3>3, Zenon
  <2>4. QED
    BY <1>9, <2>2, <2>3, NotesTaken, Zenon
<1>10. CASE on_did_open \/ on_did_change \/ did_save_text
  BY <1>9, <1>10, Zenon DEF on_did_open, on_did_change, did_save_text, editorVars
<1>11. CASE on_did_close
  BY <1>9, <1>11, Zenon DEF on_did_close, editorVars
<1>12. CASE semantic_tokens_full_delta \/ pre_ready
  BY <1>9, <1>12, Zenon DEF semantic_tokens_full_delta, pre_ready, Take, editorVars, serverVars
<1>13. CASE UNCHANGED servicesVars
  BY <1>1, <1>13, Zenon DEF servicesVars
<1>14. QED
  BY <1>3, <1>4, <1>5, <1>6, <1>7, <1>8, <1>10, <1>11, <1>12, <1>13, Zenon DEF ServicesNext, Typing, Handling

-----------------------------------------------------------------------------
(* The island mirrors the document store                                   *)

\* What a record of the island says
LEMMA HeldFields ==
  ASSUME NEW t, NEW x, NEW h \in Held
  PROVE  /\ [target |-> t, text |-> x].target = t /\ [target |-> t, text |-> x].text = x
         /\ [h EXCEPT !.text = x].target = h.target /\ [h EXCEPT !.text = x].text = x
BY Zenon DEF Held

\* A document that is opened anew was closed
LEMMA OpenedWasClosed ==
  ASSUME ServicesTypes, NotesInOrder, Take("didOpen")
  PROVE  docs[inbox[1].uri] = Closed
<1>1. /\ inbox # <<>> /\ inbox[1].is = "didOpen" /\ inbox[1].uri \in Documents
  BY Taken, Zenon
<1>2. 1 \in DOMAIN inbox
  BY <1>1, FirstOut DEF ServicesTypes
<1>3. ClosedBefore(inbox[1].uri, 1)
  BY <1>1, <1>2, Zenon DEF NotesInOrder
<1>4. 1 .. 1 - 1 = {}
  OBVIOUS
<1>5. QED
  BY <1>3, <1>4, Zenon DEF ClosedBefore

\* A notification about one document leaves the mirror of the others
LEMMA OthersMirrored ==
  ASSUME NEW v \in Documents, Mirrored(v), island'[v] = island[v], docs'[v] = docs[v], ready' = ready,
         v \in stale' <=> v \in stale, v \in unplaced' <=> v \in unplaced,
         services'.uri_to_target = services.uri_to_target, services'.indexable = services.indexable
  PROVE  Mirrored(v)'
BY Zenon DEF Mirrored, is_open

\* Opening and changing a document keep the mirror
LEMMA MirrorTyped ==
  ASSUME ServicesTypes, MirrorInv, on_did_open \/ on_did_change, NEW v \in Documents
  PROVE  Mirrored(v)'
<1>1. PICK m : m = inbox[1]
  BY Zenon
<1>2. /\ m \in Message /\ m.is \in {"didOpen", "didChange"} /\ Head(inbox) = m /\ m.uri \in Documents
      /\ ready' = ready /\ services' = services
  BY <1>1, Taken, Zenon DEF on_did_open, on_did_change
<1>3. PICK u \in Documents : u = m.uri
  BY <1>2, Zenon
<1>4. PICK x \in Texts : x = m.text /\ x # Closed
  BY <1>2, MessageFields, Zenon
<1>5. docs' = [docs EXCEPT ![u] = x]
  BY <1>2, <1>3, <1>4, Zenon DEF on_did_open, on_did_change
<1>6. /\ docs'[u] = x /\ (v # u => docs'[v] = docs[v])
      /\ services \in Bundle /\ island \in [Documents -> Held] /\ Mirrored(v) /\ Mirrored(u)
  BY <1>5, Zenon DEF ServicesTypes, MirrorInv, Held
<1>7. CASE ~ ready
  <2>1. UNCHANGED <<island, stale, unplaced>>
    BY <1>7, Zenon DEF on_did_open, on_did_change
  <2>2. QED
    BY <1>2, <1>6, <1>7, <2>1, Zenon DEF Mirrored, is_open
<1>8. CASE ready /\ is_open(u) /\ IslandChanges(u, x)
  <2>1. PICK refused \in Refusals({u}) :
            /\ island' = IF refused = {} THEN [island EXCEPT ![u].text = x] ELSE island
            /\ stale' = (stale \ {u}) \cup refused /\ unplaced' = unplaced
    BY <1>8, Zenon DEF IslandChanges
  <2>2. refused \subseteq {u}
    BY <2>1, OnlySentRefused, Zenon
  <2>3. CASE v # u
    <3>1. island'[v] = island[v] /\ (v \in stale' <=> v \in stale)
      BY <1>6, <2>1, <2>2, <2>3, Zenon
    <3>2. QED
      BY <1>2, <1>6, <2>1, <2>3, <3>1, OthersMirrored, Zenon
  <2>4. ASSUME v = u, refused = {}
        PROVE  Mirrored(v)'
    <3>1. island[u] \in Held /\ island'[u] = [island[u] EXCEPT !.text = x]
      BY <1>6, <2>1, <2>4, Zenon
    <3>2. island'[u].target = island[u].target /\ island'[u].text = x
      BY <3>1, HeldFields
    <3>3. docs[u] = Closed => u \in unplaced
      BY <1>6, <1>8, Zenon DEF Mirrored
    <3>4. QED
      BY <1>2, <1>4, <1>6, <1>8, <2>1, <2>4, <3>2, <3>3, Zenon DEF Mirrored
  <2>5. ASSUME v = u, refused # {}
        PROVE  Mirrored(v)'
    <3>1. island' = island /\ u \in stale'
      BY <2>1, <2>2, <2>5, Zenon
    <3>2. QED
      BY <1>2, <1>4, <1>6, <1>8, <2>1, <2>5, <3>1, Zenon DEF Mirrored, is_open
  <2>6. QED
    BY <2>3, <2>4, <2>5, Zenon
<1>9. CASE /\ ready /\ IslandOpens({u}, services.uri_to_target, services.indexable, docs')
           /\ docs[u] = Closed \/ ~ is_open(u)
  <2>1. PICK owner : owner = services.uri_to_target
    BY Zenon
  <2>2. PICK indexable : indexable = services.indexable
    BY Zenon
  <2>3. PICK texts : texts = docs'
    BY Zenon
  <2>4. OpenedAt(v, {u}, owner, indexable, texts)
    BY <1>9, <2>1, <2>2, <2>3, OpensAt, Zenon
  <2>5. CASE v # u
    <3>1. island'[v] = island[v] /\ (v \in stale' <=> v \in stale) /\ (v \in unplaced' <=> v \in unplaced)
      BY <2>4, <2>5, Zenon DEF OpenedAt
    <3>2. QED
      BY <1>2, <1>6, <2>5, <3>1, OthersMirrored, Zenon
  <2>6. ASSUME v = u, owner[u] \in indexable, v \notin stale', v \notin unplaced',
               island'[v] = [target |-> owner[v], text |-> texts[v]]
        PROVE  Mirrored(v)'
    <3>1. island'[v].target = owner[v] /\ island'[v].text = texts[v]
      BY <2>6
    <3>2. QED
      BY <1>2, <1>4, <1>6, <1>9, <2>1, <2>3, <2>6, <3>1, Zenon DEF Mirrored
  <2>7. ASSUME v = u, v \in stale', v \in unplaced', island'[v] = island[v]
        PROVE  Mirrored(v)'
    BY <1>2, <1>6, <1>9, <2>7, Zenon DEF Mirrored, is_open
  <2>8. ASSUME v = u, owner[u] \notin indexable, island'[v] = island[v],
               v \in stale' <=> v \in stale, v \in unplaced' <=> v \in unplaced
        PROVE  Mirrored(v)'
    <3>1. is_open(u) => docs[u] = Closed /\ u \in stale
      BY <1>6, <1>9, Zenon DEF Mirrored
    <3>2. QED
      BY <1>2, <1>4, <1>6, <1>9, <2>1, <2>2, <2>8, <3>1, Zenon DEF Mirrored, is_open
  <2>9. QED
    BY <2>4, <2>5, <2>6, <2>7, <2>8, Zenon DEF OpenedAt
<1>10. ASSUME ready
       PROVE  \/ is_open(u) /\ IslandChanges(u, x)
              \/ /\ IslandOpens({u}, services.uri_to_target, services.indexable, docs')
                 /\ docs[u] = Closed \/ ~ is_open(u)
  <2>1. CASE on_did_open
    <3>1. docs[u] = Closed
      BY <1>1, <1>3, <2>1, OpenedWasClosed, Zenon DEF on_did_open, MirrorInv
    <3>2. QED
      BY <1>2, <1>3, <1>10, <2>1, <3>1, Zenon DEF on_did_open, IslandOpen
  <2>2. CASE on_did_change
    BY <1>2, <1>3, <1>4, <1>10, <2>2, Zenon DEF on_did_change, IslandOpen
  <2>3. QED
    BY <2>1, <2>2, Zenon
<1>11. QED
  BY <1>7, <1>8, <1>9, <1>10, Zenon

\* A save that carries text keeps the mirror, which now lags behind it
LEMMA MirrorSaved ==
  ASSUME ServicesTypes, MirrorInv, did_save_text, NEW v \in Documents
  PROVE  Mirrored(v)'
<1>1. PICK m : m = inbox[1]
  BY Zenon
<1>2. /\ m \in Message /\ m.is = "didSave" /\ Head(inbox) = m /\ m.uri \in Documents
      /\ UNCHANGED <<island, unplaced, ready, services>> /\ Mirrored(v)
  BY <1>1, Taken, Zenon DEF did_save_text, MirrorInv
<1>3. PICK u \in Documents : u = m.uri
  BY <1>2, Zenon
<1>4. PICK x \in Texts : x = m.text /\ x # Closed
  BY <1>2, MessageFields, Zenon
<1>5. CASE docs[u] = Closed
  <2>1. docs' = docs /\ stale' = stale
    BY <1>2, <1>3, <1>5, Zenon DEF did_save_text
  <2>2. QED
    BY <1>2, <2>1, OthersMirrored, Zenon
<1>6. CASE docs[u] # Closed
  <2>1. docs' = [docs EXCEPT ![u] = x] /\ stale' = stale \cup {u}
    BY <1>2, <1>3, <1>4, <1>6, Zenon DEF did_save_text
  <2>2. docs'[u] = x /\ (v # u => docs'[v] = docs[v])
    BY <2>1, Zenon DEF ServicesTypes
  <2>3. CASE v # u
    BY <1>2, <2>1, <2>2, <2>3, OthersMirrored, Zenon
  <2>4. CASE v = u
    BY <1>2, <1>4, <1>6, <2>1, <2>2, <2>4, Zenon DEF Mirrored, is_open
  <2>5. QED
    BY <2>3, <2>4, Zenon
<1>7. QED
  BY <1>5, <1>6, Zenon

\* Closing a document keeps the mirror
LEMMA MirrorClosed ==
  ASSUME ServicesTypes, MirrorInv, on_did_close, NEW v \in Documents
  PROVE  Mirrored(v)'
<1>1. PICK u \in Documents : u = Head(inbox).uri
  BY Taken, Zenon DEF on_did_close
<1>2. docs' = [docs EXCEPT ![u] = Closed] /\ ready' = ready
  BY <1>1, Zenon DEF on_did_close
<1>3. docs'[u] = Closed /\ (v # u => docs'[v] = docs[v]) /\ Mirrored(v) /\ island \in [Documents -> Held]
  BY <1>2, Zenon DEF ServicesTypes, MirrorInv, Held
<1>4. services'.uri_to_target = services.uri_to_target /\ services'.indexable = services.indexable
  <2>1. drop_uri(services.semantic_tokens_cache, u) \in Seq(CacheEntry) /\ services \in Bundle
    BY Owned, DropUri, Zenon DEF ServicesTypes
  <2>2. \/ services' = services
        \/ services' = [services EXCEPT !.semantic_tokens_cache = drop_uri(services.semantic_tokens_cache, u)]
    BY <1>1, Zenon DEF on_did_close
  <2>3. QED
    BY <2>1, <2>2, CacheReplaced, Zenon
<1>5. CASE ~ ready
  <2>1. UNCHANGED <<island, stale, unplaced>>
    BY <1>5, Zenon DEF on_did_close
  <2>2. QED
    BY <1>2, <1>3, <1>5, <2>1, Zenon DEF Mirrored, is_open
<1>6. CASE ready
  <2>1. IslandCloses(u)
    BY <1>1, <1>6, Zenon DEF on_did_close
  <2>2. PICK refused \in Refusals({u}) :
            /\ island' = IF refused = {} THEN [island EXCEPT ![u] = NotHeld] ELSE island
            /\ stale' = (stale \ {u}) \cup refused /\ unplaced' = (unplaced \ {u}) \cup refused
    BY <2>1, Zenon DEF IslandCloses
  <2>3. refused \subseteq {u}
    BY <2>2, OnlySentRefused, Zenon
  <2>4. CASE v # u
    <3>1. island'[v] = island[v] /\ (v \in stale' <=> v \in stale) /\ (v \in unplaced' <=> v \in unplaced)
      BY <1>3, <2>2, <2>3, <2>4, Zenon
    <3>2. QED
      BY <1>2, <1>3, <1>4, <2>4, <3>1, OthersMirrored, Zenon
  <2>5. ASSUME v = u, refused = {}
        PROVE  Mirrored(v)'
    <3>1. island'[u] = NotHeld
      BY <1>3, <2>2, <2>5, Zenon
    <3>2. QED
      BY <1>3, <2>5, <3>1, Zenon DEF Mirrored, is_open
  <2>6. ASSUME v = u, refused # {}
        PROVE  Mirrored(v)'
    <3>1. island' = island /\ u \in stale' /\ u \in unplaced'
      BY <2>2, <2>3, <2>6, Zenon
    <3>2. QED
      BY <1>2, <1>3, <1>6, <2>6, <3>1, Zenon DEF Mirrored, is_open
  <2>7. QED
    BY <2>4, <2>5, <2>6, Zenon
<1>7. QED
  BY <1>5, <1>6, Zenon

\* Replaying the open buffers brings the mirror under the owners of the bundle,
\* whether or not they are the owners it had
LEMMA MirrorReplayed ==
  ASSUME ServicesTypes, MirrorInv, NEW owner, NEW indexable,
         IslandOpens(OpenDocuments, owner, indexable, docs),
         services'.uri_to_target = owner, services'.indexable = indexable,
         docs' = docs, ready', NEW v \in Documents
  PROVE  Mirrored(v)'
<1>1. Mirrored(v) /\ (v \in OpenDocuments <=> docs[v] # Closed)
  BY Zenon DEF MirrorInv, OpenDocuments
<1>2. PICK us : us = OpenDocuments
  BY Zenon
<1>3. PICK texts : texts = docs
  BY Zenon
<1>4. OpenedAt(v, us, owner, indexable, texts)
  BY <1>2, <1>3, OpensAt, Zenon
<1>5. ASSUME v \in us, v \notin stale', v \notin unplaced',
             island'[v] = [target |-> owner[v], text |-> texts[v]]
      PROVE  Mirrored(v)'
  <2>1. island'[v].target = owner[v] /\ island'[v].text = texts[v]
    BY <1>5
  <2>2. QED
    BY <1>1, <1>2, <1>3, <1>5, <2>1, Zenon DEF Mirrored
<1>6. ASSUME v \in us, v \in stale', v \in unplaced', island'[v] = island[v]
      PROVE  Mirrored(v)'
  BY <1>6, Zenon DEF Mirrored, is_open
<1>7. ASSUME ~ (v \in us /\ owner[v] \in indexable), island'[v] = island[v],
             v \in stale' <=> v \in stale, v \in unplaced' <=> v \in unplaced
      PROVE  Mirrored(v)'
  BY <1>1, <1>2, <1>7, Zenon DEF Mirrored, is_open
<1>8. QED
  BY <1>4, <1>5, <1>6, <1>7, Zenon DEF OpenedAt

\* Every step keeps the mirror
LEMMA MirrorStep == ServicesTypes /\ MirrorInv /\ [ServicesNext]_servicesVars => MirrorInv'
<1> SUFFICES ASSUME ServicesTypes, MirrorInv, [ServicesNext]_servicesVars,
                    NEW v \in Documents
             PROVE  Mirrored(v)'
  BY NotesStep, Zenon DEF MirrorInv
<1>0. services \in Bundle /\ Mirrored(v)
  BY Zenon DEF ServicesTypes, MirrorInv
<1>1. ASSUME UNCHANGED <<docs, island, stale, unplaced, ready>>,
             services'.uri_to_target = services.uri_to_target, services'.indexable = services.indexable
      PROVE  Mirrored(v)'
  BY <1>0, <1>1, OthersMirrored, Zenon
<1>2. CASE Typing \/ Receive \/ Discard \/ pre_ready
  BY <1>1, <1>2, Zenon
  DEF Typing, Edit, Save, Close, AskTokens, Send, Receive, Discard, pre_ready, serverVars, mirrorVars
<1>3. CASE on_did_open \/ on_did_change \/ did_save_text \/ on_did_close
  BY <1>3, MirrorTyped, MirrorSaved, MirrorClosed, Zenon
<1>4. CASE semantic_tokens_full_delta
  <2>1. PICK m : m = inbox[1]
    BY Zenon
  <2>2. PICK cache : cache = services.semantic_tokens_cache
    BY Zenon
  <2>3. /\ UNCHANGED <<docs, island, stale, unplaced, ready>> /\ m.uri \in Documents
        /\ \/ services' = services
           \/ \E a \in Answer :
                 /\ a.is \in {"full", "delta"}
                 /\ services' = [services EXCEPT !.semantic_tokens_cache = store(cache, m.uri, a.stream)]
    <3>1. TokensReply(m, cache)
      BY <1>4, <2>1, <2>2, TokensAnswered, Zenon
    <3>2. QED
      BY <1>4, <3>1, <2>1, <2>2, TokensAnswered, Zenon DEF TokensReply
  <2>4. cache \in Seq(CacheEntry) /\ Unique(cache)
    BY <1>0, <2>2, <2>3, Owned, Zenon DEF ServicesTypes
  <2>5. ASSUME NEW a \in Answer, a.is \in {"full", "delta"}
        PROVE  store(cache, m.uri, a.stream) \in Seq(CacheEntry)
    <3>1. a.stream \in Streams
      BY <2>5, AnswerFields, Zenon
    <3>2. QED
      BY <2>3, <2>4, <3>1, Stored, Zenon
  <2>6. services'.uri_to_target = services.uri_to_target /\ services'.indexable = services.indexable
    BY <1>0, <2>3, <2>5, CacheReplaced, Zenon
  <2>7. QED
    BY <1>1, <2>3, <2>6, Zenon
<1>5. ASSUME NEW u \in Documents, completion(u)
      PROVE  Mirrored(v)'
  <2>1. /\ services' = [services EXCEPT !.last_completion_target = services.uri_to_target[u]]
        /\ UNCHANGED <<docs, island, stale, unplaced, ready>>
    BY <1>5, Zenon DEF completion
  <2>2. services'.uri_to_target = services.uri_to_target /\ services'.indexable = services.indexable
    BY <1>0, <2>1, Zenon DEF Bundle
  <2>3. QED
    BY <1>1, <2>1, <2>2, Zenon
<1>6. CASE replay
  BY <1>6, MirrorReplayed, Zenon DEF replay, replay_open_buffers
<1>7. ASSUME NEW owner \in Owners, NEW indexable \in SUBSET BuildTargets, reload_build_model(owner, indexable)
      PROVE  Mirrored(v)'
  <2>1. ready /\ ready' = ready /\ docs' = docs
    BY <1>7, Reloaded, Zenon
  <2>2. CASE UNCHANGED <<services, island, stale, unplaced, workspace>>
    BY <1>1, <2>1, <2>2, Zenon
  <2>3. CASE services' = CoreServices(owner, indexable, TRUE) /\ IslandOpens(OpenDocuments, owner, indexable, docs)
    <3>1. services'.uri_to_target = owner /\ services'.indexable = indexable
      BY <2>3, Zenon DEF CoreServices
    <3>2. QED
      BY <2>1, <2>3, <3>1, MirrorReplayed, Zenon
  <2>4. QED
    BY <1>7, <2>2, <2>3, Reloaded, Zenon
<1>8. ASSUME NEW u \in Documents, pc_value(u)
      PROVE  Mirrored(v)'
  BY <1>1, <1>8, Zenon DEF pc_value
<1>9. CASE UNCHANGED servicesVars
  BY <1>1, <1>9, Zenon DEF servicesVars, mirrorVars
<1>10. QED
  BY <1>2, <1>3, <1>4, <1>5, <1>6, <1>7, <1>8, <1>9, Zenon DEF ServicesNext, Handling

\* Nothing is open at first
LEMMA MirrorInit == ServicesInit => MirrorInv
<1> SUFFICES ASSUME ServicesInit PROVE MirrorInv
  OBVIOUS
<1>1. /\ \A u \in Documents : docs[u] = Closed /\ island[u] = NotHeld
      /\ ready = FALSE /\ inbox = <<>>
  BY Zenon DEF ServicesInit
<1>2. DOMAIN inbox = {} /\ 1 .. (Len(inbox) + 1) - 1 = {}
  BY <1>1
<1>3. NotesInOrder
  BY <1>1, <1>2, Zenon DEF NotesInOrder, ClosedBefore
<1>4. QED
  BY <1>1, <1>3, Zenon DEF MirrorInv, Mirrored, is_open

\* Whatever the editor does while its messages are under way, whatever the island
\* refuses, and whatever reloads move a document from owner to owner, what the
\* island holds is the document store's text, except for the texts it refused or a
\* save carried, and every open document of a registered target is there under the
\* owner in force, except for the opens it refused (on_did_open, on_did_change,
\* did_save_text, on_did_close, replay_open_buffers)
THEOREM MirrorAlwaysFollows == ServicesSpec => []MirrorFollows
<1>1. ServicesInit => ServicesTypes /\ MirrorInv
  BY TypesInit, MirrorInit
<1>2. ServicesTypes /\ MirrorInv /\ [ServicesNext]_servicesVars => ServicesTypes' /\ MirrorInv'
  BY TypesStep, MirrorStep
<1>3. MirrorInv => MirrorFollows
  BY Zenon DEF MirrorInv, Mirrored, MirrorFollows, OpenDocuments
<1>4. QED
  BY <1>1, <1>2, <1>3, PTL DEF ServicesSpec

-----------------------------------------------------------------------------
(* Semantic tokens                                                         *)

\* What is left of the outbox when an answer is received
LEMMA OutboxTail ==
  ASSUME ServicesTypes, outbox # <<>>, outbox' = Tail(outbox)
  PROVE  /\ Len(outbox) \in Nat \ {0}
         /\ DOMAIN outbox = 1 .. Len(outbox) /\ DOMAIN outbox' = 1 .. Len(outbox) - 1
         /\ \A i \in 1 .. Len(outbox) - 1 : outbox'[i] = outbox[i + 1]
         /\ \A i \in 1 .. Len(outbox) : outbox[i] \in Answer
<1>1. /\ Len(outbox) \in Nat \ {0}
      /\ DOMAIN outbox = 1 .. Len(outbox) /\ DOMAIN Tail(outbox) = 1 .. Len(outbox) - 1
      /\ \A i \in 1 .. Len(outbox) - 1 : Tail(outbox)[i] = outbox[i + 1]
      /\ \A i \in 1 .. Len(outbox) : outbox[i] \in Answer
  BY FirstOut, Zenon DEF ServicesTypes
<1>2. QED
  BY <1>1, Zenon

\* What the outbox is when an answer has joined it
LEMMA OutboxAppend ==
  ASSUME ServicesTypes, NEW a \in Answer, outbox' = Append(outbox, a)
  PROVE  /\ Len(outbox) \in Nat
         /\ DOMAIN outbox = 1 .. Len(outbox) /\ DOMAIN outbox' = 1 .. Len(outbox) + 1
         /\ \A i \in 1 .. Len(outbox) : outbox[i] \in Answer /\ outbox'[i] = outbox[i]
         /\ outbox'[Len(outbox) + 1] = a
<1>1. /\ Len(outbox) \in Nat
      /\ DOMAIN outbox = 1 .. Len(outbox) /\ DOMAIN Append(outbox, a) = 1 .. Len(outbox) + 1
      /\ \A i \in 1 .. Len(outbox) : outbox[i] \in Answer /\ Append(outbox, a)[i] = outbox[i]
      /\ Append(outbox, a)[Len(outbox) + 1] = a
  <2>1. outbox \in Seq(Answer)
    BY Zenon DEF ServicesTypes
  <2>2. QED
    BY <2>1, LastIn
<1>2. QED
  BY <1>1, Zenon

\* The requests and answers under way when a message leaves the inbox: the same ones
LEMMA RequestsLeft ==
  ASSUME ServicesTypes, inbox # <<>>, inbox' = Tail(inbox), OneRequest
  PROVE  \A u \in Documents : \A i \in DOMAIN inbox' :
            Requested(u, i)' =>
               /\ u \in asked /\ inbox'[i].previousResultId = tokens[u].id
               /\ ~ Requested(u, 1)
               /\ \A j \in DOMAIN inbox' : Requested(u, j)' => i = j
               /\ \A j \in DOMAIN outbox : ~ Answered(u, j)
<1> SUFFICES ASSUME NEW u \in Documents, NEW i \in DOMAIN inbox', Requested(u, i)'
             PROVE  /\ u \in asked /\ inbox'[i].previousResultId = tokens[u].id
                    /\ ~ Requested(u, 1)
                    /\ \A j \in DOMAIN inbox' : Requested(u, j)' => i = j
                    /\ \A j \in DOMAIN outbox : ~ Answered(u, j)
  BY Zenon
<1>1. /\ Len(inbox) \in Nat \ {0}
      /\ DOMAIN inbox = 1 .. Len(inbox) /\ DOMAIN inbox' = 1 .. Len(inbox) - 1
      /\ \A j \in 1 .. Len(inbox) - 1 : inbox'[j] = inbox[j + 1]
  BY InboxTail, Zenon
<1>2. \A j \in DOMAIN inbox' : /\ j \in Nat /\ j + 1 \in DOMAIN inbox /\ j + 1 # 1 /\ inbox'[j] = inbox[j + 1]
                               /\ (i + 1 = j + 1 => i = j)
  BY <1>1
<1>3. 1 \in DOMAIN inbox
  BY <1>1
<1>4. \A j \in DOMAIN inbox' : Requested(u, j)' <=> Requested(u, j + 1)
  BY <1>2, Zenon DEF Requested
<1>5. /\ Requested(u, i + 1) /\ i + 1 \in DOMAIN inbox /\ inbox'[i] = inbox[i + 1]
  BY <1>2, <1>4, Zenon
<1>6. /\ u \in asked /\ inbox[i + 1].previousResultId = tokens[u].id
      /\ \A j \in DOMAIN inbox : Requested(u, j) => i + 1 = j
      /\ \A j \in DOMAIN outbox : ~ Answered(u, j)
  BY <1>5, Zenon DEF OneRequest
<1>7. ~ Requested(u, 1)
  BY <1>2, <1>3, <1>6, Zenon
<1>8. \A j \in DOMAIN inbox' : Requested(u, j)' => i = j
  BY <1>2, <1>4, <1>6, Zenon
<1>9. QED
  BY <1>5, <1>6, <1>7, <1>8, Zenon

\* A notification is handled: the cache may lose entries, nothing else changes
LEMMA SyncNoted ==
  ASSUME ServicesTypes, TokensInv, inbox # <<>>, inbox' = Tail(inbox), UNCHANGED <<outbox, tokens, asked>>,
         Range(services'.semantic_tokens_cache) \subseteq Range(services.semantic_tokens_cache)
  PROVE  TokensInv'
<1>1. OneRequest'
  <2>1. OneRequest
    BY Zenon DEF TokensInv
  <2>2. \A u \in Documents : \A i \in DOMAIN inbox' :
            Requested(u, i)' =>
               /\ u \in asked /\ inbox'[i].previousResultId = tokens[u].id
               /\ \A j \in DOMAIN inbox' : Requested(u, j)' => i = j
               /\ \A j \in DOMAIN outbox : ~ Answered(u, j)
    BY <2>1, RequestsLeft, Zenon
  <2>3. \A u, i : Answered(u, i)' <=> Answered(u, i)
    BY Zenon DEF Answered
  <2>4. QED
    BY <2>1, <2>2, <2>3, Zenon DEF OneRequest
<1>2. EntriesKnown'
  <2>1. ASSUME NEW e \in Range(services'.semantic_tokens_cache)
        PROVE  /\ \A i \in DOMAIN outbox : InFlight(e, i)' => CarriedBy(e, i)'
               /\ \/ \E i \in DOMAIN outbox : InFlight(e, i)'
                  \/ tokens[e.uri].id = 0
                  \/ tokens[e.uri] = [id |-> e.counter, stream |-> e.data]
    <3>1. e \in Range(services.semantic_tokens_cache)
      BY Zenon
    <3>2. \A i : (InFlight(e, i)' <=> InFlight(e, i)) /\ (CarriedBy(e, i)' <=> CarriedBy(e, i))
      BY Zenon DEF InFlight, CarriedBy
    <3>3. QED
      BY <3>1, <3>2, Zenon DEF TokensInv, EntriesKnown
  <2>2. QED
    BY <2>1, Zenon DEF EntriesKnown, InFlight, CarriedBy
<1>3. DeltasFit' /\ TokensInSync'
  BY Zenon DEF TokensInv, DeltasFit, TokensInSync
<1>4. QED
  BY <1>1, <1>2, <1>3, Zenon DEF TokensInv

\* The editor sends a message: it asks for tokens of a document that it is not
\* waiting for, and forgets the tokens only of such a document
LEMMA SyncTyped ==
  ASSUME ServicesTypes, TokensInv, NEW m \in Message, inbox' = Append(inbox, m),
         UNCHANGED <<outbox, services>>, asked \subseteq asked',
         \A v \in Documents : tokens'[v] = tokens[v] \/ (v \notin asked /\ tokens'[v] = NoTokens),
         m.is = "tokens" => /\ m.uri \notin asked /\ m.uri \in asked'
                            /\ m.previousResultId = tokens'[m.uri].id
  PROVE  TokensInv'
<1>0. OneRequest /\ EntriesKnown /\ DeltasFit /\ TokensInSync
  BY Zenon DEF TokensInv
<1>1. \A v \in Documents : v \in asked => tokens'[v] = tokens[v]
  BY Zenon
<1>2. \A u, i : Answered(u, i)' <=> Answered(u, i)
  BY Zenon DEF Answered
<1>3. \A u \in Documents : \A i \in DOMAIN outbox : Answered(u, i) => u \in asked
  BY <1>0, Zenon DEF OneRequest
<1>4. OneRequest'
  <2>0. /\ Len(inbox) \in Nat /\ DOMAIN inbox = 1 .. Len(inbox) /\ DOMAIN inbox' = 1 .. Len(inbox) + 1
        /\ \A i \in 1 .. Len(inbox) : inbox'[i] = inbox[i]
        /\ inbox'[Len(inbox) + 1] = m
    BY InboxAppend, Zenon
  <2>1. PICK n : n = Len(inbox) + 1
    BY Zenon
  <2>2. DOMAIN inbox' = DOMAIN inbox \cup {n} /\ n \notin DOMAIN inbox
    BY <2>0, <2>1
  <2>3. \A i \in DOMAIN inbox : inbox'[i] = inbox[i]
    BY <2>0, Zenon
  <2>4. \A u : \A i \in DOMAIN inbox : Requested(u, i)' <=> Requested(u, i)
    BY <2>3, Zenon DEF Requested
  <2>5. \A u : Requested(u, n)' <=> m.uri = u /\ m.is = "tokens"
    BY <2>0, <2>1, Zenon DEF Requested
  <2>6. \A u \in Documents : \A i \in DOMAIN inbox : Requested(u, i) => u \in asked
    BY <1>0, Zenon DEF OneRequest
  <2>7. ASSUME NEW u \in Documents, NEW i \in DOMAIN inbox', Requested(u, i)'
        PROVE  /\ u \in asked' /\ inbox'[i].previousResultId = tokens'[u].id
               /\ \A j \in DOMAIN inbox' : Requested(u, j)' => i = j
               /\ \A j \in DOMAIN outbox : ~ Answered(u, j)
    <3>1. CASE i \in DOMAIN inbox
      <4>1. /\ u \in asked /\ inbox[i].previousResultId = tokens[u].id
            /\ \A j \in DOMAIN inbox : Requested(u, j) => i = j
            /\ \A j \in DOMAIN outbox : ~ Answered(u, j)
        BY <1>0, <2>4, <2>7, <3>1, Zenon DEF OneRequest
      <4>2. ~ Requested(u, n)'
        BY <2>5, <4>1, Zenon
      <4>3. \A j \in DOMAIN inbox' : Requested(u, j)' => i = j
        BY <2>2, <2>4, <4>1, <4>2, Zenon
      <4>4. QED
        BY <1>1, <2>3, <3>1, <4>1, <4>3, Zenon
    <3>2. CASE i = n
      <4>1. m.uri = u /\ m.is = "tokens" /\ u \notin asked /\ u \in asked' /\ m.previousResultId = tokens'[u].id
        BY <2>5, <2>7, <3>2, Zenon
      <4>2. \A j \in DOMAIN inbox' : Requested(u, j)' => i = j
        BY <2>2, <2>4, <2>6, <3>2, <4>1, Zenon
      <4>3. QED
        BY <1>3, <2>0, <2>1, <3>2, <4>1, <4>2, Zenon
    <3>3. QED
      BY <2>2, <2>7, <3>1, <3>2, Zenon
  <2>8. \A u \in Documents : \A i \in DOMAIN outbox : Answered(u, i) =>
            u \in asked' /\ \A j \in DOMAIN outbox : Answered(u, j) => i = j
    BY <1>0, Zenon DEF OneRequest
  <2>9. QED
    BY <1>2, <2>7, <2>8, Zenon DEF OneRequest
<1>5. EntriesKnown'
  <2>1. ASSUME NEW e \in Range(services.semantic_tokens_cache)
        PROVE  /\ \A i \in DOMAIN outbox : InFlight(e, i) => CarriedBy(e, i)
               /\ \/ \E i \in DOMAIN outbox : InFlight(e, i)
                  \/ tokens'[e.uri].id = 0
                  \/ tokens'[e.uri] = [id |-> e.counter, stream |-> e.data]
    <3>1. e.uri \in Documents
      <4>1. services.semantic_tokens_cache \in Seq(CacheEntry)
        BY Owned, Zenon DEF ServicesTypes
      <4>2. QED
        BY <4>1, EntryFields, Zenon
    <3>2. tokens'[e.uri] = tokens[e.uri] \/ tokens'[e.uri].id = 0
      BY <3>1 DEF NoTokens
    <3>3. QED
      BY <1>0, <3>2, Zenon DEF EntriesKnown
  <2>2. QED
    BY <2>1, Zenon DEF EntriesKnown, InFlight, CarriedBy
<1>6. DeltasFit'
  <2>1. ASSUME NEW i \in DOMAIN outbox, outbox[i].is = "delta"
        PROVE  outbox[i].base = tokens'[outbox[i].uri].stream
    <3>1. outbox[i].uri \in Documents
      <4>1. outbox[i] \in Answer
        <5>1. outbox \in Seq(Answer)
          BY Zenon DEF ServicesTypes
        <5>2. QED
          BY <5>1
      <4>2. QED
        BY <4>1, AnswerFields, Zenon
    <3>2. outbox[i].uri \in asked
      BY <1>3, <3>1, Zenon DEF Answered
    <3>3. QED
      BY <1>0, <1>1, <2>1, <3>1, <3>2, Zenon DEF DeltasFit
  <2>2. QED
    BY <2>1, Zenon DEF DeltasFit
<1>7. TokensInSync'
  <2>1. NoTokens.stream # Garbled
    BY StreamNames, Zenon
  <2>2. QED
    BY <1>0, <2>1, Zenon DEF TokensInSync
<1>8. QED
  BY <1>4, <1>5, <1>6, <1>7, Zenon DEF TokensInv

\* The editor receives an answer: a stream, which fits when it is a splice, or nothing
LEMMA SyncReceived ==
  ASSUME ServicesTypes, TokensInv, Receive
  PROVE  TokensInv'
<1>0. OneRequest /\ EntriesKnown /\ DeltasFit /\ TokensInSync
  BY Zenon DEF TokensInv
<1>1. PICK a : a = outbox[1]
  BY Zenon
<1>2. UNCHANGED <<inbox, services>>
  BY Zenon DEF Receive, serverVars
<1>3. /\ a \in Answer /\ outbox' = Tail(outbox) /\ outbox # <<>> /\ asked' = asked \ {a.uri}
  BY <1>1, Received, Zenon
<1>4. PICK u \in Documents : u = a.uri
  BY <1>3, AnswerFields, Zenon
<1>5. /\ Len(outbox) \in Nat \ {0}
      /\ DOMAIN outbox = 1 .. Len(outbox) /\ DOMAIN outbox' = 1 .. Len(outbox) - 1
      /\ \A i \in 1 .. Len(outbox) - 1 : outbox'[i] = outbox[i + 1]
      /\ \A i \in 1 .. Len(outbox) : outbox[i] \in Answer
  BY <1>3, OutboxTail, Zenon
<1>6. 1 \in DOMAIN outbox /\ Answered(u, 1)
  BY <1>1, <1>4, <1>5 DEF Answered
<1>7. /\ \A j \in DOMAIN outbox : Answered(u, j) => 1 = j
      /\ \A i \in DOMAIN inbox : ~ Requested(u, i)
  BY <1>0, <1>6, Zenon DEF OneRequest
<1>8. \A i \in DOMAIN outbox' : /\ i \in Nat /\ i + 1 \in DOMAIN outbox /\ 1 # i + 1 /\ outbox'[i] = outbox[i + 1]
                                /\ outbox'[i] \in Answer
  BY <1>5
<1>9. \A v : \A i \in DOMAIN outbox' : Answered(v, i)' <=> Answered(v, i + 1)
  BY <1>8, Zenon DEF Answered
<1>10. \A i \in DOMAIN outbox' : ~ Answered(u, i)'
  BY <1>7, <1>8, <1>9, Zenon
<1>11. a.is = "delta" => a.base = tokens[u].stream
  BY <1>0, <1>1, <1>4, <1>6, Zenon DEF DeltasFit
<1>12. /\ a.is = "null" => tokens' = tokens
       /\ a.is # "null" => tokens' = [tokens EXCEPT ![u] = [id |-> a.id, stream |-> a.stream]]
  <2>1. a.is \in {"null", "full", "delta"}
    BY <1>3, AnswerFields, Zenon
  <2>2. /\ a.is = "null" => tokens' = tokens
        /\ a.is = "full" \/ (a.is = "delta" /\ a.base = tokens[u].stream) =>
               tokens' = [tokens EXCEPT ![u] = [id |-> a.id, stream |-> a.stream]]
    BY <1>1, <1>4, Received, Zenon
  <2>3. QED
    BY <1>11, <2>1, <2>2, Zenon
<1>13. \A v \in Documents : v # u => tokens'[v] = tokens[v]
  BY <1>12, Zenon DEF ServicesTypes
<1>14. a.is # "null" => tokens'[u] = [id |-> a.id, stream |-> a.stream]
  BY <1>12, Zenon DEF ServicesTypes
<1>15. OneRequest'
  <2>1. \A v, i : Requested(v, i)' <=> Requested(v, i)
    BY <1>2, Zenon DEF Requested
  <2>2. ASSUME NEW v \in Documents, NEW i \in DOMAIN inbox, Requested(v, i)
        PROVE  /\ v \in asked' /\ inbox[i].previousResultId = tokens'[v].id
               /\ \A j \in DOMAIN inbox : Requested(v, j) => i = j
               /\ \A j \in DOMAIN outbox' : ~ Answered(v, j)'
    <3>1. v # u
      BY <1>7, <2>2, Zenon
    <3>2. /\ v \in asked /\ inbox[i].previousResultId = tokens[v].id
          /\ \A j \in DOMAIN inbox : Requested(v, j) => i = j
          /\ \A j \in DOMAIN outbox : ~ Answered(v, j)
      BY <1>0, <2>2, Zenon DEF OneRequest
    <3>3. v \in asked'
      BY <1>3, <1>4, <3>1, <3>2, Zenon
    <3>4. \A j \in DOMAIN outbox' : ~ Answered(v, j)'
      BY <1>8, <1>9, <3>2, Zenon
    <3>5. QED
      BY <1>13, <3>1, <3>2, <3>3, <3>4, Zenon
  <2>3. ASSUME NEW v \in Documents, NEW i \in DOMAIN outbox', Answered(v, i)'
        PROVE  v \in asked' /\ \A j \in DOMAIN outbox' : Answered(v, j)' => i = j
    <3>1. v # u
      BY <1>10, <2>3, Zenon
    <3>2. Answered(v, i + 1) /\ i + 1 \in DOMAIN outbox
      BY <1>8, <1>9, <2>3, Zenon
    <3>3. v \in asked /\ \A j \in DOMAIN outbox : Answered(v, j) => i + 1 = j
      BY <1>0, <3>2, Zenon DEF OneRequest
    <3>4. v \in asked'
      BY <1>3, <1>4, <3>1, <3>3, Zenon
    <3>5. \A j \in DOMAIN outbox' : i + 1 = j + 1 => i = j
      BY <1>8
    <3>6. \A j \in DOMAIN outbox' : Answered(v, j)' => i = j
      BY <1>8, <1>9, <3>3, <3>5, Zenon
    <3>7. QED
      BY <3>4, <3>6, Zenon
  <2>4. QED
    BY <1>2, <2>1, <2>2, <2>3, Zenon DEF OneRequest
<1>16. EntriesKnown'
  <2>1. ASSUME NEW e \in Range(services.semantic_tokens_cache)
        PROVE  /\ \A i \in DOMAIN outbox' : InFlight(e, i)' => CarriedBy(e, i)'
               /\ \/ \E i \in DOMAIN outbox' : InFlight(e, i)'
                  \/ tokens'[e.uri].id = 0
                  \/ tokens'[e.uri] = [id |-> e.counter, stream |-> e.data]
    <3>0. /\ \A i \in DOMAIN outbox : InFlight(e, i) => CarriedBy(e, i)
          /\ \/ \E i \in DOMAIN outbox : InFlight(e, i)
             \/ tokens[e.uri].id = 0
             \/ tokens[e.uri] = [id |-> e.counter, stream |-> e.data]
      BY <1>0, Zenon DEF EntriesKnown
    <3>1. e.uri \in Documents
      <4>1. services.semantic_tokens_cache \in Seq(CacheEntry)
        BY Owned, Zenon DEF ServicesTypes
      <4>2. QED
        BY <4>1, EntryFields, Zenon
    <3>2. \A i \in DOMAIN outbox' : /\ InFlight(e, i)' <=> InFlight(e, i + 1)
                                    /\ CarriedBy(e, i)' <=> CarriedBy(e, i + 1)
      BY <1>8, Zenon DEF InFlight, CarriedBy
    <3>3. \A i \in DOMAIN outbox' : InFlight(e, i)' => CarriedBy(e, i)'
      BY <1>8, <3>0, <3>2, Zenon
    <3>4. CASE e.uri # u
      <4>1. \A i \in DOMAIN outbox : InFlight(e, i) => i # 1
        BY <1>1, <1>4, <3>4, Zenon DEF InFlight
      <4>2. \A i \in DOMAIN outbox : i # 1 => i - 1 \in DOMAIN outbox' /\ (i - 1) + 1 = i
        BY <1>5
      <4>3. (\E i \in DOMAIN outbox : InFlight(e, i)) => \E i \in DOMAIN outbox' : InFlight(e, i)'
        <5>1. SUFFICES ASSUME NEW i \in DOMAIN outbox, InFlight(e, i)
                       PROVE  InFlight(e, i - 1)' /\ i - 1 \in DOMAIN outbox'
          BY Zenon
        <5>2. i - 1 \in DOMAIN outbox' /\ (i - 1) + 1 = i
          BY <4>1, <4>2, <5>1, Zenon
        <5>3. QED
          BY <3>2, <5>1, <5>2, Zenon
      <4>4. QED
        BY <1>13, <3>0, <3>1, <3>3, <3>4, <4>3, Zenon
    <3>5. CASE e.uri = u /\ a.is = "null"
      <4>1. \A i \in DOMAIN outbox : ~ InFlight(e, i)
        BY <1>1, <1>7, <3>5, Zenon DEF InFlight, Answered
      <4>2. QED
        BY <1>12, <3>0, <3>3, <3>5, <4>1, Zenon
    <3>6. CASE e.uri = u /\ a.is # "null"
      <4>1. InFlight(e, 1)
        BY <1>1, <1>4, <3>6, Zenon DEF InFlight
      <4>2. a.id = e.counter /\ a.stream = e.data
        BY <1>1, <1>6, <3>0, <4>1, Zenon DEF CarriedBy
      <4>3. QED
        BY <1>14, <3>3, <3>6, <4>2, Zenon
    <3>7. QED
      BY <3>4, <3>5, <3>6, Zenon
  <2>2. QED
    BY <1>2, <2>1, Zenon DEF EntriesKnown
<1>17. DeltasFit'
  <2>1. ASSUME NEW i \in DOMAIN outbox', outbox'[i].is = "delta"
        PROVE  outbox'[i].base = tokens'[outbox'[i].uri].stream
    <3>1. outbox'[i].uri \in Documents
      BY <1>8, AnswerFields, Zenon
    <3>2. outbox'[i].uri # u
      BY <1>10, Zenon DEF Answered
    <3>3. QED
      <4>1. i + 1 \in DOMAIN outbox /\ outbox'[i] = outbox[i + 1]
        BY <1>8, Zenon
      <4>2. outbox'[i].base = tokens[outbox'[i].uri].stream
        BY <1>0, <2>1, <4>1, Zenon DEF DeltasFit
      <4>3. QED
        BY <1>13, <3>1, <3>2, <4>2, Zenon
  <2>2. QED
    BY <2>1, Zenon DEF DeltasFit
<1>18. TokensInSync'
  <2>1. a.is # "null" => a.stream # Garbled
    BY <1>3, AnswerFields, StreamNames, Zenon
  <2>2. a.is # "null" => tokens'[u].stream = a.stream
    BY <1>14
  <2>3. QED
    BY <1>0, <1>12, <1>13, <2>1, <2>2, Zenon DEF TokensInSync
<1>19. QED
  BY <1>15, <1>16, <1>17, <1>18, Zenon DEF TokensInv

\* The loop answers a token request, with nothing or with a stream that the cache
\* holds from then on
LEMMA SyncAnswered ==
  ASSUME ServicesTypes, TokensInv, NEW m, m = inbox[1], m.is = "tokens", m.uri \in Documents,
         inbox # <<>>, inbox' = Tail(inbox), UNCHANGED <<tokens, asked>>,
         NEW cache, cache = services.semantic_tokens_cache,
         NEW a \in Answer, outbox' = Append(outbox, a), a.uri = m.uri,
         a.is = "delta" => \E e \in Range(cache) :
             e.uri = m.uri /\ e.counter = m.previousResultId /\ a.base = e.data,
         \/ a.is = "null" /\ services' = services
         \/ a.is # "null" /\ \A e \in Range(services'.semantic_tokens_cache) :
                \/ e.uri = m.uri /\ e.counter = a.id /\ e.data = a.stream
                \/ e \in Range(cache) /\ e.uri # m.uri
  PROVE  TokensInv'
<1>0. OneRequest /\ EntriesKnown /\ DeltasFit /\ TokensInSync
  BY Zenon DEF TokensInv
<1>1. PICK u \in Documents : u = m.uri
  BY Zenon
<1>2. 1 \in DOMAIN inbox /\ Requested(u, 1)
  <2>1. DOMAIN inbox = 1 .. Len(inbox) /\ Len(inbox) \in Nat \ {0}
    BY InboxTail, Zenon
  <2>2. QED
    BY <1>1, <2>1 DEF Requested
<1>3. /\ u \in asked /\ m.previousResultId = tokens[u].id
      /\ \A j \in DOMAIN outbox : ~ Answered(u, j)
  BY <1>0, <1>2, Zenon DEF OneRequest
<1>4. /\ Len(outbox) \in Nat
      /\ DOMAIN outbox = 1 .. Len(outbox) /\ DOMAIN outbox' = 1 .. Len(outbox) + 1
      /\ \A i \in 1 .. Len(outbox) : outbox'[i] = outbox[i]
      /\ outbox'[Len(outbox) + 1] = a
  BY OutboxAppend, Zenon
<1>5. PICK n : n = Len(outbox) + 1
  BY Zenon
<1>6. DOMAIN outbox' = DOMAIN outbox \cup {n} /\ n \notin DOMAIN outbox /\ outbox'[n] = a
  BY <1>4, <1>5
<1>7. \A i \in DOMAIN outbox : outbox'[i] = outbox[i]
  BY <1>4, Zenon
<1>8. \A v : /\ \A i \in DOMAIN outbox : Answered(v, i)' <=> Answered(v, i)
             /\ Answered(v, n)' <=> v = u
  BY <1>1, <1>6, <1>7, Zenon DEF Answered
<1>9. OneRequest'
  <2>1. ASSUME NEW v \in Documents, NEW i \in DOMAIN inbox', Requested(v, i)'
        PROVE  /\ v \in asked /\ inbox'[i].previousResultId = tokens[v].id
               /\ \A j \in DOMAIN inbox' : Requested(v, j)' => i = j
               /\ \A j \in DOMAIN outbox' : ~ Answered(v, j)'
    <3>1. /\ v \in asked /\ inbox'[i].previousResultId = tokens[v].id
          /\ ~ Requested(v, 1)
          /\ \A j \in DOMAIN inbox' : Requested(v, j)' => i = j
          /\ \A j \in DOMAIN outbox : ~ Answered(v, j)
      BY <1>0, <2>1, RequestsLeft, Zenon
    <3>2. v # u
      BY <1>2, <3>1, Zenon
    <3>3. \A j \in DOMAIN outbox' : ~ Answered(v, j)'
      BY <1>6, <1>8, <3>1, <3>2, Zenon
    <3>4. QED
      BY <3>1, <3>3, Zenon
  <2>2. ASSUME NEW v \in Documents, NEW i \in DOMAIN outbox', Answered(v, i)'
        PROVE  v \in asked /\ \A j \in DOMAIN outbox' : Answered(v, j)' => i = j
    <3>1. CASE v = u
      BY <1>3, <1>6, <1>8, <2>2, <3>1, Zenon
    <3>2. CASE v # u
      <4>1. i \in DOMAIN outbox /\ Answered(v, i)
        BY <1>6, <1>8, <2>2, <3>2, Zenon
      <4>2. v \in asked /\ \A j \in DOMAIN outbox : Answered(v, j) => i = j
        BY <1>0, <4>1, Zenon DEF OneRequest
      <4>3. QED
        BY <1>6, <1>8, <3>2, <4>2, Zenon
    <3>3. QED
      BY <3>1, <3>2, Zenon
  <2>3. tokens' = tokens /\ asked' = asked
    BY Zenon
  <2>4. QED
    BY <2>1, <2>2, <2>3 DEF OneRequest
<1>10. ASSUME NEW e \in Range(cache), e.uri # u \/ a.is = "null"
       PROVE  /\ \A i \in DOMAIN outbox' : InFlight(e, i)' => CarriedBy(e, i)'
              /\ \/ \E i \in DOMAIN outbox' : InFlight(e, i)'
                 \/ tokens[e.uri].id = 0
                 \/ tokens[e.uri] = [id |-> e.counter, stream |-> e.data]
  <2>1. \A i \in DOMAIN outbox : (InFlight(e, i)' <=> InFlight(e, i)) /\ (CarriedBy(e, i)' <=> CarriedBy(e, i))
    BY <1>7, Zenon DEF InFlight, CarriedBy
  <2>2. ~ InFlight(e, n)'
    BY <1>1, <1>6, <1>10, Zenon DEF InFlight
  <2>3. /\ \A i \in DOMAIN outbox : InFlight(e, i) => CarriedBy(e, i)
        /\ \/ \E i \in DOMAIN outbox : InFlight(e, i)
           \/ tokens[e.uri].id = 0
           \/ tokens[e.uri] = [id |-> e.counter, stream |-> e.data]
    BY <1>0, Zenon DEF EntriesKnown
  <2>4. QED
    BY <1>6, <2>1, <2>2, <2>3, Zenon
<1>11. EntriesKnown'
  <2>1. ASSUME NEW e \in Range(services'.semantic_tokens_cache)
        PROVE  /\ \A i \in DOMAIN outbox' : InFlight(e, i)' => CarriedBy(e, i)'
               /\ \/ \E i \in DOMAIN outbox' : InFlight(e, i)'
                  \/ tokens[e.uri].id = 0
                  \/ tokens[e.uri] = [id |-> e.counter, stream |-> e.data]
    <3>1. CASE e \in Range(cache) /\ (e.uri # u \/ a.is = "null")
      BY <1>10, <3>1, Zenon
    <3>2. CASE a.is # "null" /\ e.uri = m.uri /\ e.counter = a.id /\ e.data = a.stream
      <4>1. InFlight(e, n)' /\ CarriedBy(e, n)'
        BY <1>6, <3>2, Zenon DEF InFlight, CarriedBy
      <4>2. \A i \in DOMAIN outbox : ~ InFlight(e, i)'
        BY <1>1, <1>3, <1>7, <3>2, Zenon DEF InFlight, Answered
      <4>3. QED
        BY <1>6, <4>1, <4>2, Zenon
    <3>3. QED
      BY <1>1, <3>1, <3>2, Zenon
  <2>2. QED
    BY <2>1, Zenon DEF EntriesKnown
<1>12. DeltasFit'
  <2>1. a.is = "delta" => a.base = tokens[u].stream
    <3>1. SUFFICES ASSUME a.is = "delta" PROVE a.base = tokens[u].stream
      BY Zenon
    <3>2. PICK e \in Range(cache) : e.uri = u /\ e.counter = tokens[u].id /\ a.base = e.data
      BY <1>1, <1>3, <3>1, Zenon
    <3>3. e.counter # 0
      <4>1. cache \in Seq(CacheEntry)
        BY Owned, Zenon DEF ServicesTypes
      <4>2. e.counter \in Nat \ {0}
        BY <4>1, EntryFields, Zenon
      <4>3. QED
        BY <4>2, Zenon
    <3>4. \A i \in DOMAIN outbox : ~ InFlight(e, i)
      BY <1>3, <3>2, Zenon DEF InFlight, Answered
    <3>5. tokens[e.uri].id = 0 \/ tokens[e.uri] = [id |-> e.counter, stream |-> e.data]
      BY <1>0, <3>4, Zenon DEF EntriesKnown
    <3>6. tokens[u] = [id |-> e.counter, stream |-> e.data]
      BY <3>2, <3>3, <3>5, Zenon
    <3>7. QED
      BY <3>2, <3>6
  <2>2. ASSUME NEW i \in DOMAIN outbox', outbox'[i].is = "delta"
        PROVE  outbox'[i].base = tokens[outbox'[i].uri].stream
    <3>1. CASE i = n
      BY <1>1, <1>6, <2>1, <2>2, <3>1, Zenon
    <3>2. CASE i \in DOMAIN outbox
      BY <1>0, <1>7, <2>2, <3>2, Zenon DEF DeltasFit
    <3>3. QED
      BY <1>6, <3>1, <3>2, Zenon
  <2>3. QED
    BY <2>2, Zenon DEF DeltasFit
<1>13. TokensInSync'
  BY <1>0, Zenon DEF TokensInSync
<1>14. QED
  BY <1>9, <1>11, <1>12, <1>13, Zenon DEF TokensInv

\* Every step of an editor that drops no answer keeps the tokens in sync
LEMMA SyncStep ==
  ASSUME ~ Discards, ServicesTypes, TokensInv, [ServicesNext]_servicesVars
  PROVE  TokensInv'
<1>0. services \in Bundle
  BY Zenon DEF ServicesTypes
<1>1. ASSUME UNCHANGED <<inbox, outbox, tokens, asked>>,
             Range(services'.semantic_tokens_cache) \subseteq Range(services.semantic_tokens_cache)
      PROVE  TokensInv'
  <2>1. OneRequest' /\ DeltasFit' /\ TokensInSync'
    BY <1>1 DEF TokensInv, OneRequest, Requested, Answered, DeltasFit, TokensInSync
  <2>2. EntriesKnown'
    BY <1>1, Zenon DEF TokensInv, EntriesKnown, InFlight, CarriedBy
  <2>3. QED
    BY <2>1, <2>2, Zenon DEF TokensInv
<1>2. ASSUME NEW u \in Documents, Edit(u) \/ Save(u)
      PROVE  TokensInv'
  <2>1. used.texts + 1 \in Texts \ {Closed}
    BY <1>2, Used, Zenon DEF Edit, Save, ServicesTypes
  <2>2. PICK is \in {"didOpen", "didChange", "didSave"} :
            inbox' = Append(inbox, [is |-> is, uri |-> u, text |-> used.texts + 1])
    BY <1>2, Zenon DEF Edit, Save, Send
  <2>3. PICK m : m = [is |-> is, uri |-> u, text |-> used.texts + 1]
    BY Zenon
  <2>4. /\ m \in Message /\ m.is # "tokens"
        /\ inbox' = Append(inbox, m) /\ UNCHANGED <<outbox, services, tokens, asked>>
    BY <1>2, <2>1, <2>2, <2>3, Zenon DEF Message, Edit, Save, Send, serverVars
  <2>5. QED
    BY <2>3, <2>4, SyncTyped, Zenon
<1>3. ASSUME NEW u \in Documents, Close(u)
      PROVE  TokensInv'
  <2>1. PICK m : m = [is |-> "didClose", uri |-> u]
    BY Zenon
  <2>2. m \in Message /\ m.is # "tokens"
    BY <2>1, Zenon DEF Message
  <2>3. inbox' = Append(inbox, m) /\ UNCHANGED <<outbox, services, asked>>
    BY <1>3, <2>1, Zenon DEF Close, Send, serverVars
  <2>4. \A v \in Documents : tokens'[v] = tokens[v] \/ (v \notin asked /\ tokens'[v] = NoTokens)
    BY <1>3, Zenon DEF Close, ServicesTypes
  <2>5. QED
    BY <2>2, <2>3, <2>4, SyncTyped, Zenon
<1>4. ASSUME NEW u \in Documents, AskTokens(u)
      PROVE  TokensInv'
  <2>1. PICK m : m = [is |-> "tokens", uri |-> u, previousResultId |-> tokens[u].id]
    BY Zenon
  <2>2. tokens[u].id \in Nat
    BY Zenon DEF ServicesTypes
  <2>3. m \in Message /\ m.uri = u /\ m.previousResultId = tokens[u].id
    BY <2>1, <2>2, Zenon DEF Message
  <2>4. /\ inbox' = Append(inbox, m) /\ UNCHANGED <<outbox, services, tokens>>
        /\ u \notin asked /\ asked' = asked \cup {u}
    BY <1>4, <2>1, Zenon DEF AskTokens, Send, serverVars
  <2>5. QED
    BY <2>3, <2>4, SyncTyped, Zenon
<1>5. CASE Receive
  BY <1>5, SyncReceived, Zenon
<1>6. CASE on_did_open \/ on_did_change \/ did_save_text
  <2>1. inbox # <<>> /\ inbox' = Tail(inbox) /\ UNCHANGED <<outbox, tokens, asked, services>>
    BY <1>6, Zenon DEF on_did_open, on_did_change, did_save_text, Take, editorVars
  <2>2. QED
    BY <2>1, SyncNoted, Zenon
<1>7. CASE on_did_close
  <2>1. PICK u : u = Head(inbox).uri
    BY Zenon
  <2>2. PICK cache : cache = services.semantic_tokens_cache
    BY Zenon
  <2>3. /\ drop_uri(cache, u) \in Seq(CacheEntry)
        /\ \A e : e \in Range(drop_uri(cache, u)) => e \in Range(cache)
    BY <1>0, <2>2, Owned, DropUri, Zenon DEF ServicesTypes
  <2>4. /\ inbox # <<>> /\ inbox' = Tail(inbox) /\ UNCHANGED <<outbox, tokens, asked>>
        /\ services' = services \/ services' = [services EXCEPT !.semantic_tokens_cache = drop_uri(cache, u)]
    BY <1>7, <2>1, <2>2, Zenon DEF on_did_close, Take, editorVars
  <2>5. services' = services \/ services'.semantic_tokens_cache = drop_uri(cache, u)
    BY <1>0, <2>3, <2>4, CacheReplaced, Zenon
  <2>6. Range(services'.semantic_tokens_cache) \subseteq Range(cache)
    BY <2>2, <2>3, <2>5, Zenon
  <2>7. QED
    BY <2>2, <2>4, <2>6, SyncNoted, Zenon
<1>8. CASE semantic_tokens_full_delta
  <2>1. PICK m : m = inbox[1]
    BY Zenon
  <2>2. PICK cache : cache = services.semantic_tokens_cache
    OBVIOUS
  <2>3. /\ m.is = "tokens" /\ m.uri \in Documents /\ inbox # <<>> /\ inbox' = Tail(inbox)
        /\ UNCHANGED <<tokens, asked>>
    BY <1>8, <2>1, <2>2, TokensAnswered, Zenon DEF editorVars
  <2>4. CASE outbox' = Append(outbox, NullAnswer(m.uri)) /\ services' = services
    <3>1. PICK a : a = NullAnswer(m.uri)
      BY Zenon
    <3>2. a \in Answer /\ a.is = "null" /\ a.is # "delta" /\ a.uri = m.uri
      BY <2>3, <3>1, Zenon DEF NullAnswer, Answer
    <3>3. QED
      BY <2>1, <2>2, <2>3, <2>4, <3>1, <3>2, SyncAnswered, Zenon
  <2>5. ASSUME NEW a \in Answer, outbox' = Append(outbox, a),
               a.is \in {"full", "delta"}, a.uri = m.uri,
               a.id = next_counter(cache, m.uri),
               a.is = "delta" => \E e \in Range(cache) :
                   e.uri = m.uri /\ e.counter = m.previousResultId /\ a.base = e.data,
               services' = [services EXCEPT !.semantic_tokens_cache = store(cache, m.uri, a.stream)]
        PROVE  TokensInv'
    <3>1. cache \in Seq(CacheEntry) /\ Unique(cache) /\ a.stream \in Streams
      BY <1>0, <2>2, <2>3, <2>5, Owned, AnswerFields, Zenon DEF ServicesTypes
    <3>2. PICK new : new = [uri |-> m.uri, counter |-> next_counter(cache, m.uri), data |-> a.stream]
      BY Zenon
    <3>3. /\ store(cache, m.uri, a.stream) \in Seq(CacheEntry)
          /\ \A e \in Range(store(cache, m.uri, a.stream)) : e = new \/ (e \in Range(cache) /\ e.uri # m.uri)
      BY <2>3, <3>1, <3>2, Stored
    <3>4. services'.semantic_tokens_cache = store(cache, m.uri, a.stream)
      BY <1>0, <2>5, <3>3, CacheReplaced, Zenon
    <3>5. new.uri = m.uri /\ new.counter = a.id /\ new.data = a.stream
      BY <2>5, <3>2, Zenon
    <3>6. \A e \in Range(services'.semantic_tokens_cache) :
              \/ e.uri = m.uri /\ e.counter = a.id /\ e.data = a.stream
              \/ e \in Range(cache) /\ e.uri # m.uri
      BY <3>3, <3>4, <3>5, Zenon
    <3>7. a.is # "null"
      BY <2>5, Zenon
    <3>8. \/ a.is = "null" /\ services' = services
          \/ a.is # "null" /\ \A e \in Range(services'.semantic_tokens_cache) :
                \/ e.uri = m.uri /\ e.counter = a.id /\ e.data = a.stream
                \/ e \in Range(cache) /\ e.uri # m.uri
      BY <3>6, <3>7, Zenon
    <3>9. outbox' = Append(outbox, a) /\ a.uri = m.uri
      BY <2>5, Zenon
    <3>10. a.is = "delta" => \E e \in Range(cache) :
               e.uri = m.uri /\ e.counter = m.previousResultId /\ a.base = e.data
      BY <2>5, Zenon
    <3>11. QED
      BY <2>1, <2>2, <2>3, <3>8, <3>9, <3>10, SyncAnswered, Zenon
  <2>6. TokensReply(m, cache)
    BY <1>8, <2>1, <2>2, TokensAnswered, Zenon
  <2>7. QED
    BY <2>4, <2>5, <2>6, Zenon DEF TokensReply
<1>9. CASE pre_ready
  <2>1. PICK m : m = inbox[1]
    OBVIOUS
  <2>2. PICK cache : cache = services.semantic_tokens_cache
    OBVIOUS
  <2>3. Take("tokens") /\ UNCHANGED <<tokens, asked, services>>
        /\ outbox' = Append(outbox, NullAnswer(Head(inbox).uri))
    BY <1>9, Zenon DEF pre_ready, Take, editorVars, serverVars, NullAnswer
  <2>4. /\ m.is = "tokens" /\ m.uri \in Documents /\ inbox # <<>> /\ inbox' = Tail(inbox) /\ Head(inbox) = m
    BY <2>1, <2>3, Taken, Zenon
  <2>5. PICK a : a = NullAnswer(m.uri)
    OBVIOUS
  <2>6. a \in Answer /\ a.is = "null" /\ a.is # "delta" /\ a.uri = m.uri
    BY <2>4, <2>5, Zenon DEF NullAnswer, Answer
  <2>7. QED
    BY <2>1, <2>2, <2>3, <2>4, <2>5, <2>6, SyncAnswered, Zenon
<1>10. CASE replay \/ \E u \in Documents : pc_value(u)
  BY <1>1, <1>10, Zenon DEF replay, pc_value, editorVars
<1>11. ASSUME NEW u \in Documents, completion(u)
       PROVE  TokensInv'
  <2>1. /\ services' = [services EXCEPT !.last_completion_target = services.uri_to_target[u]]
        /\ UNCHANGED <<inbox, outbox, tokens, asked>>
    BY <1>11, Zenon DEF completion, editorVars
  <2>2. services'.semantic_tokens_cache = services.semantic_tokens_cache
    BY <1>0, <2>1, Zenon DEF Bundle
  <2>3. QED
    BY <1>1, <2>1, <2>2, Zenon
<1>12. ASSUME NEW owner \in Owners, NEW indexable \in SUBSET BuildTargets, reload_build_model(owner, indexable)
       PROVE  TokensInv'
  <2>1. UNCHANGED <<inbox, outbox, tokens, asked>>
    BY <1>12, Reloaded, Zenon DEF editorVars
  <2>2. services' = services \/ services' = CoreServices(owner, indexable, TRUE)
    BY <1>12, Reloaded, Zenon
  <2>3. services' = services \/ Range(services'.semantic_tokens_cache) = {}
    BY <2>2 DEF CoreServices, Range
  <2>4. QED
    BY <1>1, <2>1, <2>3, Zenon
<1>13. CASE UNCHANGED servicesVars
  BY <1>1, <1>13, Zenon DEF servicesVars
<1>14. ~ Discard
  BY Zenon DEF Discard
<1>15. QED
  BY <1>2, <1>3, <1>4, <1>5, <1>6, <1>7, <1>8, <1>9, <1>10, <1>11, <1>12, <1>13, <1>14, Zenon
  DEF ServicesNext, Typing, Handling

\* No request, answer or stream is there at first
LEMMA SyncInit == ServicesInit => TokensInv
<1> SUFFICES ASSUME ServicesInit PROVE TokensInv
  OBVIOUS
<1>1. inbox = <<>> /\ outbox = <<>> /\ \A u \in Documents : tokens[u] = NoTokens
  BY Zenon DEF ServicesInit
<1>2. DOMAIN inbox = {} /\ DOMAIN outbox = {}
  BY <1>1
<1>3. services.semantic_tokens_cache = <<>>
  BY DEF ServicesInit, CoreServices
<1>4. Range(services.semantic_tokens_cache) = {}
  BY <1>3 DEF Range
<1>5. NoTokens.stream # Garbled
  BY StreamNames, Zenon
<1>6. QED
  BY <1>1, <1>2, <1>4, <1>5, Zenon DEF TokensInv, OneRequest, EntriesKnown, DeltasFit, TokensInSync

\* An editor that receives every answer never applies a splice to a stream other than
\* the one it was computed against, whatever is evicted from the cache, closed or
\* reloaded while its requests and their answers are under way (next_counter, store,
\* previous, drop_uri, semantic_tokens_full_delta)
THEOREM TokensStayInSync ==
  ASSUME ~ Discards
  PROVE  ServicesSpec => []TokensInSync
<1>1. ServicesInit => ServicesTypes /\ TokensInv
  BY TypesInit, SyncInit, Zenon
<1>2. ServicesTypes /\ TokensInv /\ [ServicesNext]_servicesVars => ServicesTypes' /\ TokensInv'
  BY TypesStep, SyncStep, Zenon
<1>3. TokensInv => TokensInSync
  BY Zenon DEF TokensInv
<1>4. QED
  BY <1>1, <1>2, <1>3, PTL DEF ServicesSpec
===============================================================================
