-------------------------------- MODULE Proxy --------------------------------
(***************************************************************************)
(* The attested request path (src/src/proxy.rs): requests handled          *)
(* concurrently, each by the extractor DecryptedRequest and then           *)
(* proxy_handler, while the route table is swapped and sessions come and   *)
(* go.  One action is what a handler does between two awaits; a client     *)
(* that disconnects drops the handler at the await it has reached, and a   *)
(* restart of the process drops them all, with everything in memory.       *)
(*                                                                         *)
(* What a client sends is chosen by the action that first reads it.  The   *)
(* session registry, the replay window and the upstream are external.      *)
(***************************************************************************)
EXTENDS Routing

CONSTANTS
  Requests,    \* the requests that can arrive
  MaxHandshakes, \* bound: successful handshakes
  Nonces,      \* the nonces a client can draw
  Targets,     \* [host, path] pairs that can be asked for
  Tables,      \* the route tables that the manager can publish
  MaxBody,     \* max_body_bytes
  UsizeMax,    \* the largest usize
  Lens,        \* lengths of decrypted request bodies
  Chunks,      \* sizes of the upstream's body chunks
  MaxSessions, \* atb_max_sessions
  MaxSwaps,    \* bound: publications of a table and restarts
  MaxGiven,    \* bound: bytes one upstream response has
  None         \* no value yet

ASSUME ProxyConstants ==
  /\ MaxBody \in Nat /\ UsizeMax \in Nat /\ MaxBody <= UsizeMax
  /\ IsFiniteSet(Requests)
  /\ Lens \subseteq Nat /\ Chunks \subseteq Nat \ {0}
  /\ MaxSessions \in Nat /\ MaxHandshakes \in Nat /\ MaxSwaps \in Nat /\ MaxGiven \in Nat

\* What a client can have got of a response, which may not have ended yet.
Responses == [sealed : BOOLEAN, status : Nat, body : Nat, end : {"open", "complete", "aborted"}]

ASSUME NoneIsNoResponse == None \notin Responses

VARIABLES
  tables,    \* the published tables, the live one last
  booted,    \* auxiliary: the number of the table the process started with
  minted,    \* sessions minted so far, by whatever process
  registry,  \* sessions in the registry
  accepted,  \* [Sessions -> SUBSET Nonces]: nonces the replay window has seen
  pc,        \* where each request's handler is
  req,       \* what it has read of its request
  since,     \* auxiliary: the live table's number when the request arrived
  sent,      \* what reached upstreams: a set of [upstream, target]
  given,     \* bytes the upstream has sent back
  response,  \* what the client has got
  metrics    \* the counters of metrics.rs that the handlers move

\* The process as a whole, and what it has of its requests.
procVars == << tables, booted, minted, registry >>
proxyVars == << procVars, accepted, pc, req, since, sent, given, response, metrics >>

Table == tables[Len(tables)]

\* Session ids are drawn at random and never drawn twice: they are numbered.
Sessions == 1..MaxHandshakes

NoMetrics == [handshakes |-> 0, decrypt_failures |-> 0, upstream_requests |-> 0,
              upstream_errors |-> 0, latency_count |-> 0]

Init ==
  /\ \E t \in Tables : tables = << t >>
  /\ booted = 1
  /\ minted = 0
  /\ registry = {}
  /\ accepted = [s \in Sessions |-> {}]
  /\ pc = [r \in Requests |-> "idle"]
  /\ req = [r \in Requests |-> [session |-> None, nonce |-> None, len |-> 0, whole |-> FALSE]]
  /\ since = [r \in Requests |-> 0]
  /\ sent = [r \in Requests |-> {}]
  /\ given = [r \in Requests |-> 0]
  /\ response = [r \in Requests |-> None]
  /\ metrics = NoMetrics

Count(counter) == [metrics EXCEPT ![counter] = @ + 1]

\* The handler returns: a bare response, or one sealed under the session.
Answer(r, sealed, status) ==
  /\ response' = [response EXCEPT ![r] = [sealed |-> sealed, status |-> status,
                                          body |-> 0, end |-> "complete"]]
  /\ pc' = [pc EXCEPT ![r] = "done"]

-----------------------------------------------------------------------------
\* RouteManager::run stores a new table.
Publish ==
  /\ Len(tables) <= MaxSwaps
  /\ \E t \in Tables \ {Table} : tables' = Append(tables, t)
  /\ UNCHANGED << booted, minted, registry, accepted, pc, req, since, sent, given, response,
                  metrics >>

\* A successful POST /attest: the registry takes the session if it has room,
\* and the middleware counts it.
Handshake ==
  /\ Cardinality(registry) < MaxSessions
  /\ minted < MaxHandshakes
  /\ minted' = minted + 1
  /\ registry' = registry \cup {minted'}
  /\ metrics' = Count("handshakes")
  /\ UNCHANGED << tables, booted, accepted, pc, req, since, sent, given, response >>

\* The eviction task drops an expired session; handlers that hold it keep it.
Evict ==
  /\ \E s \in registry : registry' = registry \ {s}
  /\ UNCHANGED << tables, booted, minted, accepted, pc, req, since, sent, given, response,
                  metrics >>

\* The process stops, with its handlers, and starts again on the file's table.
\* Registry, replay windows and counters are in memory only.
Restart ==
  /\ Len(tables) <= MaxSwaps
  /\ \E t \in Tables : tables' = Append(tables, t)
  /\ booted' = Len(tables')
  /\ registry' = {}
  /\ accepted' = [s \in Sessions |-> {}]
  /\ pc' = [r \in Requests |-> IF pc[r] \in {"idle", "done"} THEN pc[r] ELSE "gone"]
  /\ metrics' = NoMetrics
  /\ UNCHANGED << minted, req, since, sent, given, response >>

Arrive(r) ==
  /\ pc[r] = "idle"
  /\ pc' = [pc EXCEPT ![r] = "gate"]
  /\ since' = [since EXCEPT ![r] = Len(tables)]
  /\ UNCHANGED << procVars, accepted, req, sent, given, response, metrics >>

\* TrRequestLayer and the session extractor: a session that is not in the
\* registry, or no ticket, is a 401; a ticket that does not decode a 400.
Gate(r) ==
  /\ pc[r] = "gate"
  /\ \/ \E status \in {400, 401} : Answer(r, FALSE, status) /\ UNCHANGED req
     \/ /\ \E s \in registry, n \in Nonces :
             req' = [req EXCEPT ![r].session = s, ![r].nonce = n]
        /\ pc' = [pc EXCEPT ![r] = "body"]
        /\ UNCHANGED response
  /\ UNCHANGED << procVars, accepted, since, sent, given, metrics >>

Saturate(n) == IF n > UsizeMax THEN UsizeMax ELSE n

\* A cap on the ciphertext's bytes, not on their hexadecimal digits.
PreDecryptCapMutant == Saturate(Saturate(MaxBody + 16) + 64)

\* The cap on the buffered envelope.
PreDecryptCap == Saturate(Saturate(Saturate(MaxBody + 16) * 2) + 64)

\* {"ciphertext":"<hex>"}, without spaces: the digits of the body and its
\* 16-byte tag.
EnvelopeSize(len) == 17 + 2 * (len + 16)

\* What is buffered has a length that is a usize.
ASSUME EnvelopesFit == \A len \in Lens : EnvelopeSize(len) <= UsizeMax

\* A replay window that never refuses.
MayOpenMutant(s, n) == TRUE

\* with_keys_for_trr: a nonce the session has accepted is refused.
MayOpen(s, n) == n \notin accepted[s]

\* The session's window takes the request's nonce.
Mark(r) == accepted' = [accepted EXCEPT ![req[r].session] = @ \cup {req[r].nonce}]

\* The envelope is too long, or its JSON, hex or authority is not right.
EnvelopeRefused(r, len) ==
  /\ \/ EnvelopeSize(len) > PreDecryptCap /\ Answer(r, FALSE, 413)
     \/ EnvelopeSize(len) <= PreDecryptCap /\ Answer(r, FALSE, 400)
  /\ UNCHANGED << accepted, metrics >>

\* Ticket MAC or decryption fails, before or after the window saw the nonce.
CannotOpen(r, len) ==
  /\ EnvelopeSize(len) <= PreDecryptCap
  /\ \E status \in {400, 401, 500} : Answer(r, FALSE, status)
  /\ metrics' = Count("decrypt_failures")
  /\ UNCHANGED accepted \/ Mark(r)

\* Decrypted under the session's keys; then the plaintext's size is checked.
Opens(r, len) ==
  /\ EnvelopeSize(len) <= PreDecryptCap
  /\ MayOpen(req[r].session, req[r].nonce)
  /\ Mark(r)
  /\ \/ len > MaxBody /\ Answer(r, TRUE, 413)
     \/ /\ len <= MaxBody
        /\ pc' = [pc EXCEPT ![r] = "route"]
        /\ UNCHANGED response
  /\ UNCHANGED metrics

\* to_bytes fails: a body that breaks off is answered like one that is too long.
BodyBreaks(r) ==
  /\ Answer(r, FALSE, 413)
  /\ UNCHANGED << accepted, metrics >>

\* The request's body has arrived, whole or not.
Decrypt(r) ==
  /\ pc[r] = "body"
  /\ \/ BodyBreaks(r) /\ UNCHANGED req
     \/ \E len \in Lens :
          /\ req' = [req EXCEPT ![r].len = len, ![r].whole = TRUE]
          /\ EnvelopeRefused(r, len) \/ CannotOpen(r, len) \/ Opens(r, len)
  /\ UNCHANGED << procVars, since, sent, given >>

\* Routing by the table of the time the process started.
LiveTableMutant(r) == tables[1]

\* state.routes.load().
LiveTable(r) == Table

\* proxy_handler up to the send: one load of the table decides the route.
Route(r) ==
  /\ pc[r] = "route"
  /\ \E target \in Targets :
       LET route == Select(LiveTable(r), target.host, target.path) IN
       \/ /\ route = NoRoute
          /\ Answer(r, TRUE, 404)
          /\ UNCHANGED << sent, metrics >>
       \/ /\ route # NoRoute
          /\ metrics' = Count("upstream_requests")
          /\ sent' = [sent EXCEPT ![r] = @ \cup {[upstream |-> route.upstream, target |-> target]}]
          /\ pc' = [pc EXCEPT ![r] = "upstream"]
          /\ UNCHANGED response
  /\ UNCHANGED << procVars, accepted, req, since, given >>

\* A failure answered in the clear.
UpstreamFailsMutant(r) ==
  /\ pc[r] = "upstream"
  /\ \E status \in {502, 504} : Answer(r, FALSE, status)
  /\ metrics' = [Count("upstream_errors") EXCEPT !.latency_count = @ + 1]
  /\ UNCHANGED << procVars, accepted, req, since, sent, given >>

\* An upstream error that returns before its latency is observed.
UpstreamUntimedMutant(r) ==
  /\ pc[r] = "upstream"
  /\ \E status \in {502, 504} : Answer(r, TRUE, status)
  /\ metrics' = Count("upstream_errors")
  /\ UNCHANGED << procVars, accepted, req, since, sent, given >>

\* send().await fails: 504 for a timeout, 502 otherwise.
UpstreamFails(r) ==
  /\ pc[r] = "upstream"
  /\ \E status \in {502, 504} : Answer(r, TRUE, status)
  /\ metrics' = [Count("upstream_errors") EXCEPT !.latency_count = @ + 1]
  /\ UNCHANGED << procVars, accepted, req, since, sent, given >>

\* send().await returns a response head: an over-cap Content-Length is
\* refused, anything else starts the sealed stream with its Head frame.
UpstreamAnswers(r) ==
  /\ pc[r] = "upstream"
  /\ metrics' = Count("latency_count")
  /\ \/ Answer(r, TRUE, 413)
     \/ /\ response' = [response EXCEPT ![r] = [sealed |-> TRUE, status |-> 200,
                                                body |-> 0, end |-> "open"]]
        /\ pc' = [pc EXCEPT ![r] = "stream"]
  /\ UNCHANGED << procVars, accepted, req, since, sent, given >>

\* A stream that just stops at the cap.
OverCapEndMutant == "complete"

\* An Err item ends the sealed stream without its end marker.
OverCapEnd == "aborted"

\* A body chunk: sealed as a Body frame while the running total is in the cap.
Chunk(r) ==
  /\ pc[r] = "stream"
  /\ \E c \in Chunks :
       /\ given[r] + c <= MaxGiven
       /\ given' = [given EXCEPT ![r] = @ + c]
       /\ \/ /\ given[r] + c > MaxBody
             /\ response' = [response EXCEPT ![r].end = OverCapEnd]
             /\ pc' = [pc EXCEPT ![r] = "done"]
          \/ /\ given[r] + c <= MaxBody
             /\ response' = [response EXCEPT ![r].body = @ + c]
             /\ UNCHANGED pc
  /\ UNCHANGED << procVars, accepted, req, since, sent, metrics >>

\* The upstream body ends, or reading it fails.
StreamEnds(r) ==
  /\ pc[r] = "stream"
  /\ \E end \in {"complete", "aborted"} : response' = [response EXCEPT ![r].end = end]
  /\ pc' = [pc EXCEPT ![r] = "done"]
  /\ UNCHANGED << procVars, accepted, req, since, sent, given, metrics >>

\* The client disconnects: the handler is dropped where it awaits.
Disconnect(r) ==
  /\ pc[r] \in {"body", "upstream", "stream"}
  /\ pc' = [pc EXCEPT ![r] = "gone"]
  /\ UNCHANGED << procVars, accepted, req, since, sent, given, response, metrics >>

\* The handler's own steps, and the ones that wait for the upstream.
HandlerStep(r) == Gate(r) \/ Decrypt(r) \/ Route(r)
UpstreamStep(r) == UpstreamFails(r) \/ UpstreamAnswers(r) \/ Chunk(r) \/ StreamEnds(r)

Next ==
  \/ Publish
  \/ Handshake
  \/ Evict
  \/ Restart
  \/ \E r \in Requests : Arrive(r) \/ HandlerStep(r) \/ UpstreamStep(r) \/ Disconnect(r)

Spec == Init /\ [][Next]_proxyVars
-----------------------------------------------------------------------------
\* "bare non-2xx responses are always pre-forward": a client that gets an
\* unsealed error may retry, because no upstream has seen the request.
BareMeansNotForwarded ==
  \A r \in Requests :
    response[r] # None /\ ~response[r].sealed => sent[r] = {}

\* The replay window holds across concurrent handlers, and although a restart
\* forgets it, since it also forgets the sessions: of all requests that carry
\* one nonce of one session, at most one is forwarded.
ForwardedOncePerNonce ==
  \A q, r \in Requests :
    /\ q # r
    /\ sent[q] # {} /\ sent[r] # {}
    => req[q].session # req[r].session \/ req[q].nonce # req[r].nonce

\* How far a request has got, as the client of AttestedRequest sees it.
Phase(r) ==
  CASE pc[r] = "gone" -> "lost"
    [] pc[r] = "done" /\ ~response[r].sealed -> "refused"
    [] pc[r] = "done" /\ response[r].sealed ->
         (IF response[r].end = "aborted" THEN "cut" ELSE "answered")
    [] OTHER -> IF sent[r] = {} THEN "new" ELSE "forwarded"

Ticket(r) == << req[r].session, req[r].nonce >>

Client == INSTANCE AttestedRequest WITH
  Tickets <- Sessions \X Nonces,
  phase <- [r \in Requests |-> Phase(r)],
  used <- {Ticket(r) : r \in {q \in Requests : sent[q] # {}}}

\* The request path keeps AttestedRequest's promise: what the client sees of a
\* request never goes back, a bare refusal is final and reached no upstream
\* (the client's one retry after a new handshake is the only request that
\* does), and no ticket is forwarded twice.
ImplementsAttestedRequest == Client!Contract

\* A request goes where one table that was live while it was being handled
\* sends it, never where a table replaced before it arrived would.
RoutedByLiveTable ==
  \A r \in Requests : \A call \in sent[r] :
    \E i \in since[r]..Len(tables) :
      LET route == Select(tables[i], call.target.host, call.target.path)
      IN  route # NoRoute /\ route.upstream = call.upstream

\* A response that ends as complete has every byte the upstream sent, and no
\* client is ever given more than max_body_bytes: an over-cap or broken body
\* never looks like a whole one.
CompleteMeansWhole ==
  \A r \in Requests : response[r] # None =>
    /\ response[r].body <= MaxBody
    /\ response[r].end = "complete" => response[r].body = given[r]

\* The two size checks, on the envelope before and on the plaintext after
\* decryption, amount to the one cap that is configured: of the bodies that
\* arrive whole none within max_body_bytes is refused as too large, before or
\* after decryption, and none above it reaches an upstream.
CapIsOnPlaintext ==
  \A r \in Requests :
    /\ response[r] # None /\ response[r].status = 413 /\ sent[r] = {}
         => ~req[r].whole \/ req[r].len > MaxBody
    /\ sent[r] # {} => req[r].whole /\ req[r].len <= MaxBody

\* Every upstream request that this process has counted is answered and timed, in flight,
\* or was dropped with its client; errors are exactly the 502s and 504s.  It is
\* stated of the moments when every handler is at an await.
CountersBalance ==
  LET forwarded == {r \in Requests : since[r] >= booted /\ sent[r] # {}}
      sum == Cardinality(forwarded)
      untimed == {r \in forwarded : response[r] = None /\ pc[r] \in {"upstream", "gone"}}
      failed == {r \in forwarded : response[r] # None /\ response[r].sealed
                                   /\ response[r].status \in {502, 504}}
  IN  /\ metrics.upstream_requests = sum
      /\ metrics.latency_count + Cardinality(untimed) = sum
      /\ metrics.upstream_errors = Cardinality(failed)
=============================================================================
