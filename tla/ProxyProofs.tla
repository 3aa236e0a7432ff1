----------------------------- MODULE ProxyProofs -----------------------------
(***************************************************************************)
(* The theorems of the request path: for any number of requests, sessions, *)
(* tables and restarts, the safety properties of Proxy and the promise of  *)
(* AttestedRequest.  First come lemmas about its steps: a step of one      *)
(* request's handler changes nothing of another request, and what it       *)
(* changes of its own is one of a few moves.                               *)
(***************************************************************************)
EXTENDS Proxy, TLAPS

\* The statuses the handlers answer with, and the places they can be at.
Status == {200, 400, 401, 404, 413, 500, 502, 504}
Places == {"idle", "gate", "body", "route", "upstream", "stream", "done", "gone"}

\* Where a handler has not reached the upstream, and where it has a session.
Waiting == {"idle", "gate", "body", "route"}
Holding == {"body", "route", "upstream", "stream"}

\* A variable is a function of the requests; and a step changes it at r only.
Fun(f) == f = [q \in Requests |-> f[q]]
Local(f, g, r) == Fun(g) /\ \A q \in Requests : q # r => g[q] = f[q]

Functions ==
  /\ Fun(pc) /\ Fun(req) /\ Fun(sent) /\ Fun(given) /\ Fun(response) /\ Fun(since)
  /\ accepted = [s \in Sessions |-> accepted[s]]

\* A sealed stream of so many bytes, open or ended.
Stream(resp, bytes, end) ==
  /\ {"sealed", "body", "end"} \subseteq DOMAIN resp
  /\ resp.sealed = TRUE /\ resp.body = bytes /\ resp.end = end

\* What r has read of its request, and got from its upstream, is well formed.
Shape(r) ==
  /\ {"session", "nonce", "len", "whole"} \subseteq DOMAIN req[r]
  /\ given[r] \in Nat
  /\ pc[r] = "stream" => Stream(response[r], given[r], "open")

Base ==
  /\ Functions
  /\ \A r \in Requests : Shape(r)
  /\ minted \in Nat /\ minted <= MaxHandshakes /\ registry \subseteq 1..minted

\* What has reached the client and the upstream when the handler is at pc.
Progress(r) ==
  /\ pc[r] \in Waiting => sent[r] = {} /\ response[r] = None /\ given[r] = 0
  /\ pc[r] \in {"upstream", "stream"} => sent[r] # {}
  /\ pc[r] = "upstream" => response[r] = None /\ given[r] = 0
  /\ pc[r] = "stream" => given[r] <= MaxBody
  /\ pc[r] = "done" => /\ response[r].body <= MaxBody
                       /\ ~response[r].sealed => sent[r] = {}
                       /\ response[r].end \in {"complete", "aborted"}
                       /\ response[r].end = "complete" => response[r].body = given[r]
                       /\ response[r].end = "aborted" => response[r].sealed /\ sent[r] # {}
  /\ pc[r] = "gone" => \/ response[r] = None
                       \/ /\ response[r].sealed = TRUE /\ response[r].end = "open"
                          /\ response[r].body <= MaxBody
  /\ pc[r] \in Places

ProgressInv == \A r \in Requests : Progress(r)

\* A session that nobody can use again.
Dead(s) == s \notin registry /\ \A q \in Requests : pc[q] \in Holding => req[q].session # s

\* The request's ticket was opened, and the request not refused.
Claims(r) == pc[r] = "route" \/ sent[r] # {}

\* A handler past the gate has a session that was minted, and a nonce.
HoldsTicket(r) ==
  pc[r] \in Holding \/ sent[r] # {} => req[r].session \in 1..minted /\ req[r].nonce \in Nonces

\* What was claimed is in the replay window, unless the session is dead.
Recorded(r) ==
  Claims(r) => \/ req[r].nonce \in accepted[req[r].session]
               \/ pc[r] # "route" /\ Dead(req[r].session)

TicketInv ==
  /\ \A r \in Requests : HoldsTicket(r) /\ Recorded(r)
  /\ \A q, r \in Requests : q # r /\ Claims(q) /\ Claims(r) => Ticket(q) # Ticket(r)

RequestStep(r) == Arrive(r) \/ HandlerStep(r) \/ UpstreamStep(r) \/ Disconnect(r)

-----------------------------------------------------------------------------
LEMMA Numbers == MaxBody \in Nat /\ MaxHandshakes \in Nat /\ MaxGiven \in Nat
                 /\ Lens \subseteq Nat /\ Chunks \subseteq Nat
  BY ProxyConstants

LEMMA InitProxy == Init => Base /\ ProgressInv /\ TicketInv
<1> SUFFICES ASSUME Init PROVE Base /\ ProgressInv /\ TicketInv
  OBVIOUS
<1>1. Base
  <2>1. Functions
    BY DEF Init, Functions, Fun
  <2> QED
    BY <2>1, Numbers DEF Init, Base, Shape
<1>2. ProgressInv
  BY DEF Init, ProgressInv, Progress, Waiting, Places
<1>3. TicketInv
  BY DEF Init, TicketInv, HoldsTicket, Recorded, Claims, Holding
<1> QED
  BY <1>1, <1>2, <1>3

\* A step of r's handler changes nothing of another request.
OthersKept(r) ==
  /\ Local(pc, pc', r) /\ Local(req, req', r) /\ Local(sent, sent', r)
  /\ Local(given, given', r) /\ Local(response, response', r) /\ Local(since, since', r)

LEMMA LocalStep ==
  ASSUME NEW f, Fun(f), NEW r \in Requests, NEW v
  PROVE  Local(f, f, r) /\ Local(f, [f EXCEPT ![r] = v], r) /\ [f EXCEPT ![r] = v][r] = v
  BY DEF Fun, Local

\* The outcomes of Decrypt: refused, or opened with a nonce not seen before.
Refused(r) ==
  /\ \E sealed \in BOOLEAN, status \in Status : Answer(r, sealed, status)
  /\ accepted' = accepted \/ Mark(r)
Opened(r) ==
  /\ pc' = [pc EXCEPT ![r] = "route"] /\ response' = response
  /\ req[r].nonce \notin accepted[req[r].session] /\ Mark(r)

LEMMA DecryptOutcome ==
  ASSUME NEW r, Decrypt(r)
  PROVE  /\ pc[r] = "body" /\ UNCHANGED << procVars, since, sent, given >>
         /\ \/ req' = req
            \/ \E len \in Lens : req' = [req EXCEPT ![r].len = len, ![r].whole = TRUE]
         /\ Refused(r) \/ Opened(r)
<1>1. /\ pc[r] = "body" /\ UNCHANGED << procVars, since, sent, given >>
      /\ \/ req' = req
         \/ \E len \in Lens : req' = [req EXCEPT ![r].len = len, ![r].whole = TRUE]
  BY ZenonT(60) DEF Decrypt
<1> SUFFICES Refused(r) \/ Opened(r)
  BY <1>1, ZenonT(60)
<1>2. 400 \in Status /\ 401 \in Status /\ 413 \in Status /\ 500 \in Status /\ TRUE \in BOOLEAN /\ FALSE \in BOOLEAN
  BY DEF Status
<1>3. CASE BodyBreaks(r)
  BY <1>2, <1>3, ZenonT(60) DEF BodyBreaks, Refused
<1> SUFFICES ASSUME NEW len \in Lens, EnvelopeRefused(r, len) \/ CannotOpen(r, len) \/ Opens(r, len)
             PROVE  Refused(r) \/ Opened(r)
  BY <1>3, ZenonT(60) DEF Decrypt
<1>4. CASE EnvelopeRefused(r, len)
  <2>1. accepted' = accepted
    BY <1>4 DEF EnvelopeRefused
  <2> QED
    BY <1>2, <1>4, <2>1, ZenonT(60) DEF EnvelopeRefused, Refused
<1>5. CASE CannotOpen(r, len)
  <2>1. accepted' = accepted \/ Mark(r)
    BY <1>5, ZenonT(60) DEF CannotOpen
  <2>2. PICK status \in {400, 401, 500} : Answer(r, FALSE, status)
    BY <1>5, ZenonT(60) DEF CannotOpen
  <2>3. status \in Status
    BY DEF Status
  <2> QED
    BY <1>2, <2>1, <2>2, <2>3, ZenonT(60) DEF Refused
<1>6. CASE Opens(r, len)
  BY <1>2, <1>6, ZenonT(60) DEF Opens, MayOpen, Refused, Opened
<1> QED
  BY <1>4, <1>5, <1>6, ZenonT(60)

\* The outcomes of Route: no route, or forwarded.
LEMMA RouteOutcome ==
  ASSUME NEW r, Route(r)
  PROVE  /\ pc[r] = "route" /\ UNCHANGED << procVars, accepted, req, since, given >>
         /\ \/ Answer(r, TRUE, 404) /\ sent' = sent
            \/ /\ \E call : sent' = [sent EXCEPT ![r] = @ \cup {call}]
               /\ pc' = [pc EXCEPT ![r] = "upstream"] /\ response' = response
  BY ZenonT(60) DEF Route

LEMMA StepIsLocal ==
  ASSUME Functions, NEW r \in Requests, RequestStep(r)
  PROVE  OthersKept(r) /\ UNCHANGED procVars
<1>0. /\ Fun(pc) /\ Fun(req) /\ Fun(sent) /\ Fun(given) /\ Fun(response) /\ Fun(since)
      /\ \A f : Fun(f) => Local(f, f, r) /\ \A v : Local(f, [f EXCEPT ![r] = v], r)
  BY LocalStep, ZenonT(60) DEF Functions
<1>1. ASSUME NEW a, NEW b, Answer(r, a, b)
      PROVE  Local(pc, pc', r) /\ Local(response, response', r)
  BY <1>0, <1>1, ZenonT(60) DEF Answer
<1> USE <1>0 DEF OthersKept
<1>2. CASE Arrive(r)
  BY <1>2, ZenonT(60) DEF Arrive
<1>3. CASE Gate(r)
  <2>1. CASE \E status \in {400, 401} : Answer(r, FALSE, status) /\ UNCHANGED req
    BY <1>1, <1>3, <2>1, ZenonT(60) DEF Gate
  <2>2. CASE /\ \E s \in registry, n \in Nonces : req' = [req EXCEPT ![r].session = s, ![r].nonce = n]
             /\ pc' = [pc EXCEPT ![r] = "body"] /\ UNCHANGED response
    <3>1. Local(req, req', r)
      BY <2>2, ZenonT(60) DEF Local, Fun
    <3> QED
      BY <1>3, <2>2, <3>1, ZenonT(60) DEF Gate
  <2> QED
    BY <1>3, <2>1, <2>2, ZenonT(60) DEF Gate
<1>4. CASE Decrypt(r)
  <2>1. Local(pc, pc', r) /\ Local(response, response', r)
    BY <1>1, <1>4, DecryptOutcome DEF Refused, Opened
  <2>2. Local(req, req', r)
    <3>1. CASE \E len \in Lens : req' = [req EXCEPT ![r].len = len, ![r].whole = TRUE]
      BY <3>1, ZenonT(60) DEF Local, Fun
    <3> QED
      BY <1>4, <3>1, DecryptOutcome, ZenonT(60)
  <2> QED
    BY <1>4, <2>1, <2>2, DecryptOutcome
<1>5. CASE Route(r)
  <2>1. UNCHANGED << procVars, accepted, req, since, given >>
    BY <1>5, RouteOutcome, ZenonT(60)
  <2>2. CASE Answer(r, TRUE, 404) /\ sent' = sent
    BY <1>1, <2>1, <2>2, ZenonT(60)
  <2>3. CASE /\ \E call : sent' = [sent EXCEPT ![r] = @ \cup {call}]
             /\ pc' = [pc EXCEPT ![r] = "upstream"] /\ response' = response
    BY <2>1, <2>3, ZenonT(60)
  <2> QED
    BY <1>5, <2>2, <2>3, RouteOutcome, ZenonT(60)
<1>6. CASE UpstreamFails(r) \/ UpstreamAnswers(r)
  <2>1. UNCHANGED << procVars, accepted, req, since, sent, given >>
    BY <1>6, ZenonT(60) DEF UpstreamFails, UpstreamAnswers
  <2>2. CASE \E a, b : Answer(r, a, b)
    BY <1>1, <2>1, <2>2, ZenonT(60)
  <2>3. CASE \E v : response' = [response EXCEPT ![r] = v] /\ pc' = [pc EXCEPT ![r] = "stream"]
    BY <2>1, <2>3, ZenonT(60)
  <2>4. UpstreamFails(r) => \E a, b : Answer(r, a, b)
    BY ZenonT(60) DEF UpstreamFails
  <2>5. UpstreamAnswers(r) =>
          \/ \E a, b : Answer(r, a, b)
          \/ \E v : response' = [response EXCEPT ![r] = v] /\ pc' = [pc EXCEPT ![r] = "stream"]
    BY ZenonT(60) DEF UpstreamAnswers
  <2> QED
    BY <1>6, <2>2, <2>3, <2>4, <2>5, ZenonT(60)
<1>7. CASE Chunk(r) \/ StreamEnds(r)
  <2>1. UNCHANGED << procVars, accepted, req, since, sent >>
    BY <1>7, ZenonT(60) DEF Chunk, StreamEnds
  <2>2. Local(pc, pc', r)
    BY <1>7, ZenonT(60) DEF Chunk, StreamEnds
  <2>3. Local(given, given', r)
    BY <1>7, ZenonT(60) DEF Chunk, StreamEnds
  <2>4. Local(response, response', r)
    BY <1>7 DEF Chunk, StreamEnds, Local, Fun
  <2> QED
    BY <2>1, <2>2, <2>3, <2>4, ZenonT(60)
<1>8. CASE Disconnect(r)
  BY <1>8, ZenonT(60) DEF Disconnect
<1> QED
  BY <1>2, <1>3, <1>4, <1>5, <1>6, <1>7, <1>8 DEF RequestStep, HandlerStep, UpstreamStep

-----------------------------------------------------------------------------
\* What a step of r's handler does to what the client and the upstream have of
\* r: one disjunct per pair of places.
Same(r) == sent'[r] = sent[r] /\ given'[r] = given[r] /\ response'[r] = response[r]

Ends(r, sealed) ==
  /\ pc'[r] = "done" /\ sent'[r] = sent[r] /\ given'[r] = given[r]
  /\ \E status \in Status :
       response'[r] = [sealed |-> sealed, status |-> status, body |-> 0, end |-> "complete"]

Early(r) ==
  \/ pc[r] = "idle" /\ pc'[r] = "gate" /\ Same(r)
  \/ pc[r] \in {"gate", "body"} /\ \E sealed \in BOOLEAN : Ends(r, sealed)
  \/ pc[r] = "gate" /\ pc'[r] = "body" /\ Same(r)
  \/ pc[r] = "body" /\ pc'[r] = "route" /\ Same(r)

Forwarding(r) ==
  \/ pc[r] \in {"route", "upstream"} /\ Ends(r, TRUE)
  \/ /\ pc[r] = "route" /\ pc'[r] = "upstream" /\ sent'[r] # {}
     /\ given'[r] = given[r] /\ response'[r] = response[r]
  \/ /\ pc[r] = "upstream" /\ pc'[r] = "stream" /\ sent'[r] = sent[r] /\ given'[r] = given[r]
     /\ Stream(response'[r], 0, "open")

Streaming(r) ==
  /\ pc[r] = "stream" /\ sent'[r] = sent[r]
  /\ \/ /\ pc'[r] = "stream" /\ given'[r] \in Nat /\ given'[r] <= MaxBody
        /\ Stream(response'[r], given'[r], "open")
     \/ pc'[r] = "done" /\ given'[r] \in Nat /\ Stream(response'[r], given[r], "aborted")
     \/ pc'[r] = "done" /\ given'[r] = given[r] /\ Stream(response'[r], given[r], "complete")

Dropped(r) == pc[r] \in {"body", "upstream", "stream"} /\ pc'[r] = "gone" /\ Same(r)

Moves(r) == Early(r) \/ Forwarding(r) \/ Streaming(r) \/ Dropped(r)

LEMMA StepMoves ==
  ASSUME Functions, NEW r \in Requests, Shape(r), RequestStep(r)
  PROVE  Moves(r)
<1>0. \A f : Fun(f) => \A v : [f EXCEPT ![r] = v][r] = v
  BY LocalStep, ZenonT(60)
<1>1. Fun(pc) /\ Fun(response) /\ Fun(sent) /\ Fun(given)
  BY DEF Functions
<1>s. 404 \in Status /\ 413 \in Status
  BY DEF Status
<1>2. ASSUME NEW sealed, NEW status \in Status, Answer(r, sealed, status), sent' = sent, given' = given
      PROVE  Ends(r, sealed)
  BY <1>0, <1>1, <1>2 DEF Answer, Ends
<1>o. ASSUME pc[r] = "stream", NEW v
      PROVE  /\ Stream([response EXCEPT ![r].end = v][r], given[r], v)
             /\ Stream([response EXCEPT ![r].body = v][r], v, "open")
             /\ response[r].body = given[r]
  <2>1. Stream(response[r], given[r], "open")
    BY <1>o, ZenonT(60) DEF Shape
  <2>2. /\ [response EXCEPT ![r].end = v][r] = [response[r] EXCEPT !.end = v]
        /\ [response EXCEPT ![r].body = v][r] = [response[r] EXCEPT !.body = v]
    BY <1>1 DEF Fun
  <2> QED
    BY <2>1, <2>2 DEF Stream
<1>3. CASE Arrive(r)
  BY <1>0, <1>1, <1>3 DEF Arrive, Moves, Early, Same
<1>4. CASE Gate(r)
  <2>1. pc[r] = "gate" /\ sent' = sent /\ given' = given
    BY <1>4, ZenonT(60) DEF Gate
  <2>2. CASE \E status \in {400, 401} : Answer(r, FALSE, status)
    <3>1. PICK status \in {400, 401} : Answer(r, FALSE, status)
      BY <2>2, ZenonT(60)
    <3> status \in Status
      BY DEF Status
    <3>2. Ends(r, FALSE)
      BY <1>2, <2>1, <3>1, ZenonT(60)
    <3> QED
      BY <2>1, <3>2, ZenonT(60) DEF Moves, Early
  <2>3. CASE pc' = [pc EXCEPT ![r] = "body"] /\ response' = response
    BY <1>0, <1>1, <2>1, <2>3 DEF Moves, Early, Same
  <2> QED
    BY <1>4, <2>2, <2>3, ZenonT(60) DEF Gate
<1>5. CASE Decrypt(r)
  <2>1. pc[r] = "body" /\ sent' = sent /\ given' = given /\ (Refused(r) \/ Opened(r))
    BY <1>5, DecryptOutcome
  <2>2. CASE Refused(r)
    <3>1. PICK sealed \in BOOLEAN, status \in Status : Answer(r, sealed, status)
      BY <2>2, ZenonT(60) DEF Refused
    <3>2. Ends(r, sealed)
      BY <1>2, <2>1, <3>1, ZenonT(60)
    <3> QED
      BY <2>1, <3>1, <3>2 DEF Moves, Early
  <2>3. CASE Opened(r)
    BY <1>0, <1>1, <2>1, <2>3 DEF Moves, Early, Same, Opened
  <2> QED
    BY <2>1, <2>2, <2>3
<1>6. CASE Route(r)
  <2>1. pc[r] = "route" /\ given' = given
    BY <1>6, RouteOutcome, ZenonT(60)
  <2>2. CASE Answer(r, TRUE, 404) /\ sent' = sent
    <3>1. Ends(r, TRUE)
      BY <1>2, <1>s, <2>1, <2>2, ZenonT(60)
    <3> QED
      BY <2>1, <3>1, ZenonT(60) DEF Moves, Forwarding
  <2>3. CASE /\ \E call : sent' = [sent EXCEPT ![r] = @ \cup {call}]
             /\ pc' = [pc EXCEPT ![r] = "upstream"] /\ response' = response
    <3>1. sent'[r] # {} /\ pc'[r] = "upstream"
      BY <1>0, <1>1, <2>3
    <3> QED
      BY <2>1, <2>3, <3>1, ZenonT(60) DEF Moves, Forwarding
  <2> QED
    BY <1>6, <2>2, <2>3, RouteOutcome, ZenonT(60)
<1>7. CASE UpstreamFails(r)
  <2>1. pc[r] = "upstream" /\ sent' = sent /\ given' = given
    BY <1>7, ZenonT(60) DEF UpstreamFails
  <2>2. PICK status \in {502, 504} : Answer(r, TRUE, status)
    BY <1>7, ZenonT(60) DEF UpstreamFails
  <2> status \in Status
    BY DEF Status
  <2>3. Ends(r, TRUE)
    BY <1>2, <2>1, <2>2, ZenonT(60)
  <2> QED
    BY <2>1, <2>3, ZenonT(60) DEF Moves, Forwarding
<1>8. CASE UpstreamAnswers(r)
  <2>1. pc[r] = "upstream" /\ sent' = sent /\ given' = given
    BY <1>8, ZenonT(60) DEF UpstreamAnswers
  <2>2. CASE Answer(r, TRUE, 413)
    <3>1. Ends(r, TRUE)
      BY <1>2, <1>s, <2>1, <2>2, ZenonT(60)
    <3> QED
      BY <2>1, <3>1, ZenonT(60) DEF Moves, Forwarding
  <2>3. CASE /\ pc' = [pc EXCEPT ![r] = "stream"]
             /\ response' = [response EXCEPT ![r] = [sealed |-> TRUE, status |-> 200,
                                                     body |-> 0, end |-> "open"]]
    <3>1. /\ pc'[r] = "stream"
          /\ response'[r] = [sealed |-> TRUE, status |-> 200, body |-> 0, end |-> "open"]
      BY <1>0, <1>1, <2>3
    <3>2. Stream(response'[r], 0, "open")
      BY <3>1 DEF Stream
    <3> QED
      BY <2>1, <3>1, <3>2, ZenonT(60) DEF Moves, Forwarding
  <2> QED
    BY <1>8, <2>2, <2>3, ZenonT(60) DEF UpstreamAnswers
<1>9. CASE Chunk(r)
  <2>1. pc[r] = "stream" /\ sent' = sent
    BY <1>9, ZenonT(60) DEF Chunk
  <2>2. PICK c \in Chunks : given' = [given EXCEPT ![r] = @ + c] /\
          (\/ /\ response' = [response EXCEPT ![r].end = OverCapEnd]
              /\ pc' = [pc EXCEPT ![r] = "done"]
           \/ /\ given[r] + c <= MaxBody
              /\ response' = [response EXCEPT ![r].body = @ + c] /\ pc' = pc)
    BY <1>9, ZenonT(60) DEF Chunk
  <2>3. given'[r] = given[r] + c /\ given'[r] \in Nat
    BY <1>0, <1>1, <2>2, Numbers, SMTT(60) DEF Shape
  <2>4. CASE response' = [response EXCEPT ![r].end = OverCapEnd] /\ pc' = [pc EXCEPT ![r] = "done"]
    <3>1. Stream(response'[r], given[r], "aborted")
      BY <1>o, <2>1, <2>4, ZenonT(60) DEF OverCapEnd
    <3>2. pc'[r] = "done"
      BY <1>0, <1>1, <2>4
    <3> QED
      BY <2>1, <2>3, <3>1, <3>2 DEF Moves, Streaming
  <2>5. CASE /\ given[r] + c <= MaxBody
             /\ response' = [response EXCEPT ![r].body = @ + c] /\ pc' = pc
    <3>1. response[r].body = given[r]
      BY <1>o, <2>1, ZenonT(60)
    <3>2. response' = [response EXCEPT ![r].body = given'[r]]
      BY <2>3, <2>5, <3>1
    <3>3. Stream(response'[r], given'[r], "open")
      BY <1>o, <2>1, <3>2, ZenonT(60)
    <3> QED
      BY <2>1, <2>3, <2>5, <3>3 DEF Moves, Streaming
  <2> QED
    BY <2>2, <2>4, <2>5, ZenonT(60)
<1>10. CASE StreamEnds(r)
  <2>1. pc[r] = "stream" /\ sent' = sent /\ given' = given /\ pc'[r] = "done"
    BY <1>0, <1>1, <1>10, ZenonT(60) DEF StreamEnds
  <2>2. PICK end \in {"complete", "aborted"} : response' = [response EXCEPT ![r].end = end]
    BY <1>10, ZenonT(60) DEF StreamEnds
  <2>3. Stream(response'[r], given[r], end)
    BY <1>o, <2>1, <2>2, ZenonT(60)
  <2> QED
    BY <2>1, <2>2, <2>3 DEF Moves, Streaming, Shape
<1>11. CASE Disconnect(r)
  BY <1>0, <1>1, <1>11 DEF Disconnect, Moves, Dropped, Same
<1> QED
  BY <1>3, <1>4, <1>5, <1>6, <1>7, <1>8, <1>9, <1>10, <1>11 DEF RequestStep, HandlerStep, UpstreamStep

-----------------------------------------------------------------------------
\* What a step of r's handler does to r's ticket and to the replay window.
TicketMoves(r) ==
  /\ {"session", "nonce", "len", "whole"} \subseteq DOMAIN req'[r]
  /\ \/ req'[r].session = req[r].session /\ req'[r].nonce = req[r].nonce
     \/ /\ pc[r] = "gate" /\ pc'[r] = "body"
        /\ req'[r].session \in registry /\ req'[r].nonce \in Nonces
  /\ accepted' = accepted \/ Mark(r)
  /\ pc'[r] = "route" => Mark(r) /\ req[r].nonce \notin accepted[req[r].session]
  /\ pc'[r] = "body" => pc[r] = "gate" /\ req'[r].session \in registry /\ req'[r].nonce \in Nonces

LEMMA StepMovesTicket ==
  ASSUME Functions, NEW r \in Requests, Shape(r), RequestStep(r)
  PROVE  TicketMoves(r)
<1>1. Moves(r) /\ Fun(req) /\ Fun(pc)
  BY StepMoves, ZenonT(60) DEF Functions
<1>2. ASSUME req' = req, accepted' = accepted, pc[r] \notin {"gate", "body"}
      PROVE  TicketMoves(r)
  <2>1. pc'[r] # "route" /\ pc'[r] # "body"
    BY <1>1, <1>2 DEF Moves, Early, Forwarding, Streaming, Dropped, Ends
  <2> QED
    BY <1>2, <2>1 DEF TicketMoves, Shape
<1>3. CASE Arrive(r)
  BY <1>2, <1>3 DEF Arrive
<1>4. CASE Gate(r)
  <2>1. pc[r] = "gate" /\ accepted' = accepted
    BY <1>4, ZenonT(60) DEF Gate
  <2>2. pc'[r] # "route"
    BY <1>1, <2>1 DEF Moves, Early, Forwarding, Streaming, Dropped, Ends
  <2>3. CASE \E status \in {400, 401} : Answer(r, FALSE, status) /\ UNCHANGED req
    <3>1. pc'[r] = "done"
      BY <1>1, <2>3 DEF Answer, Fun
    <3> QED
      BY <2>1, <2>3, <3>1 DEF TicketMoves, Shape
  <2>4. CASE /\ \E s \in registry, n \in Nonces : req' = [req EXCEPT ![r].session = s, ![r].nonce = n]
             /\ pc' = [pc EXCEPT ![r] = "body"] /\ UNCHANGED response
    <3>1. PICK s \in registry, n \in Nonces : req' = [req EXCEPT ![r].session = s, ![r].nonce = n]
      BY <2>4, ZenonT(60)
    <3>2. /\ {"session", "nonce", "len", "whole"} \subseteq DOMAIN req'[r]
          /\ req'[r].session = s /\ req'[r].nonce = n
      BY <1>1, <3>1, ZenonT(60) DEF Fun, Shape
    <3>3. pc'[r] = "body"
      BY <1>1, <2>4 DEF Fun
    <3> QED
      BY <2>1, <3>2, <3>3 DEF TicketMoves
  <2> QED
    BY <1>4, <2>3, <2>4, ZenonT(60) DEF Gate
<1>5. CASE Decrypt(r)
  <2>1. /\ pc[r] = "body" /\ (accepted' = accepted \/ Mark(r)) /\ (Refused(r) \/ Opened(r))
    BY <1>5, DecryptOutcome DEF Refused, Opened
  <2>2. ASSUME NEW len, req' = [req EXCEPT ![r].len = len, ![r].whole = TRUE]
        PROVE  /\ {"session", "nonce", "len", "whole"} \subseteq DOMAIN req'[r]
               /\ req'[r].session = req[r].session /\ req'[r].nonce = req[r].nonce
    BY <1>1, <2>2 DEF Fun, Shape
  <2>3. /\ {"session", "nonce", "len", "whole"} \subseteq DOMAIN req'[r]
        /\ req'[r].session = req[r].session /\ req'[r].nonce = req[r].nonce
    <3>1. CASE req' = req
      BY <3>1 DEF Shape
    <3> QED
      BY <1>5, <2>2, <3>1, DecryptOutcome, ZenonT(60)
  <2>4. pc'[r] # "body"
    BY <1>1, <2>1 DEF Moves, Early, Forwarding, Streaming, Dropped, Ends
  <2>5. CASE Refused(r)
    <3>1. pc'[r] = "done"
      BY <1>1, <2>5 DEF Answer, Fun, Refused
    <3> QED
      BY <2>1, <2>3, <3>1 DEF TicketMoves
  <2>6. CASE Opened(r)
    BY <2>1, <2>3, <2>4, <2>6, ZenonT(60) DEF TicketMoves, Opened
  <2> QED
    BY <2>1, <2>5, <2>6
<1>6. CASE Route(r)
  BY <1>2, <1>6, RouteOutcome, ZenonT(60)
<1>7. CASE UpstreamFails(r) \/ UpstreamAnswers(r)
  BY <1>2, <1>7, ZenonT(60) DEF UpstreamFails, UpstreamAnswers
<1>8. CASE Chunk(r) \/ StreamEnds(r)
  BY <1>2, <1>8 DEF Chunk, StreamEnds
<1>9. CASE Disconnect(r)
  <2>1. req' = req /\ accepted' = accepted /\ pc'[r] = "gone"
    BY <1>1, <1>9 DEF Disconnect, Fun
  <2> QED
    BY <2>1 DEF TicketMoves, Shape
<1> QED
  BY <1>3, <1>4, <1>5, <1>6, <1>7, <1>8, <1>9 DEF RequestStep, HandlerStep, UpstreamStep

-----------------------------------------------------------------------------
\* The inductive invariant.
ProxyInv == Base /\ ProgressInv /\ TicketInv

LEMMA Kept ==
  ASSUME NEW r \in Requests, OthersKept(r), NEW q \in Requests, q # r
  PROVE  /\ pc'[q] = pc[q] /\ req'[q] = req[q] /\ sent'[q] = sent[q] /\ given'[q] = given[q]
         /\ response'[q] = response[q]
  BY ZenonT(60) DEF OthersKept, Local

-----------------------------------------------------------------------------
LEMMA ProgressOfMove ==
  ASSUME NEW r \in Requests, Shape(r), Progress(r), Moves(r)
  PROVE  Progress(r)' /\ given'[r] \in Nat
         /\ (pc'[r] = "stream" => Stream(response'[r], given'[r], "open"))
<1> USE Numbers DEF Shape, Progress, Waiting, Places
<1>1. CASE Early(r)
  <2>1. CASE Same(r) /\ pc[r] \in {"idle", "gate", "body"} /\ pc'[r] \in {"gate", "body", "route"}
    BY <2>1 DEF Same
  <2>2. CASE pc[r] \in {"gate", "body"} /\ \E sealed \in BOOLEAN : Ends(r, sealed)
    BY <2>2, SMTT(60) DEF Ends
  <2> QED
    BY <1>1, <2>1, <2>2, ZenonT(60) DEF Early
<1>2. CASE Forwarding(r)
  <2>1. CASE pc[r] \in {"route", "upstream"} /\ Ends(r, TRUE)
    BY <2>1 DEF Ends
  <2>2. CASE /\ pc[r] = "route" /\ pc'[r] = "upstream" /\ sent'[r] # {}
             /\ given'[r] = given[r] /\ response'[r] = response[r]
    BY <2>2
  <2>3. CASE /\ pc[r] = "upstream" /\ pc'[r] = "stream" /\ sent'[r] = sent[r]
             /\ given'[r] = given[r] /\ Stream(response'[r], 0, "open")
    BY <2>3
  <2> QED
    BY <1>2, <2>1, <2>2, <2>3, ZenonT(60) DEF Forwarding
<1>3. CASE Streaming(r)
  BY <1>3 DEF Streaming, Stream
<1>4. CASE Dropped(r)
  BY <1>4 DEF Dropped, Same, Stream
<1> QED
  BY <1>1, <1>2, <1>3, <1>4, ZenonT(60) DEF Moves

LEMMA ProgressStep ==
  ASSUME Base, ProgressInv, NEW r \in Requests, RequestStep(r)
  PROVE  ProgressInv' /\ \A q \in Requests : Shape(q)'
<1>1. OthersKept(r) /\ Moves(r) /\ TicketMoves(r)
  BY StepIsLocal, StepMoves, StepMovesTicket, ZenonT(60) DEF Base
<1>2. ASSUME NEW q \in Requests, q # r
      PROVE  Progress(q)' /\ Shape(q)'
  <2>1. Progress(q) /\ Shape(q)
    BY ZenonT(60) DEF Base, ProgressInv
  <2>2. /\ pc'[q] = pc[q] /\ req'[q] = req[q] /\ sent'[q] = sent[q] /\ given'[q] = given[q]
        /\ response'[q] = response[q]
    BY <1>1, <1>2, Kept, ZenonT(60)
  <2>3. Progress(q)'
    BY <2>1, <2>2, ZenonT(60) DEF Progress
  <2> QED
    BY <2>1, <2>2, <2>3, ZenonT(60) DEF Shape
<1>3. Progress(r)' /\ Shape(r)'
  <2>1. Shape(r) /\ Progress(r)
    BY ZenonT(60) DEF Base, ProgressInv
  <2>2. Progress(r)' /\ given'[r] \in Nat
        /\ (pc'[r] = "stream" => Stream(response'[r], given'[r], "open"))
    BY <1>1, <2>1, ProgressOfMove, ZenonT(60)
  <2> QED
    BY <1>1, <2>2 DEF Shape, TicketMoves
<1> QED
  BY <1>2, <1>3, ZenonT(60) DEF ProgressInv

LEMMA BaseStep ==
  ASSUME Base, ProgressInv, NEW r \in Requests, RequestStep(r)
  PROVE  Base'
<1>1. OthersKept(r) /\ TicketMoves(r) /\ UNCHANGED procVars
  BY StepIsLocal, StepMovesTicket, ZenonT(60) DEF Base
<1>2. \A q \in Requests : Shape(q)'
  BY ProgressStep, ZenonT(60)
<1>3. accepted' = [s \in Sessions |-> accepted'[s]]
  <2>1. accepted = [s \in Sessions |-> accepted[s]]
    BY ZenonT(60) DEF Base, Functions
  <2>2. CASE accepted' = accepted
    BY <2>1, <2>2
  <2>3. CASE Mark(r)
    BY <2>1, <2>3, ZenonT(60) DEF Mark
  <2> QED
    BY <1>1, <2>2, <2>3 DEF TicketMoves
<1>4. Functions'
  BY <1>1, <1>3, ZenonT(60) DEF Functions, OthersKept, Local, Fun
<1> QED
  BY <1>1, <1>2, <1>4 DEF Base, procVars

-----------------------------------------------------------------------------
\* The request has, or had, a session.
HasSession(r) == pc[r] \in Holding \/ sent[r] # {}

\* Nothing that the tickets depend on is lost in a step.
TicketKept(q) ==
  /\ req'[q].session = req[q].session /\ req'[q].nonce = req[q].nonce
  /\ Claims(q)' => Claims(q)
  /\ HasSession(q)' => HasSession(q)
  /\ pc'[q] \in Holding => pc[q] \in Holding
  /\ pc'[q] = "route" => pc[q] = "route"

LEMMA TicketFrame ==
  ASSUME TicketInv, minted \in Nat, minted' \in Nat, minted <= minted',
         registry' \cap 1..minted \subseteq registry,
         \A s \in 1..minted : accepted[s] \subseteq accepted'[s],
         \A q \in Requests : TicketKept(q)
  PROVE  TicketInv'
<1>1. \A q \in Requests : HoldsTicket(q)'
  BY DEF TicketInv, HoldsTicket, TicketKept, HasSession
<1>2. \A s \in 1..minted : Dead(s) => Dead(s)'
  BY DEF Dead, TicketKept
<1>3. ASSUME NEW q \in Requests, Claims(q)'
      PROVE  Recorded(q)'
  <2>1. TicketKept(q) /\ Claims(q) /\ HoldsTicket(q) /\ Recorded(q)
    BY <1>3, ZenonT(60) DEF TicketInv, TicketKept
  <2>2. req[q].session \in 1..minted
    BY <2>1 DEF Claims, HoldsTicket, Holding
  <2> QED
    BY <1>2, <2>1, <2>2, ZenonT(60) DEF Recorded, TicketKept
<1>4. \A q \in Requests : Recorded(q)'
  BY <1>3, ZenonT(60) DEF Recorded
<1>5. ASSUME NEW p \in Requests, NEW q \in Requests, p # q, Claims(p)', Claims(q)'
      PROVE  Ticket(p)' # Ticket(q)'
  <2>1. Ticket(p) # Ticket(q)
    BY <1>5, ZenonT(60) DEF TicketInv, TicketKept
  <2>2. Ticket(p)' = Ticket(p) /\ Ticket(q)' = Ticket(q)
    BY ZenonT(60) DEF Ticket, TicketKept
  <2> QED
    BY <2>1, <2>2
<1> QED
  BY <1>1, <1>4, <1>5, ZenonT(60) DEF TicketInv

LEMMA TicketStep ==
  ASSUME ProxyInv, NEW r \in Requests, RequestStep(r)
  PROVE  TicketInv'
<1>1. OthersKept(r) /\ Moves(r) /\ TicketMoves(r) /\ UNCHANGED procVars
  BY StepIsLocal, StepMoves, StepMovesTicket, ZenonT(60) DEF ProxyInv, Base
<1>2. /\ minted \in Nat /\ minted' = minted /\ registry' = registry /\ 1..minted \subseteq Sessions
      /\ registry \subseteq 1..minted /\ TicketInv /\ Progress(r) /\ accepted = [s \in Sessions |-> accepted[s]]
  BY <1>1, Numbers DEF ProxyInv, Base, Functions, ProgressInv, procVars, Sessions
<1>3. \A s \in 1..minted : accepted[s] \subseteq accepted'[s]
  BY <1>1, <1>2 DEF TicketMoves, Mark
<1>4. ASSUME NEW q \in Requests, q # r
      PROVE  TicketKept(q)
  <2>1. pc'[q] = pc[q] /\ req'[q] = req[q] /\ sent'[q] = sent[q]
    BY <1>1, <1>4, Kept, ZenonT(60)
  <2> QED
    BY <2>1, ZenonT(60) DEF TicketKept, Claims, HasSession
<1>5. CASE pc'[r] \notin {"body", "route"}
  <2>1. TicketKept(r)
    <3>1. req'[r].session = req[r].session /\ req'[r].nonce = req[r].nonce
      BY <1>1, <1>5 DEF TicketMoves
    <3>2. CASE Early(r)
      BY <1>2, <1>5, <3>1, <3>2
      DEF Early, Same, Ends, TicketKept, Claims, HasSession, Holding, Progress, Waiting
    <3>3. CASE Forwarding(r)
      BY <1>5, <3>1, <3>3 DEF Forwarding, Ends, TicketKept, Claims, HasSession, Holding
    <3>4. CASE Streaming(r)
      BY <1>5, <3>1, <3>4 DEF Streaming, TicketKept, Claims, HasSession, Holding
    <3>5. CASE Dropped(r)
      BY <1>5, <3>1, <3>5 DEF Dropped, Same, TicketKept, Claims, HasSession, Holding
    <3> QED
      BY <1>1, <3>2, <3>3, <3>4, <3>5, ZenonT(60) DEF Moves
  <2> QED
    BY <1>2, <1>3, <1>4, <2>1, TicketFrame
<1>6. CASE pc'[r] = "body"
  <2>1. /\ pc[r] = "gate" /\ req'[r].session \in registry /\ req'[r].nonce \in Nonces
        /\ sent[r] = {} /\ sent'[r] = {}
    BY <1>1, <1>2, <1>6
    DEF TicketMoves, Moves, Early, Same, Ends, Forwarding, Streaming, Dropped, Progress, Waiting
  <2>2. HoldsTicket(r)' /\ ~Claims(r)' /\ ~Claims(r)
    BY <1>2, <1>6, <2>1 DEF HoldsTicket, Claims
  <2>3. ASSUME NEW s \in 1..minted, Dead(s)
        PROVE  Dead(s)'
    BY <1>2, <1>4, <2>1, <2>3 DEF Dead, TicketKept
  <2>4. ASSUME NEW q \in Requests, q # r
        PROVE  /\ HoldsTicket(q)' /\ Recorded(q)' /\ (Claims(q)' => Claims(q)) /\ Ticket(q)' = Ticket(q)
    <3>1. TicketKept(q) /\ HoldsTicket(q) /\ Recorded(q)
      BY <1>2, <1>4, <2>4, ZenonT(60) DEF TicketInv
    <3>2. HoldsTicket(q)'
      BY <1>2, <3>1 DEF HoldsTicket, TicketKept, HasSession
    <3>3. Claims(q)' => Claims(q) /\ req[q].session \in 1..minted
      BY <3>1 DEF TicketKept, Claims, HoldsTicket, Holding
    <3>4. Recorded(q)'
      BY <1>3, <2>3, <3>1, <3>3 DEF Recorded, TicketKept
    <3> QED
      BY <3>1, <3>2, <3>3, <3>4, ZenonT(60) DEF TicketKept, Ticket
  <2> QED
    BY <1>2, <2>2, <2>4, ZenonT(60) DEF TicketInv, Recorded
<1>7. CASE pc'[r] = "route"
  <2>1. /\ pc[r] = "body" /\ sent[r] = {} /\ sent'[r] = {}
        /\ Mark(r) /\ req[r].nonce \notin accepted[req[r].session]
        /\ req'[r].session = req[r].session /\ req'[r].nonce = req[r].nonce
    BY <1>1, <1>2, <1>7
    DEF TicketMoves, Moves, Early, Same, Ends, Forwarding, Streaming, Dropped, Progress, Waiting
  <2>2. HoldsTicket(r) /\ req[r].session \in 1..minted /\ req[r].nonce \in Nonces
    BY <1>2, <2>1 DEF TicketInv, HoldsTicket, Holding
  <2>3. req[r].nonce \in accepted'[req[r].session]
    BY <1>2, <2>1, <2>2 DEF Mark
  <2>4. HoldsTicket(r)' /\ Recorded(r)' /\ Ticket(r)' = Ticket(r)
    BY <1>2, <2>1, <2>2, <2>3 DEF HoldsTicket, Recorded, Ticket
  <2>5. ASSUME NEW s \in 1..minted, Dead(s)
        PROVE  Dead(s)' /\ s # req[r].session
    BY <1>2, <1>4, <2>1, <2>5 DEF Dead, TicketKept, Holding
  <2>6. ASSUME NEW q \in Requests, q # r
        PROVE  /\ HoldsTicket(q)' /\ Recorded(q)' /\ (Claims(q)' => Claims(q)) /\ Ticket(q)' = Ticket(q)
               /\ Claims(q)' => Ticket(q) # Ticket(r)
    <3>1. TicketKept(q) /\ HoldsTicket(q) /\ Recorded(q)
      BY <1>2, <1>4, <2>6, ZenonT(60) DEF TicketInv
    <3>2. HoldsTicket(q)'
      BY <1>2, <3>1 DEF HoldsTicket, TicketKept, HasSession
    <3>3. Claims(q)' => Claims(q) /\ req[q].session \in 1..minted
      BY <3>1 DEF TicketKept, Claims, HoldsTicket, Holding
    <3>4. Recorded(q)'
      BY <1>3, <2>5, <3>1, <3>3 DEF Recorded, TicketKept
    <3>5. Claims(q)' => Ticket(q) # Ticket(r)
      BY <2>1, <2>5, <3>1, <3>3 DEF Recorded, Ticket
    <3> QED
      BY <3>1, <3>2, <3>3, <3>4, <3>5, ZenonT(60) DEF TicketKept, Ticket
  <2> QED
    BY <1>2, <2>4, <2>6, ZenonT(60) DEF TicketInv
<1> QED
  BY <1>5, <1>6, <1>7

-----------------------------------------------------------------------------
LEMMA ProcessStep ==
  ASSUME ProxyInv, Publish \/ Handshake \/ Evict \/ UNCHANGED proxyVars
  PROVE  ProxyInv'
<1>1. /\ UNCHANGED << accepted, pc, req, since, sent, given, response >>
      /\ registry' \cap 1..minted \subseteq registry /\ registry' \subseteq 1..minted'
      /\ minted \in Nat /\ minted' \in Nat /\ minted <= minted' /\ minted' <= MaxHandshakes
  <2>1. minted \in Nat /\ minted <= MaxHandshakes /\ registry \subseteq 1..minted
    BY DEF ProxyInv, Base
  <2>2. CASE Handshake
    BY <2>1, <2>2, Numbers DEF Handshake
  <2>3. CASE Publish \/ UNCHANGED proxyVars
    <3>1. UNCHANGED << accepted, pc, req, since, sent, given, response, registry, minted >>
      BY <2>3 DEF Publish, proxyVars, procVars
    <3> QED
      BY <2>1, <3>1
  <2>4. CASE Evict
    BY <2>1, <2>4 DEF Evict
  <2> QED
    BY <2>2, <2>3, <2>4, ZenonT(60)
<1>2. Base'
  <2>1. Functions /\ \A r \in Requests : Shape(r)
    BY DEF ProxyInv, Base
  <2>2. Functions'
    BY <1>1, <2>1 DEF Functions, Fun
  <2>3. \A r \in Requests : Shape(r)'
    BY <1>1, <2>1 DEF Shape
  <2> QED
    BY <1>1, <2>2, <2>3 DEF Base
<1>3. ProgressInv'
  BY <1>1 DEF ProxyInv, ProgressInv, Progress
<1>4. \A q \in Requests : TicketKept(q)
  BY <1>1 DEF TicketKept, Claims, HasSession
<1>5. TicketInv'
  BY <1>1, <1>4, TicketFrame DEF ProxyInv
<1> QED
  BY <1>2, <1>3, <1>5 DEF ProxyInv

\* A restart ends every handler and forgets the replay windows, and with the
\* registry every session there was: all of them are dead.
LEMMA RestartStep == ProxyInv /\ Restart => ProxyInv'
<1> SUFFICES ASSUME ProxyInv, Restart PROVE ProxyInv'
  OBVIOUS
<1>1. /\ UNCHANGED << minted, req, since, sent, given, response >>
      /\ registry' = {} /\ accepted' = [s \in Sessions |-> {}]
      /\ pc' = [r \in Requests |-> IF pc[r] \in {"idle", "done"} THEN pc[r] ELSE "gone"]
  BY ZenonT(60) DEF Restart
<1>2. \A r \in Requests : pc'[r] \notin Holding /\ (pc'[r] = pc[r] \/ pc'[r] = "gone")
  BY <1>1 DEF Holding
<1>3. Base'
  <2>1. Functions /\ (\A r \in Requests : Shape(r)) /\ minted \in Nat /\ minted <= MaxHandshakes
    BY DEF ProxyInv, Base
  <2>2. Functions'
    BY <1>1, <2>1 DEF Functions, Fun
  <2>3. \A r \in Requests : Shape(r)'
    BY <1>1, <1>2, <2>1 DEF Shape, Holding
  <2> QED
    BY <1>1, <2>1, <2>2, <2>3 DEF Base
<1>4. ASSUME NEW r \in Requests
      PROVE  Progress(r)'
  <2>1. Progress(r) /\ Shape(r)
    BY ZenonT(60) DEF ProxyInv, ProgressInv, Base
  <2>2. CASE pc'[r] = pc[r]
    BY <1>1, <2>1, <2>2, SMTT(60) DEF Progress
  <2>3. CASE pc[r] \notin {"idle", "done"}
    <3>1. pc'[r] = "gone" /\ UNCHANGED << sent, given, response >>
      BY <1>1, <2>3
    <3> QED
      BY <2>1, <2>3, <3>1 DEF Progress, Shape, Stream, Waiting, Places
  <2> QED
    BY <1>1, <2>2, <2>3
<1>5. TicketInv'
  <2>1. \A q \in Requests : (Claims(q)' => Claims(q)) /\ (HasSession(q)' => HasSession(q))
    BY <1>1, <1>2 DEF Claims, HasSession, Holding
  <2>2. \A q \in Requests : HoldsTicket(q)'
    BY <1>1, <2>1 DEF ProxyInv, TicketInv, HoldsTicket, HasSession
  <2>3. \A s : Dead(s)'
    BY <1>1, <1>2 DEF Dead
  <2>4. \A q \in Requests : Recorded(q)'
    BY <1>2, <2>3 DEF Recorded, Holding
  <2>5. \A p, q \in Requests : p # q /\ Claims(p)' /\ Claims(q)' => Ticket(p)' # Ticket(q)'
    BY <1>1, <2>1 DEF ProxyInv, TicketInv, Ticket
  <2> QED
    BY <2>2, <2>4, <2>5, ZenonT(60) DEF TicketInv
<1> QED
  BY <1>3, <1>4, <1>5, ZenonT(60) DEF ProxyInv, ProgressInv

LEMMA ProxyInvariant == Spec => []ProxyInv
<1>1. Init => ProxyInv
  BY InitProxy DEF ProxyInv
<1>2. ProxyInv /\ [Next]_proxyVars => ProxyInv'
  <2> SUFFICES ASSUME ProxyInv, [Next]_proxyVars PROVE ProxyInv'
    OBVIOUS
  <2>1. CASE Publish \/ Handshake \/ Evict \/ UNCHANGED proxyVars
    BY <2>1, ProcessStep, ZenonT(60)
  <2>2. CASE Restart
    BY <2>2, RestartStep, ZenonT(60)
  <2>3. ASSUME NEW r \in Requests, RequestStep(r)
        PROVE  ProxyInv'
    BY <2>3, ProgressStep, BaseStep, TicketStep, ZenonT(60) DEF ProxyInv
  <2> QED
    BY <2>1, <2>2, <2>3, ZenonT(60) DEF Next, RequestStep
<1> QED
  BY <1>1, <1>2, PTL DEF Spec

-----------------------------------------------------------------------------
\* A client that gets an unsealed error may retry: no upstream has seen the
\* request (the `bare non-2xx` contract of proxy.rs).
THEOREM BareErrorsAreSafeToRetry == Spec => []BareMeansNotForwarded
<1>1. ProxyInv => BareMeansNotForwarded
  BY DEF ProxyInv, Base, Shape, Stream, ProgressInv, Progress, Waiting, Places, BareMeansNotForwarded
<1> QED
  BY <1>1, ProxyInvariant, PTL

\* However many handlers run, and however often the process is restarted, one
\* nonce of one session is forwarded at most once.
THEOREM NoReplayIsForwarded == Spec => []ForwardedOncePerNonce
<1>1. ProxyInv => ForwardedOncePerNonce
  BY SMTT(60) DEF ProxyInv, TicketInv, Claims, Ticket, ForwardedOncePerNonce
<1> QED
  BY <1>1, ProxyInvariant, PTL

\* A sealed stream that ends with its end marker has all that the upstream
\* sent, for any sequence of chunks and any cap.
THEOREM CompleteStreamsAreWhole == Spec => []CompleteMeansWhole
<1>1. ProxyInv => CompleteMeansWhole
  BY Numbers
  DEF ProxyInv, Base, Shape, Stream, ProgressInv, Progress, Waiting, Places, CompleteMeansWhole
<1> QED
  BY <1>1, ProxyInvariant, PTL

-----------------------------------------------------------------------------
\* Tables are only ever appended, and a request's window of tables is not empty.
TableInv ==
  /\ tables \in Seq(Tables) /\ Len(tables) >= 1
  /\ \A r \in Requests : pc[r] # "idle" => since[r] \in 1..Len(tables)

\* The call goes where table i sends it.
SentBy(i, call) ==
  LET route == Select(tables[i], call.target.host, call.target.path)
  IN  route # NoRoute /\ route.upstream = call.upstream

LEMMA TablesGrow ==
  ASSUME TableInv, [Next]_proxyVars
  PROVE  /\ tables' \in Seq(Tables) /\ Len(tables') >= Len(tables)
         /\ \A i \in 1..Len(tables) : tables'[i] = tables[i]
<1>1. CASE \E t \in Tables : tables' = Append(tables, t)
  BY <1>1 DEF TableInv
<1>2. CASE tables' = tables
  BY <1>2 DEF TableInv
<1>3. CASE \E r \in Requests : RequestStep(r)
  <2>1. UNCHANGED procVars
    BY <1>3, ZenonT(40) DEF RequestStep, HandlerStep, UpstreamStep, Arrive, Gate, Decrypt, Route,
       UpstreamFails, UpstreamAnswers, Chunk, StreamEnds, Disconnect
  <2> QED
    BY <1>2, <2>1 DEF procVars
<1>4. CASE UNCHANGED proxyVars
  BY <1>2, <1>4 DEF proxyVars, procVars
<1> QED
  BY <1>1, <1>2, <1>3, <1>4 DEF Next, RequestStep, Publish, Restart, Handshake, Evict

LEMMA ForwardsByLiveTable ==
  ASSUME TableInv, Functions, NEW r \in Requests, RequestStep(r)
  PROVE  \A call \in sent'[r] : call \in sent[r] \/ SentBy(Len(tables), call)
<1>1. CASE Route(r)
  <2>1. PICK target \in Targets :
          \/ sent' = sent
          \/ /\ Select(Table, target.host, target.path) # NoRoute
             /\ sent' = [sent EXCEPT ![r] = @ \cup {[upstream |->
                           Select(Table, target.host, target.path).upstream, target |-> target]}]
    BY <1>1, ZenonT(60) DEF Route, LiveTable
  <2> DEFINE new == [upstream |-> Select(Table, target.host, target.path).upstream, target |-> target]
  <2>2. CASE sent' = sent
    BY <2>2
  <2>3. CASE /\ Select(Table, target.host, target.path) # NoRoute
             /\ sent' = [sent EXCEPT ![r] = @ \cup {new}]
    <3>1. new.target = target /\ new.upstream = Select(Table, target.host, target.path).upstream
      OBVIOUS
    <3>2. SentBy(Len(tables), new)
      BY <2>3, <3>1, ZenonT(60) DEF SentBy, Table
    <3> HIDE DEF new
    <3>3. sent'[r] = sent[r] \cup {new}
      BY <2>3 DEF Functions, Fun
    <3> QED
      BY <3>2, <3>3
  <2> QED
    BY <2>1, <2>2, <2>3
<1>2. CASE sent' = sent
  BY <1>2
<1> QED
  BY <1>1, <1>2, ZenonT(60) DEF RequestStep, HandlerStep, UpstreamStep, Arrive, Gate, Decrypt,
     UpstreamFails, UpstreamAnswers, Chunk, StreamEnds, Disconnect

LEMMA WindowStep ==
  ASSUME Functions, NEW r \in Requests, RequestStep(r)
  PROVE  since'[r] = IF pc[r] = "idle" THEN Len(tables) ELSE since[r]
<1>1. CASE Arrive(r)
  BY <1>1 DEF Arrive, Functions, Fun
<1>2. CASE pc[r] # "idle" /\ since' = since
  BY <1>2
<1> QED
  BY <1>1, <1>2, ZenonT(60) DEF RequestStep, HandlerStep, UpstreamStep, Gate, Decrypt, Route,
     UpstreamFails, UpstreamAnswers, Chunk, StreamEnds, Disconnect

RoutedInv == \A r \in Requests : \A call \in sent[r] :
               \E i \in since[r]..Len(tables) : SentBy(i, call)

LEMMA TableStep ==
  ASSUME ProxyInv, TableInv, RoutedInv, [Next]_proxyVars
  PROVE  TableInv' /\ RoutedInv'
<1>1. /\ tables' \in Seq(Tables) /\ Len(tables') >= Len(tables) /\ Len(tables) >= 1
      /\ Len(tables) \in Nat /\ Len(tables') \in Nat
      /\ \A call : \A i \in 1..Len(tables) : SentBy(i, call) => SentBy(i, call)'
  <2>1. /\ tables' \in Seq(Tables) /\ Len(tables') >= Len(tables)
        /\ \A i \in 1..Len(tables) : tables'[i] = tables[i]
    BY TablesGrow, ZenonT(60)
  <2>2. Len(tables) >= 1 /\ Len(tables) \in Nat /\ Len(tables') \in Nat
    BY <2>1 DEF TableInv
  <2> QED
    BY <2>1, <2>2, ZenonT(60) DEF SentBy
<1>2. \A q \in Requests : sent[q] # {} => pc[q] # "idle"
  BY SMTT(60) DEF ProxyInv, ProgressInv, Progress, Waiting
<1>3. ASSUME NEW q \in Requests, pc'[q] # "idle" => pc[q] # "idle", since'[q] = since[q], sent'[q] = sent[q]
      PROVE  /\ pc'[q] # "idle" => since'[q] \in 1..Len(tables')
             /\ \A call \in sent'[q] : \E i \in since'[q]..Len(tables') : SentBy(i, call)'
  <2>1. pc[q] # "idle" => since[q] \in 1..Len(tables)
    BY ZenonT(60) DEF TableInv
  <2>2. ASSUME NEW call \in sent[q]
        PROVE  \E i \in since[q]..Len(tables') : SentBy(i, call)'
    <3>1. since[q] \in 1..Len(tables)
      BY <1>2, <2>1, <2>2, ZenonT(60)
    <3>2. PICK i \in since[q]..Len(tables) : SentBy(i, call)
      BY <2>2, ZenonT(60) DEF RoutedInv
    <3>3. i \in 1..Len(tables) /\ i \in since[q]..Len(tables')
      BY <1>1, <3>1, <3>2
    <3> QED
      BY <1>1, <3>2, <3>3, ZenonT(60)
  <2> QED
    BY <1>1, <1>3, <2>1, <2>2
<1>4. ASSUME NEW r \in Requests, RequestStep(r)
      PROVE  TableInv' /\ RoutedInv'
  <2>1. /\ OthersKept(r) /\ Moves(r) /\ tables' = tables
        /\ since'[r] = IF pc[r] = "idle" THEN Len(tables) ELSE since[r]
        /\ \A call \in sent'[r] : call \in sent[r] \/ SentBy(Len(tables), call)
    BY <1>4, StepIsLocal, StepMoves, WindowStep, ForwardsByLiveTable, SMTT(60) DEF ProxyInv, Base, procVars
  <2>2. since'[r] \in 1..Len(tables)
    BY <1>1, <2>1 DEF TableInv
  <2>3. ASSUME NEW call \in sent'[r]
        PROVE  \E i \in since'[r]..Len(tables') : SentBy(i, call)'
    <3>1. CASE call \in sent[r]
      <4>1. since'[r] = since[r]
        BY <1>2, <2>1, <3>1
      <4>2. PICK i \in since[r]..Len(tables) : SentBy(i, call)
        BY <3>1, ZenonT(60) DEF RoutedInv
      <4>3. i \in 1..Len(tables) /\ i \in since'[r]..Len(tables')
        BY <1>1, <2>1, <2>2, <4>1, <4>2
      <4> QED
        BY <1>1, <4>2, <4>3, ZenonT(60)
    <3>2. CASE SentBy(Len(tables), call)
      <4>1. Len(tables) \in 1..Len(tables) /\ Len(tables) \in since'[r]..Len(tables')
        BY <1>1, <2>2
      <4> QED
        BY <1>1, <3>2, <4>1, ZenonT(60)
    <3> QED
      BY <2>1, <2>3, <3>1, <3>2, ZenonT(60)
  <2>4. ASSUME NEW q \in Requests, q # r
        PROVE  pc'[q] = pc[q] /\ since'[q] = since[q] /\ sent'[q] = sent[q]
    BY <2>1, <2>4, ZenonT(60) DEF OthersKept, Local
  <2> QED
    BY <1>1, <1>3, <2>1, <2>2, <2>3, <2>4, SMTT(60) DEF TableInv, RoutedInv
<1>5. CASE Publish \/ Handshake \/ Evict \/ Restart \/ UNCHANGED proxyVars
  <2>1. since' = since /\ sent' = sent
    BY <1>5 DEF Publish, Handshake, Evict, Restart, proxyVars
  <2>2. \A q \in Requests : pc'[q] # "idle" => pc[q] # "idle"
    BY <1>5 DEF Publish, Handshake, Evict, Restart, proxyVars
  <2> QED
    BY <1>1, <1>3, <2>1, <2>2 DEF TableInv, RoutedInv
<1> QED
  BY <1>4, <1>5, ZenonT(60) DEF Next, RequestStep

\* Whatever the manager publishes while a request is being handled, the request
\* goes where one table decides that was live after it arrived.
THEOREM RoutesAreLive == Spec => []RoutedByLiveTable
<1>1. Init => TableInv /\ RoutedInv
  BY DEF Init, TableInv, RoutedInv
<1>2. RoutedInv => RoutedByLiveTable
  BY ZenonT(60) DEF RoutedInv, RoutedByLiveTable, SentBy
<1>3. ProxyInv /\ TableInv /\ RoutedInv /\ [Next]_proxyVars => (TableInv /\ RoutedInv)'
  BY TableStep
<1> QED
  BY <1>1, <1>2, <1>3, ProxyInvariant, PTL DEF Spec

-----------------------------------------------------------------------------
\* The refinement: the phase of every request, and the tickets that were used.
Phases == [r \in Requests |-> Phase(r)]
Used == {Ticket(r) : r \in {q \in Requests : sent[q] # {}}}

LEMMA PhaseAt ==
  ASSUME NEW r \in Requests, Progress(r)
  PROVE  /\ pc[r] \in Waiting => Phase(r) = "new"
         /\ pc[r] \in {"upstream", "stream"} => Phase(r) = "forwarded"
         /\ pc[r] = "gone" => Phase(r) = "lost"
         /\ pc[r] = "done" /\ ~response[r].sealed => Phase(r) = "refused"
         /\ pc[r] = "done" /\ response[r].sealed /\ response[r].end = "aborted" => Phase(r) = "cut"
         /\ pc[r] = "done" /\ response[r].sealed /\ response[r].end = "complete"
              => Phase(r) = "answered"
  BY DEF Phase, Progress, Waiting

\* The phases that a step of r's handler takes r through.
LEMMA PhaseMoves ==
  ASSUME NEW r \in Requests, Progress(r), Progress(r)', Moves(r)
  PROVE  \/ Phase(r)' = Phase(r) /\ sent'[r] = sent[r]
         \/ /\ Phase(r) = "new" /\ Phase(r)' = "forwarded"
            /\ pc[r] = "route" /\ pc'[r] = "upstream" /\ sent'[r] # {}
         \/ Phase(r) = "new" /\ Phase(r)' = "refused" /\ sent'[r] = sent[r]
         \/ Phase(r) \in {"new", "forwarded"} /\ Phase(r)' = "answered" /\ sent'[r] = sent[r]
         \/ Phase(r) = "forwarded" /\ Phase(r)' = "cut" /\ sent'[r] = sent[r]
         \/ Phase(r) \in {"new", "forwarded"} /\ Phase(r)' = "lost" /\ sent'[r] = sent[r]
<1>1. /\ pc[r] \in {"idle", "gate", "body", "route"} => Phase(r) = "new"
      /\ pc[r] \in {"upstream", "stream"} => Phase(r) = "forwarded"
  BY PhaseAt DEF Waiting
<1>2. /\ pc'[r] \in {"idle", "gate", "body", "route"} => Phase(r)' = "new"
      /\ pc'[r] \in {"upstream", "stream"} => Phase(r)' = "forwarded"
      /\ pc'[r] = "gone" => Phase(r)' = "lost"
      /\ pc'[r] = "done" /\ ~response'[r].sealed => Phase(r)' = "refused"
      /\ pc'[r] = "done" /\ response'[r].sealed /\ response'[r].end = "aborted" => Phase(r)' = "cut"
      /\ pc'[r] = "done" /\ response'[r].sealed /\ response'[r].end = "complete"
           => Phase(r)' = "answered"
  BY DEF Phase, Progress, Waiting
<1>e. ASSUME NEW sealed \in BOOLEAN, Ends(r, sealed)
      PROVE  sent'[r] = sent[r] /\ Phase(r)' = IF sealed THEN "answered" ELSE "refused"
  <2>1. pc'[r] = "done" /\ response'[r].sealed = sealed /\ response'[r].end = "complete"
        /\ sent'[r] = sent[r]
    BY <1>e, SMTT(60) DEF Ends
  <2> QED
    BY <1>2, <2>1
<1>3. CASE Early(r)
  <2>1. CASE \E sealed \in BOOLEAN : Ends(r, sealed) /\ pc[r] \in {"gate", "body"}
    BY <1>1, <1>e, <2>1, ZenonT(60)
  <2>2. CASE Same(r) /\ {pc[r], pc'[r]} \subseteq {"idle", "gate", "body", "route"}
    BY <1>1, <1>2, <2>2, ZenonT(60) DEF Same
  <2> QED
    BY <1>3, <2>1, <2>2, ZenonT(60) DEF Early
<1>4. CASE Forwarding(r)
  BY <1>1, <1>2, <1>4, <1>e, ZenonT(60) DEF Forwarding
<1>5. CASE Streaming(r)
  BY <1>1, <1>2, <1>5, SMTT(60) DEF Streaming, Stream
<1>6. CASE Dropped(r)
  BY <1>1, <1>2, <1>6, SMTT(60) DEF Dropped, Same
<1> QED
  BY <1>3, <1>4, <1>5, <1>6, ZenonT(60) DEF Moves

LEMMA ContractStep ==
  ASSUME ProxyInv, ProxyInv', NEW r \in Requests, RequestStep(r)
  PROVE  [Client!ContractNext]_(Client!contractVars)
<1>1. OthersKept(r) /\ Moves(r) /\ TicketMoves(r) /\ Progress(r) /\ Progress(r)'
  BY StepIsLocal, StepMoves, StepMovesTicket, ZenonT(60) DEF ProxyInv, Base, ProgressInv
<1>2. \A q \in Requests : q # r => Phase(q)' = Phase(q) /\ sent'[q] = sent[q] /\ Ticket(q)' = Ticket(q)
  BY <1>1, Kept, ZenonT(60) DEF Phase, Ticket
<1>3. Phases' = [Phases EXCEPT ![r] = Phase(r)'] /\ Phases[r] = Phase(r)
  BY <1>2, ZenonT(60) DEF Phases
<1>4. ASSUME sent'[r] = sent[r]
      PROVE  Used' = Used
  <2>1. sent[r] # {} => Ticket(r)' = Ticket(r)
    BY <1>1 DEF TicketMoves, Ticket, Progress, Waiting
  <2> QED
    BY <1>2, <1>4, <2>1, SMTT(60) DEF Used
<1>5. ASSUME pc[r] = "route", pc'[r] = "upstream", sent'[r] # {}
      PROVE  /\ Used' = Used \cup {Ticket(r)} /\ Ticket(r) \notin Used
             /\ Ticket(r) \in Sessions \X Nonces
  <2>1. Ticket(r)' = Ticket(r) /\ sent[r] = {}
    BY <1>1, <1>5, ZenonT(60) DEF TicketMoves, Ticket, Progress, Waiting
  <2>2. Ticket(r) \notin Used
    BY <1>5, <2>1, SMTT(60) DEF ProxyInv, TicketInv, Claims, Used
  <2>3. Ticket(r) \in Sessions \X Nonces
    BY <1>5, Numbers DEF ProxyInv, TicketInv, HoldsTicket, Holding, Base, Ticket, Sessions
  <2> QED
    BY <1>2, <1>5, <2>1, <2>2, <2>3, SMTT(60) DEF Used
<1>6. CASE Phase(r)' = Phase(r) /\ sent'[r] = sent[r]
  <2>1. Phases' = Phases /\ Used' = Used
    BY <1>3, <1>4, <1>6, ZenonT(60) DEF Phases
  <2> QED
    BY <2>1 DEF Phases, Used, Client!contractVars
<1>7. CASE Phase(r) = "new" /\ Phase(r)' = "forwarded"
           /\ pc[r] = "route" /\ pc'[r] = "upstream" /\ sent'[r] # {}
  <2>1. Phases[r] = "new" /\ Phases' = [Phases EXCEPT ![r] = "forwarded"]
    BY <1>3, <1>7
  <2>2. Client!Forward(r)
    BY <1>5, <1>7, <2>1, SMTT(60) DEF Client!Forward, Client!Becomes, Phases, Used
  <2> QED
    BY <2>2 DEF Client!ContractNext
<1>8. CASE Phase(r) = "new" /\ Phase(r)' = "refused" /\ sent'[r] = sent[r]
  <2>1. Phases[r] = "new" /\ Phases' = [Phases EXCEPT ![r] = "refused"] /\ Used' = Used
    BY <1>3, <1>4, <1>8
  <2>2. Client!Refuse(r)
    BY <2>1, ZenonT(60) DEF Client!Refuse, Client!Becomes, Phases, Used
  <2> QED
    BY <2>2 DEF Client!ContractNext
<1>9. CASE /\ \/ Phase(r) \in {"new", "forwarded"} /\ Phase(r)' = "answered"
              \/ Phase(r) = "forwarded" /\ Phase(r)' = "cut"
           /\ sent'[r] = sent[r]
  <2>1. Used' = Used
    BY <1>4, <1>9
  <2>2. \/ Phases[r] \in {"new", "forwarded"} /\ Phases' = [Phases EXCEPT ![r] = "answered"]
        \/ Phases[r] \in {"forwarded"} /\ Phases' = [Phases EXCEPT ![r] = "cut"]
    BY <1>3, <1>9, ZenonT(60)
  <2>3. Client!End(r)
    BY <2>1, <2>2 DEF Client!End, Client!Becomes, Phases, Used
  <2> QED
    BY <2>3 DEF Client!ContractNext
<1>10. CASE Phase(r) \in {"new", "forwarded"} /\ Phase(r)' = "lost" /\ sent'[r] = sent[r]
  <2>1. /\ Used' = Used /\ Phases[r] \in {"new", "forwarded"}
        /\ Phases' = [q \in Requests |-> IF q \in {r} THEN "lost" ELSE Phases[q]]
    BY <1>3, <1>4, <1>10, ZenonT(60) DEF Phases
  <2>2. Client!Lose({r})
    BY <2>1 DEF Client!Lose, Phases, Used
  <2> QED
    BY <2>2 DEF Client!ContractNext
<1> QED
  BY <1>1, <1>6, <1>7, <1>8, <1>9, <1>10, PhaseMoves

LEMMA ContractProcessStep ==
  ASSUME ProxyInv, Publish \/ Handshake \/ Evict \/ UNCHANGED proxyVars
  PROVE  UNCHANGED (Client!contractVars)
<1>1. UNCHANGED << pc, sent, response, req >>
  BY DEF Publish, Handshake, Evict, proxyVars
<1>2. \A r \in Requests : Phase(r)' = Phase(r) /\ Ticket(r)' = Ticket(r)
  BY <1>1, ZenonT(60) DEF Phase, Ticket
<1> QED
  BY <1>1, <1>2 DEF Client!contractVars

LEMMA ContractRestart ==
  ASSUME ProxyInv, Restart
  PROVE  Client!ContractNext
<1> DEFINE lost == {r \in Requests : pc[r] \notin {"idle", "done", "gone"}}
<1>1. /\ UNCHANGED << req, sent, response >>
      /\ pc' = [r \in Requests |-> IF pc[r] \in {"idle", "done"} THEN pc[r] ELSE "gone"]
  BY ZenonT(60) DEF Restart
<1>2. ASSUME NEW r \in Requests
      PROVE  /\ r \in lost => Phase(r) \in {"new", "forwarded"}
             /\ Phase(r)' = IF r \in lost THEN "lost" ELSE Phase(r)
             /\ Ticket(r)' = Ticket(r)
  <2>1. Progress(r)
    BY ZenonT(60) DEF ProxyInv, ProgressInv
  <2>2. r \in lost => Phase(r) \in {"new", "forwarded"}
    BY <2>1, PhaseAt, ZenonT(60) DEF Progress, Places, Waiting
  <2>3. CASE pc[r] \in {"idle", "done", "gone"}
    <3>1. pc'[r] = pc[r] /\ r \notin lost
      BY <1>1, <2>3
    <3> QED
      BY <1>1, <2>2, <3>1, ZenonT(60) DEF Phase, Ticket
  <2>4. CASE r \in lost
    <3>1. pc'[r] = "gone"
      BY <1>1, <2>4
    <3> QED
      BY <1>1, <2>2, <2>4, <3>1 DEF Phase, Ticket
  <2> QED
    BY <2>3, <2>4
<1> HIDE DEF lost
<1>3. Client!Lose(lost)
  <2>1. Phases' = [q \in Requests |-> IF q \in lost THEN "lost" ELSE Phases[q]]
    BY <1>2 DEF Phases
  <2>2. \A q \in lost : Phases[q] \in {"new", "forwarded"}
    BY <1>2 DEF Phases, lost
  <2>3. Used' = Used
    BY <1>1, <1>2 DEF Used
  <2> QED
    BY <2>1, <2>2, <2>3, ZenonT(60) DEF Client!Lose, Phases, Used
<1> QED
  BY <1>3 DEF Client!ContractNext, lost

\* The request path, with its registry, replay windows, route tables, streams
\* and restarts, does to each request only what AttestedRequest allows.
THEOREM ProxyKeepsContract == Spec => ImplementsAttestedRequest
<1>1. Init => Client!ContractInit
  <2> SUFFICES ASSUME Init PROVE Client!ContractInit
    OBVIOUS
  <2>1. \A r \in Requests : sent[r] = {} /\ pc[r] = "idle"
    BY DEF Init
  <2>2. \A r \in Requests : Phase(r) = "new"
    BY <2>1 DEF Phase
  <2> QED
    BY <2>1, <2>2 DEF Client!ContractInit
<1>2. ProxyInv /\ ProxyInv' /\ [Next]_proxyVars => [Client!ContractNext]_(Client!contractVars)
  <2> SUFFICES ASSUME ProxyInv, ProxyInv', [Next]_proxyVars
               PROVE  [Client!ContractNext]_(Client!contractVars)
    BY ZenonT(60)
  <2>1. CASE Publish \/ Handshake \/ Evict \/ UNCHANGED proxyVars
    BY <2>1, ContractProcessStep, ZenonT(60)
  <2>2. CASE Restart
    BY <2>2, ContractRestart, ZenonT(60)
  <2>3. CASE \E r \in Requests : RequestStep(r)
    BY <2>3, ContractStep, ZenonT(60)
  <2> QED
    BY <2>1, <2>2, <2>3, ZenonT(60) DEF Next, RequestStep
<1> QED
  BY <1>1, <1>2, ProxyInvariant, PTL DEF Spec, ImplementsAttestedRequest, Client!Contract

-----------------------------------------------------------------------------
\* The sizes of envelopes, saturating as they do: one that is over the cap has a
\* body that is.
LEMMA OverCap ==
  ASSUME NEW len \in Lens, EnvelopeSize(len) > PreDecryptCap
  PROVE  len > MaxBody
<1>1. len \in Nat /\ MaxBody \in Nat /\ UsizeMax \in Nat /\ 17 + 2 * (len + 16) <= UsizeMax
  BY ProxyConstants, EnvelopesFit, ZenonT(60) DEF EnvelopeSize
<1>2. /\ Saturate(MaxBody + 16) = MaxBody + 16 \/ Saturate(MaxBody + 16) = UsizeMax
      /\ Saturate(MaxBody + 16) \in Nat
  BY <1>1 DEF Saturate
<1>3. /\ PreDecryptCap = UsizeMax \/ PreDecryptCap = 2 * (MaxBody + 16) + 64
  BY <1>1, <1>2 DEF PreDecryptCap, Saturate
<1> QED
  BY <1>1, <1>3 DEF EnvelopeSize

\* What has arrived whole and within the cap; and a 413 from before the send.
Within(r) == req[r].whole = TRUE /\ req[r].len <= MaxBody
TooLarge(r) == response[r] # None /\ response[r].status = 413 /\ sent[r] = {}

\* No body is there until Decrypt, and what is past it is within the cap.
Capped(r) ==
  /\ pc[r] \in {"idle", "gate", "body"} => req[r].whole = FALSE
  /\ pc[r] = "route" \/ sent[r] # {} => Within(r)
  /\ TooLarge(r) => req[r].whole = FALSE \/ req[r].len > MaxBody

BodyInv == \A r \in Requests : Capped(r)

\* An answer without a body within the cap, or one that is not a 413.
LEMMA NotForwarded ==
  ASSUME NEW r, sent'[r] = {}, pc'[r] # "route",
         req'[r].whole = FALSE
  PROVE  Capped(r)'
  BY ZenonT(60) DEF Capped

LEMMA BodyAnswered ==
  ASSUME Functions, NEW r \in Requests, NEW sealed, NEW status, Answer(r, sealed, status)
  PROVE  pc'[r] = "done" /\ response'[r].status = status
  BY ZenonT(60) DEF Answer, Functions, Fun

\* Decrypt reads the length of a body and compares it, in its two checks.
LEMMA BodyDecrypt ==
  ASSUME Functions, NEW r \in Requests, Shape(r), Progress(r), Capped(r), Decrypt(r)
  PROVE  Capped(r)'
<1>1. /\ pc[r] = "body" /\ sent' = sent /\ sent[r] = {} /\ response[r] = None
      /\ req[r].whole = FALSE
  BY DecryptOutcome, ZenonT(60) DEF Progress, Waiting, Capped
<1>2. CASE BodyBreaks(r) /\ req' = req
  <2>1. Answer(r, FALSE, 413)
    BY <1>2, ZenonT(60) DEF BodyBreaks
  <2>2. pc'[r] = "done"
    BY <2>1, ZenonT(60) DEF Answer, Functions, Fun
  <2> QED
    BY <1>1, <1>2, <2>2, NotForwarded, ZenonT(60)
<1> SUFFICES ASSUME NEW len \in Lens, req' = [req EXCEPT ![r].len = len, ![r].whole = TRUE],
                    EnvelopeRefused(r, len) \/ CannotOpen(r, len) \/ Opens(r, len)
             PROVE  Capped(r)'
  BY <1>2, ZenonT(60) DEF Decrypt
<1>3. req'[r].len = len /\ req'[r].whole = TRUE
  BY ZenonT(60) DEF Shape, Functions, Fun
<1>4. ASSUME NEW sealed, NEW status, Answer(r, sealed, status), status # 413 \/ len > MaxBody
      PROVE  Capped(r)'
  <2>1. pc'[r] = "done" /\ response'[r].status = status
    BY <1>4, BodyAnswered, ZenonT(60)
  <2> QED
    BY <1>1, <1>3, <1>4, <2>1, ZenonT(60) DEF Capped, TooLarge
<1>5. CASE EnvelopeRefused(r, len)
  <2>1. CASE EnvelopeSize(len) > PreDecryptCap /\ Answer(r, FALSE, 413)
    <3>1. len > MaxBody
      BY <2>1, OverCap, ZenonT(60)
    <3> QED
      BY <1>4, <2>1, <3>1, ZenonT(60)
  <2>2. CASE Answer(r, FALSE, 400)
    <3>1. 400 # 413 \/ len > MaxBody
      OBVIOUS
    <3> QED
      BY <1>4, <2>2, <3>1, ZenonT(60)
  <2> QED
    BY <1>5, <2>1, <2>2, ZenonT(60) DEF EnvelopeRefused
<1>6. CASE CannotOpen(r, len)
  <2>1. PICK status \in {400, 401, 500} : Answer(r, FALSE, status)
    BY <1>6, ZenonT(60) DEF CannotOpen
  <2>2. status # 413 \/ len > MaxBody
    OBVIOUS
  <2> QED
    BY <1>4, <2>1, <2>2, ZenonT(60)
<1>7. CASE Opens(r, len)
  <2>1. CASE len > MaxBody /\ Answer(r, TRUE, 413)
    BY <1>4, <2>1, ZenonT(60)
  <2>2. CASE len <= MaxBody /\ pc' = [pc EXCEPT ![r] = "route"] /\ response' = response
    <3>1. pc'[r] = "route"
      BY <2>2, ZenonT(60) DEF Functions, Fun
    <3> QED
      BY <1>1, <1>3, <2>2, <3>1, ZenonT(60) DEF Capped, TooLarge, Within
  <2> QED
    BY <1>7, <2>1, <2>2, ZenonT(60) DEF Opens
<1> QED
  BY <1>5, <1>6, <1>7, ZenonT(60)

\* Before Decrypt there is no body, and after it no step takes its length back.
LEMMA BodyStep ==
  ASSUME ProxyInv, BodyInv, NEW r \in Requests, RequestStep(r)
  PROVE  BodyInv'
<1>0. Functions /\ Shape(r) /\ Progress(r) /\ Capped(r)
  BY ZenonT(60) DEF ProxyInv, Base, ProgressInv, BodyInv
<1>1. ASSUME NEW q \in Requests, q # r
      PROVE  Capped(q)'
  <2>1. OthersKept(r)
    BY <1>0, StepIsLocal, ZenonT(60)
  <2>2. req'[q] = req[q] /\ response'[q] = response[q] /\ sent'[q] = sent[q] /\ pc'[q] = pc[q]
    BY <1>1, <2>1, ZenonT(60) DEF OthersKept, Local
  <2> QED
    BY <2>2 DEF BodyInv, Capped, TooLarge, Within
<1> SUFFICES Capped(r)'
  BY <1>1, ZenonT(60) DEF BodyInv
<1>2. CASE Arrive(r)
  BY <1>0, <1>2, ZenonT(60) DEF Arrive, Capped, Progress, Waiting, Functions, Fun
<1>3. CASE Gate(r)
  <2>1. pc[r] = "gate" /\ sent' = sent
    BY <1>3, ZenonT(60) DEF Gate
  <2>2. sent'[r] = {} /\ req[r].whole = FALSE
    BY <1>0, <2>1, ZenonT(60) DEF Progress, Waiting, Capped
  <2>3. CASE \E status \in {400, 401} : Answer(r, FALSE, status) /\ UNCHANGED req
    <3>1. pc'[r] = "done"
      BY <1>0, <2>3 DEF Answer, Functions, Fun
    <3> QED
      BY <2>2, <2>3, <3>1, NotForwarded, ZenonT(60)
  <2>4. CASE /\ \E s \in registry, n \in Nonces : req' = [req EXCEPT ![r].session = s, ![r].nonce = n]
             /\ pc' = [pc EXCEPT ![r] = "body"] /\ UNCHANGED response
    <3>1. PICK s \in registry, n \in Nonces : req' = [req EXCEPT ![r].session = s, ![r].nonce = n]
      BY <2>4, ZenonT(60)
    <3>2. req'[r].whole = FALSE /\ pc'[r] = "body"
      BY <1>0, <2>2, <2>4, <3>1, ZenonT(60) DEF Functions, Fun, Shape
    <3> QED
      BY <2>2, <3>2, NotForwarded, ZenonT(60)
  <2> QED
    BY <1>3, <2>3, <2>4, ZenonT(60) DEF Gate
<1>4. CASE Decrypt(r)
  BY <1>0, <1>4, BodyDecrypt, ZenonT(60)
<1>5. CASE Route(r)
  <2>1. pc[r] = "route" /\ req' = req
    BY <1>5, RouteOutcome, ZenonT(60)
  <2>2. Within(r) /\ Within(r)'
    BY <1>0, <2>1, ZenonT(60) DEF Capped, Within
  <2>3. CASE Answer(r, TRUE, 404)
    <3>1. pc'[r] = "done" /\ response'[r].status = 404
      BY <1>0, <2>3, ZenonT(60) DEF Answer, Functions, Fun
    <3> QED
      BY <2>2, <3>1 DEF Capped, TooLarge
  <2>4. CASE /\ \E call : sent' = [sent EXCEPT ![r] = @ \cup {call}]
             /\ pc' = [pc EXCEPT ![r] = "upstream"]
    <3>1. sent'[r] # {} /\ pc'[r] = "upstream"
      BY <1>0, <2>4, ZenonT(60) DEF Functions, Fun
    <3> QED
      BY <2>2, <3>1, ZenonT(60) DEF Capped, TooLarge
  <2> QED
    BY <1>5, <2>3, <2>4, RouteOutcome, ZenonT(60)
<1>6. CASE UpstreamStep(r)
  <2>1. pc[r] \in {"upstream", "stream"} /\ sent' = sent /\ req' = req
    BY <1>6, ZenonT(60) DEF UpstreamStep, UpstreamFails, UpstreamAnswers, Chunk, StreamEnds
  <2>2. sent'[r] # {} /\ Within(r)'
    BY <1>0, <2>1, ZenonT(60) DEF Progress, Capped, Within
  <2>3. pc'[r] \notin {"idle", "gate", "body"}
    BY <1>0, <2>1, StepMoves, ZenonT(60) DEF Moves, Early, Forwarding, Streaming, Dropped, Ends, Same
  <2> QED
    BY <2>2, <2>3, ZenonT(60) DEF Capped, TooLarge
<1>7. CASE Disconnect(r)
  <2>1. pc'[r] = "gone" /\ UNCHANGED << sent, req, response >>
    BY <1>0, <1>7, ZenonT(60) DEF Disconnect, Functions, Fun
  <2> QED
    BY <1>0, <2>1, ZenonT(60) DEF Capped, TooLarge, Within
<1> QED
  BY <1>2, <1>3, <1>4, <1>5, <1>6, <1>7, ZenonT(60) DEF RequestStep, HandlerStep

\* Process-wide steps answer nobody; a restart drops the handlers.
LEMMA BodyProcess ==
  ASSUME BodyInv, Publish \/ Handshake \/ Evict \/ Restart \/ UNCHANGED proxyVars
  PROVE  BodyInv'
<1>1. UNCHANGED << req, response, sent >>
  BY ZenonT(60) DEF Publish, Handshake, Evict, Restart, proxyVars
<1>2. \A r \in Requests : pc'[r] = pc[r] \/ pc'[r] = "gone"
  BY ZenonT(60) DEF Publish, Handshake, Evict, Restart, proxyVars
<1> QED
  BY <1>1, <1>2, ZenonT(60) DEF BodyInv, Capped, TooLarge, Within

\* DecryptedRequest's two size checks amount to the configured cap: no body that
\* arrives whole and within max_body_bytes is answered as too large before it is
\* forwarded, and none that is larger, or broken off, is forwarded.
THEOREM BodiesWithinCapPass == Spec => []CapIsOnPlaintext
<1>1. Init => BodyInv
  BY DEF Init, BodyInv, Capped, TooLarge, Within
<1>2. ProxyInv /\ BodyInv /\ [Next]_proxyVars => BodyInv'
  BY BodyStep, BodyProcess, ZenonT(60) DEF Next, RequestStep
<1>3. BodyInv => CapIsOnPlaintext
  BY ZenonT(60) DEF BodyInv, Capped, TooLarge, Within, CapIsOnPlaintext
<1> QED
  BY <1>1, <1>2, <1>3, ProxyInvariant, PTL DEF Spec

-----------------------------------------------------------------------------
\* The sets of requests that CountersBalance counts.
Forwarded == {r \in Requests : since[r] >= booted /\ sent[r] # {}}
Untimed == {r \in Forwarded : response[r] = None /\ pc[r] \in {"upstream", "gone"}}
Failed == {r \in Forwarded : response[r] # None /\ response[r].sealed
                             /\ response[r].status \in {502, 504}}

Counters == [handshakes : Nat, decrypt_failures : Nat, upstream_requests : Nat,
             upstream_errors : Nat, latency_count : Nat]
MetricsOK == metrics \in Counters

\* A handler that runs was started by this process, and a stream's status is 200.
Success(resp) == resp \in Responses /\ resp.status = 200

BootedInv ==
  /\ booted \in 1..Len(tables)
  /\ \A r \in Requests : pc[r] \in {"gate"} \cup Holding => since[r] >= booted
  /\ \A r \in Requests : pc[r] = "stream" => Success(response[r])

CountInv == MetricsOK /\ BootedInv /\ CountersBalance

\* The three counters move by so much.
Moved(requests, errors, latencies) ==
  /\ metrics'.upstream_requests = metrics.upstream_requests + requests
  /\ metrics'.upstream_errors = metrics.upstream_errors + errors
  /\ metrics'.latency_count = metrics.latency_count + latencies

\* What counting does to them.
LEMMA Counted ==
  ASSUME MetricsOK
  PROVE  /\ metrics' = metrics => MetricsOK' /\ Moved(0, 0, 0)
         /\ metrics' = Count("handshakes") => MetricsOK' /\ Moved(0, 0, 0)
         /\ metrics' = Count("decrypt_failures") => MetricsOK' /\ Moved(0, 0, 0)
         /\ metrics' = Count("upstream_requests") => MetricsOK' /\ Moved(1, 0, 0)
         /\ metrics' = Count("latency_count") => MetricsOK' /\ Moved(0, 0, 1)
         /\ metrics' = [Count("upstream_errors") EXCEPT !.latency_count = @ + 1]
              => MetricsOK' /\ Moved(0, 1, 1)
<1> USE DEF Counters, MetricsOK, Count, Moved
<1>1. metrics' = metrics => MetricsOK' /\ Moved(0, 0, 0)
  OBVIOUS
<1>2. metrics' = Count("handshakes") => MetricsOK' /\ Moved(0, 0, 0)
  OBVIOUS
<1>3. metrics' = Count("decrypt_failures") => MetricsOK' /\ Moved(0, 0, 0)
  OBVIOUS
<1>4. metrics' = Count("upstream_requests") => MetricsOK' /\ Moved(1, 0, 0)
  OBVIOUS
<1>5. metrics' = Count("latency_count") => MetricsOK' /\ Moved(0, 0, 1)
  OBVIOUS
<1>6. metrics' = [Count("upstream_errors") EXCEPT !.latency_count = @ + 1]
        => MetricsOK' /\ Moved(0, 1, 1)
  <2>1. /\ Count("upstream_errors") \in Counters
        /\ Count("upstream_errors").upstream_requests = metrics.upstream_requests
        /\ Count("upstream_errors").upstream_errors = metrics.upstream_errors + 1
        /\ Count("upstream_errors").latency_count = metrics.latency_count
    OBVIOUS
  <2> HIDE DEF Count
  <2>2. PICK m \in Counters : m = Count("upstream_errors")
    BY <2>1, ZenonT(60)
  <2>3. m.latency_count \in Nat /\ m.upstream_requests \in Nat /\ m.upstream_errors \in Nat
    BY ZenonT(60)
  <2>4. ASSUME metrics' = [m EXCEPT !.latency_count = @ + 1]
        PROVE  /\ metrics' \in Counters
               /\ metrics'.upstream_requests = m.upstream_requests
               /\ metrics'.upstream_errors = m.upstream_errors
               /\ metrics'.latency_count = m.latency_count + 1
    BY <2>4
  <2>5. ASSUME metrics' = [m EXCEPT !.latency_count = @ + 1]
        PROVE  MetricsOK'
    BY <2>4, <2>5, ZenonT(60)
  <2>6. ASSUME metrics' = [m EXCEPT !.latency_count = @ + 1]
        PROVE  Moved(0, 1, 1)
    BY <2>1, <2>2, <2>3, <2>4, <2>6
  <2> QED
    BY <2>2, <2>5, <2>6, ZenonT(60)
<1> HIDE DEF Counters, MetricsOK, Count, Moved
<1> QED
  BY <1>1, <1>2, <1>3, <1>4, <1>5, <1>6, ZenonT(60)

\* What one request contributes to the counters.
Mine(r) == since[r] >= booted /\ sent[r] # {}
Pending(r) == Mine(r) /\ response[r] = None /\ pc[r] \in {"upstream", "gone"}
Errored(r) == Mine(r) /\ response[r] # None /\ response[r].sealed
                      /\ response[r].status \in {502, 504}

\* What a step of r's handler does to its contribution, and to the counters.
Tallies(r) ==
  \/ /\ Mine(r)' <=> Mine(r)
     /\ Pending(r)' <=> Pending(r)
     /\ Errored(r)' <=> Errored(r)
     /\ Moved(0, 0, 0)
  \/ /\ ~Mine(r) /\ ~Pending(r) /\ ~Errored(r)
     /\ Mine(r)' /\ Pending(r)' /\ ~Errored(r)'
     /\ Moved(1, 0, 0)
  \/ /\ Mine(r) /\ Pending(r) /\ ~Errored(r)
     /\ Mine(r)' /\ ~Pending(r)' /\ Errored(r)'
     /\ Moved(0, 1, 1)
  \/ /\ Mine(r) /\ Pending(r) /\ ~Errored(r)
     /\ Mine(r)' /\ ~Pending(r)' /\ ~Errored(r)'
     /\ Moved(0, 0, 1)

-----------------------------------------------------------------------------
\* A step of a request that has not been forwarded, and is not by this step.
LEMMA EarlyTallies ==
  ASSUME NEW r, sent[r] = {}, sent'[r] = {}, Moved(0, 0, 0)
  PROVE  Tallies(r)
  BY ZenonT(60) DEF Tallies, Mine, Pending, Errored

\* What an answer leaves in r's response.
Failure(status) == status \in {502, 504}

LEMMA AnswerTallied ==
  ASSUME Functions, NEW r \in Requests, NEW status \in Nat, Answer(r, TRUE, status),
         response[r] = None, Mine(r), Mine(r)', pc[r] = "upstream"
  PROVE  Pending(r) /\ ~Pending(r)' /\ ~Errored(r)
         /\ (Errored(r)' <=> Failure(status))
<1>1. /\ response'[r] = [sealed |-> TRUE, status |-> status, body |-> 0, end |-> "complete"]
      /\ pc'[r] = "done"
  BY ZenonT(60) DEF Functions, Fun, Answer
<1>2. ~Pending(r)' /\ Pending(r) /\ ~Errored(r)
  BY <1>1, ZenonT(60) DEF Pending, Errored
<1>3. response'[r].sealed = TRUE /\ response'[r].status = status
  BY <1>1
<1>4. response'[r] # None
  <2>1. TRUE \in BOOLEAN
    BY ZenonT(60)
  <2>2. [sealed |-> TRUE, status |-> status, body |-> 0, end |-> "complete"] \in Responses
    BY <2>1, ZenonT(60) DEF Responses
  <2> QED
    BY <1>1, <2>2, NoneIsNoResponse, ZenonT(60)
<1> QED
  BY <1>2, <1>3, <1>4, ZenonT(60) DEF Errored, Failure

LEMMA StepTallies ==
  ASSUME ProxyInv, TableInv, MetricsOK, BootedInv, NEW r \in Requests, RequestStep(r)
  PROVE  Tallies(r) /\ MetricsOK'
<1>0. Functions /\ Shape(r) /\ Progress(r)
  BY ZenonT(60) DEF ProxyInv, Base, ProgressInv
<1>1. UNCHANGED booted
  BY <1>0, StepIsLocal, ZenonT(60) DEF procVars
<1>2. CASE Arrive(r)
  <2>1. sent[r] = {} /\ sent' = sent /\ metrics' = metrics
    BY <1>0, <1>2, ZenonT(60) DEF Arrive, Progress, Waiting
  <2> QED
    BY <2>1, Counted, EarlyTallies, ZenonT(60)
<1>3. CASE Gate(r)
  <2>1. sent[r] = {} /\ sent' = sent /\ metrics' = metrics
    BY <1>0, <1>3, ZenonT(60) DEF Gate, Progress, Waiting
  <2> QED
    BY <2>1, Counted, EarlyTallies, ZenonT(60)
<1>4. CASE Decrypt(r)
  <2>1. sent[r] = {} /\ sent' = sent
    BY <1>0, <1>4, ZenonT(60) DEF Decrypt, Progress, Waiting
  <2>2. metrics' = metrics \/ metrics' = Count("decrypt_failures")
    BY <1>4, ZenonT(60) DEF Decrypt, BodyBreaks, EnvelopeRefused, CannotOpen, Opens
  <2> QED
    BY <2>1, <2>2, Counted, EarlyTallies, ZenonT(60)
<1>5. CASE Route(r)
  <2>1. pc[r] = "route" /\ sent[r] = {} /\ response[r] = None /\ since' = since
    BY <1>0, <1>5, ZenonT(60) DEF Route, Progress, Waiting
  <2>2. CASE sent' = sent /\ metrics' = metrics
    BY <2>1, <2>2, Counted, EarlyTallies, ZenonT(60)
  <2>3. CASE /\ metrics' = Count("upstream_requests") /\ pc' = [pc EXCEPT ![r] = "upstream"]
             /\ \E call : sent' = [sent EXCEPT ![r] = @ \cup {call}]
             /\ response' = response
    <3>1. pc'[r] = "upstream" /\ sent'[r] # {}
      BY <1>0, <2>3, ZenonT(60) DEF Functions, Fun
    <3>2. since[r] >= booted
      BY <2>1, ZenonT(60) DEF BootedInv, Holding
    <3>3. ~Mine(r) /\ ~Pending(r) /\ ~Errored(r)
      BY <2>1, ZenonT(60) DEF Mine, Pending, Errored
    <3>4. Mine(r)' /\ Pending(r)' /\ ~Errored(r)'
      BY <1>1, <2>1, <2>3, <3>1, <3>2, ZenonT(60) DEF Mine, Pending, Errored
    <3> QED
      BY <2>3, <3>3, <3>4, Counted, ZenonT(60) DEF Tallies
  <2> QED
    BY <1>5, <2>2, <2>3, ZenonT(60) DEF Route
<1>6. CASE UpstreamFails(r) \/ UpstreamAnswers(r)
  <2>1. pc[r] = "upstream" /\ since' = since /\ sent' = sent
    BY <1>6, ZenonT(60) DEF UpstreamFails, UpstreamAnswers
  <2>2. response[r] = None /\ sent[r] # {} /\ since[r] >= booted
    BY <1>0, <2>1, ZenonT(60) DEF Progress, BootedInv, Holding
  <2>3. Mine(r) /\ Mine(r)'
    BY <1>1, <2>1, <2>2, ZenonT(60) DEF Mine
  <2>4. CASE UpstreamFails(r)
    <3>1. ASSUME NEW status \in Nat, Failure(status), Answer(r, TRUE, status)
          PROVE  Pending(r) /\ ~Pending(r)' /\ ~Errored(r) /\ Errored(r)'
      BY <1>0, <2>1, <2>2, <2>3, <3>1, AnswerTallied, ZenonT(60)
    <3>2. PICK status \in {502, 504} : Answer(r, TRUE, status)
      BY <2>4, ZenonT(60) DEF UpstreamFails
    <3>3. Pending(r) /\ ~Pending(r)' /\ ~Errored(r) /\ Errored(r)'
      <4>1. status \in Nat
        OBVIOUS
      <4>2. Failure(status)
        BY ZenonT(60) DEF Failure
      <4> QED
        BY <3>1, <3>2, <4>1, <4>2, ZenonT(60)
    <3>4. metrics' = [Count("upstream_errors") EXCEPT !.latency_count = @ + 1]
      BY <2>4, ZenonT(60) DEF UpstreamFails
    <3> QED
      BY <2>3, <3>3, <3>4, Counted, ZenonT(60) DEF Tallies
  <2>5. CASE UpstreamAnswers(r)
    <3>1. Pending(r) /\ ~Errored(r)
      BY <2>1, <2>2, <2>3, ZenonT(60) DEF Pending, Errored
    <3>2. ~Pending(r)' /\ ~Errored(r)'
      <4>1. CASE Answer(r, TRUE, 413)
        <5>1. PICK status \in Nat : status = 413
          OBVIOUS
        <5>2. ~Failure(status)
          BY <5>1 DEF Failure
        <5> QED
          BY <1>0, <2>1, <2>2, <2>3, <4>1, <5>1, <5>2, AnswerTallied, ZenonT(60)
      <4>2. CASE /\ response' = [response EXCEPT ![r] = [sealed |-> TRUE, status |-> 200,
                                                        body |-> 0, end |-> "open"]]
                 /\ pc' = [pc EXCEPT ![r] = "stream"]
        <5>1. pc'[r] = "stream" /\ response'[r].status = 200
          BY <1>0, <4>2, ZenonT(60) DEF Functions, Fun
        <5> QED
          BY <5>1 DEF Pending, Errored
      <4> QED
        BY <2>5, <4>1, <4>2, ZenonT(60) DEF UpstreamAnswers
    <3>3. metrics' = Count("latency_count")
      BY <2>5, ZenonT(60) DEF UpstreamAnswers
    <3> QED
      BY <2>3, <3>1, <3>2, <3>3, Counted, ZenonT(60) DEF Tallies
  <2> QED
    BY <1>6, <2>4, <2>5, ZenonT(60)
<1>7. CASE Chunk(r) \/ StreamEnds(r)
  <2>1. pc[r] = "stream" /\ since' = since /\ sent' = sent /\ metrics' = metrics
    BY <1>7, ZenonT(60) DEF Chunk, StreamEnds
  <2>2. response[r] \in Responses /\ response[r].status = 200
    BY <2>1, ZenonT(60) DEF BootedInv, Success
  <2>3. pc'[r] \in {"stream", "done"} /\ response'[r].status = 200
    BY <1>0, <1>7, <2>1, <2>2, SMTT(60) DEF Chunk, StreamEnds, Functions, Fun, Responses
  <2>4. ~Pending(r) /\ ~Errored(r) /\ ~Pending(r)' /\ ~Errored(r)'
    BY <2>1, <2>2, <2>3 DEF Pending, Errored
  <2>5. Mine(r)' <=> Mine(r)
    BY <1>1, <2>1, ZenonT(60) DEF Mine
  <2> QED
    BY <2>1, <2>4, <2>5, Counted, ZenonT(60) DEF Tallies
<1>8. CASE Disconnect(r)
  <2>1. /\ pc[r] \in {"body", "upstream", "stream"} /\ since' = since /\ sent' = sent
        /\ response' = response /\ metrics' = metrics /\ pc'[r] = "gone"
    BY <1>0, <1>8, ZenonT(60) DEF Disconnect, Functions, Fun
  <2>2. Mine(r)' <=> Mine(r)
    BY <1>1, <2>1, ZenonT(60) DEF Mine
  <2>3. Errored(r)' <=> Errored(r)
    BY <2>1, <2>2, ZenonT(60) DEF Errored
  <2>4. CASE pc[r] = "body"
    <3>1. sent[r] = {}
      BY <1>0, <2>4, ZenonT(60) DEF Progress, Waiting
    <3> QED
      BY <2>1, <3>1, Counted, EarlyTallies, ZenonT(60)
  <2>5. CASE pc[r] = "upstream"
    <3>1. Pending(r)' <=> Pending(r)
      BY <2>1, <2>2, <2>5, ZenonT(60) DEF Pending
    <3> QED
      BY <2>1, <2>2, <2>3, <3>1, Counted, ZenonT(60) DEF Tallies
  <2>6. CASE pc[r] = "stream"
    <3>1. ~(response[r] = None)
      BY <2>6, NoneIsNoResponse, ZenonT(60) DEF BootedInv, Success
    <3>2. Pending(r)' <=> Pending(r)
      BY <2>1, <3>1, ZenonT(60) DEF Pending
    <3> QED
      BY <2>1, <2>2, <2>3, <3>2, Counted, ZenonT(60) DEF Tallies
  <2> QED
    BY <2>1, <2>4, <2>5, <2>6, ZenonT(60)
<1> QED
  BY <1>2, <1>3, <1>4, <1>5, <1>6, <1>7, <1>8, ZenonT(60)
  DEF RequestStep, HandlerStep, UpstreamStep

\* A handler's step keeps BootedInv: who arrives does so in this process, and a
\* stream starts with its 200.
LEMMA StreamIsOpened ==
  ASSUME Functions, NEW r \in Requests, RequestStep(r), pc'[r] = "stream",
         pc[r] = "stream" => Success(response[r])
  PROVE  Success(response'[r])
<1>0. TRUE \in BOOLEAN
  BY ZenonT(60)
<1>1. ASSUME NEW place, pc' = [pc EXCEPT ![r] = place]  PROVE place = "stream"
  BY <1>1, ZenonT(60) DEF Functions, Fun
<1>2. \A sealed, status : ~Answer(r, sealed, status)
  BY <1>1, ZenonT(60) DEF Answer
<1>3. CASE UpstreamAnswers(r)
  <2>1. response' = [response EXCEPT ![r] = [sealed |-> TRUE, status |-> 200,
                                             body |-> 0, end |-> "open"]]
    BY <1>2, <1>3, ZenonT(60) DEF UpstreamAnswers
  <2>2. response'[r] = [sealed |-> TRUE, status |-> 200, body |-> 0, end |-> "open"]
    BY <2>1, ZenonT(60) DEF Functions, Fun
  <2> QED
    BY <1>0, <2>2 DEF Responses, Success
<1>4. CASE Chunk(r)
  <2>1. pc[r] = "stream"
    BY <1>4, ZenonT(60) DEF Chunk
  <2>2. PICK c \in Chunks : response' = [response EXCEPT ![r].body = @ + c]
    <3>1. ~(pc' = [pc EXCEPT ![r] = "done"])
      BY <1>1, ZenonT(60)
    <3> QED
      BY <1>4, <3>1, ZenonT(60) DEF Chunk
  <2>3. c \in Nat
    BY ProxyConstants, ZenonT(60)
  <2>4. response'[r] = [response[r] EXCEPT !.body = @ + c]
    BY <2>2, ZenonT(60) DEF Functions, Fun
  <2>5. response[r].status = 200 /\ response[r] \in Responses
    BY <2>1, ZenonT(60) DEF Success
  <2>6. PICK b \in Nat : b = response[r].body + c
    BY <2>3, <2>5 DEF Responses
  <2>7. response'[r] = [response[r] EXCEPT !.body = b]
    BY <2>4, <2>6, ZenonT(60)
  <2> QED
    BY <2>5, <2>7 DEF Responses, Success
<1>5. ~Arrive(r) /\ ~Gate(r) /\ ~Disconnect(r) /\ ~StreamEnds(r) /\ ~UpstreamFails(r)
  <2>1. ~Arrive(r) /\ ~Disconnect(r) /\ ~StreamEnds(r)
    BY <1>1, ZenonT(60) DEF Arrive, Disconnect, StreamEnds
  <2>2. ~Gate(r)
    <3>1. "body" # "stream"
      BY ZenonT(60)
    <3> QED
      BY <1>1, <1>2, <3>1, ZenonT(60) DEF Gate
  <2>3. ~UpstreamFails(r)
    <3> SUFFICES ASSUME UpstreamFails(r) PROVE FALSE
      BY ZenonT(60)
    <3>1. PICK status \in {502, 504} : Answer(r, TRUE, status)
      BY ZenonT(60) DEF UpstreamFails
    <3> QED
      BY <1>2, <3>1, ZenonT(60)
  <2> QED
    BY <2>1, <2>2, <2>3, ZenonT(60)
<1>6. ~Decrypt(r) /\ ~Route(r)
  <2>1. "route" # "stream" /\ "upstream" # "stream"
    BY ZenonT(60)
  <2>2. ~Decrypt(r)
    BY <1>1, <1>2, <2>1, DecryptOutcome, ZenonT(60) DEF Refused, Opened
  <2>3. ~Route(r)
    BY <1>1, <1>2, <2>1, RouteOutcome, ZenonT(60)
  <2> QED
    BY <2>2, <2>3, ZenonT(60)
<1> QED
  BY <1>3, <1>4, <1>5, <1>6, ZenonT(60) DEF RequestStep, HandlerStep, UpstreamStep

LEMMA BootedStep ==
  ASSUME ProxyInv, TableInv, BootedInv, NEW r \in Requests, RequestStep(r)
  PROVE  BootedInv'
<1>0. Functions /\ Shape(r) /\ Progress(r)
  BY ZenonT(60) DEF ProxyInv, Base, ProgressInv
<1>1. /\ OthersKept(r) /\ Moves(r)
      /\ tables' = tables /\ booted' = booted
      /\ since'[r] = IF pc[r] = "idle" THEN Len(tables) ELSE since[r]
  BY <1>0, StepIsLocal, StepMoves, WindowStep, ZenonT(60) DEF procVars
<1>2. ASSUME NEW q \in Requests, q # r
      PROVE  pc'[q] = pc[q] /\ since'[q] = since[q] /\ response'[q] = response[q]
  BY <1>1, <1>2, ZenonT(60) DEF OthersKept, Local
<1>3. booted \in 1..Len(tables) /\ Len(tables) \in Nat
  BY SMTT(60) DEF BootedInv, TableInv
<1>4. pc'[r] \in {"gate"} \cup Holding => pc[r] \in {"idle", "gate"} \cup Holding
  BY <1>1, ZenonT(60) DEF Moves, Early, Forwarding, Streaming, Dropped, Holding, Ends
<1>5. pc'[r] \in {"gate"} \cup Holding => since'[r] >= booted'
  <2>1. Len(tables) >= booted
    BY <1>3, SMTT(60)
  <2>2. pc[r] \in {"gate"} \cup Holding => since[r] >= booted
    BY ZenonT(60) DEF BootedInv
  <2> QED
    BY <1>1, <1>4, <2>1, <2>2, ZenonT(60)
<1>6. pc'[r] = "stream" => Success(response'[r])
  BY <1>0, StreamIsOpened, ZenonT(60) DEF BootedInv
<1>7. \A q \in Requests : pc'[q] \in {"gate"} \cup Holding => since'[q] >= booted'
  BY <1>1, <1>2, <1>5, ZenonT(60) DEF BootedInv
<1>8. \A q \in Requests : pc'[q] = "stream" => Success(response'[q])
  BY <1>2, <1>6, ZenonT(60) DEF BootedInv
<1> QED
  BY <1>1, <1>3, <1>7, <1>8, ZenonT(60) DEF BootedInv, Holding

-----------------------------------------------------------------------------
\* Taken here and not with EXTENDS: every fact in scope slows the provers down.
INSTANCE FiniteSetTheorems

\* A set that changes at one request only.
LEMMA CountAtOne ==
  ASSUME NEW S \in SUBSET Requests, NEW T \in SUBSET Requests, NEW r \in Requests,
         \A q \in Requests : q # r => (q \in T <=> q \in S)
  PROVE  /\ Cardinality(S) \in Nat /\ Cardinality(T) \in Nat
         /\ (r \in T <=> r \in S) => T = S
         /\ r \notin S /\ r \in T => Cardinality(T) = Cardinality(S) + 1
         /\ r \in S /\ r \notin T => Cardinality(S) = Cardinality(T) + 1
<1>1. IsFiniteSet(S) /\ IsFiniteSet(T)
  BY ProxyConstants, FS_Subset, ZenonT(60)
<1>2. (r \in T <=> r \in S) => T = S
  OBVIOUS
<1>3. ASSUME r \notin S, r \in T  PROVE Cardinality(T) = Cardinality(S) + 1
  <2>1. T = S \cup {r}
    BY <1>3, ZenonT(60)
  <2> QED
    BY <1>1, <1>3, <2>1, FS_AddElement, ZenonT(60)
<1>4. ASSUME r \in S, r \notin T  PROVE Cardinality(S) = Cardinality(T) + 1
  <2>1. S = T \cup {r}
    BY <1>4, ZenonT(60)
  <2> QED
    BY <1>1, <1>4, <2>1, FS_AddElement, ZenonT(60)
<1>5. Cardinality(S) \in Nat /\ Cardinality(T) \in Nat
  BY <1>1, FS_CardinalityType, ZenonT(60)
<1> QED
  BY <1>2, <1>3, <1>4, <1>5, ZenonT(60)

\* The counters that balance for one request's step balance for all requests.
LEMMA TallyStep ==
  ASSUME MetricsOK, CountersBalance, NEW r \in Requests, Tallies(r),
         \A q \in Requests : q # r => /\ Mine(q)' <=> Mine(q)
                                      /\ Pending(q)' <=> Pending(q)
                                      /\ Errored(q)' <=> Errored(q)
  PROVE  CountersBalance'
<1>1. PICK F \in SUBSET Requests, U \in SUBSET Requests, X \in SUBSET Requests :
        F = Forwarded /\ U = Untimed /\ X = Failed
  BY ZenonT(60) DEF Forwarded, Untimed, Failed
<1>2. PICK F2 \in SUBSET Requests, U2 \in SUBSET Requests, X2 \in SUBSET Requests :
        F2 = Forwarded' /\ U2 = Untimed' /\ X2 = Failed'
  BY ZenonT(60) DEF Forwarded, Untimed, Failed
<1>3. \A q \in Requests : /\ q \in F <=> Mine(q)
                          /\ q \in U <=> Pending(q)
                          /\ q \in X <=> Errored(q)
                          /\ q \in F2 <=> Mine(q)'
                          /\ q \in U2 <=> Pending(q)'
                          /\ q \in X2 <=> Errored(q)'
  <2>1. \A q \in Requests : (q \in F <=> Mine(q)) /\ (q \in F2 <=> Mine(q)')
    BY <1>1, <1>2, ZenonT(60) DEF Forwarded, Mine
  <2>2. \A q \in Requests : (q \in U <=> Pending(q)) /\ (q \in U2 <=> Pending(q)')
    BY <1>1, <1>2, ZenonT(60) DEF Forwarded, Untimed, Mine, Pending
  <2>3. \A q \in Requests : (q \in X <=> Errored(q)) /\ (q \in X2 <=> Errored(q)')
    BY <1>1, <1>2, ZenonT(60) DEF Forwarded, Failed, Mine, Errored
  <2> QED
    BY <2>1, <2>2, <2>3, ZenonT(60)
<1>4. /\ metrics.upstream_requests = Cardinality(F)
      /\ metrics.latency_count + Cardinality(U) = Cardinality(F)
      /\ metrics.upstream_errors = Cardinality(X)
  BY <1>1, ZenonT(60) DEF CountersBalance, Forwarded, Untimed, Failed
<1>5. metrics.latency_count \in Nat
  BY ZenonT(60) DEF MetricsOK, Counters
<1>6. \A q \in Requests : q # r => /\ q \in F2 <=> q \in F
                                   /\ q \in U2 <=> q \in U
                                   /\ q \in X2 <=> q \in X
  BY <1>3, ZenonT(60)
<1>7. /\ Cardinality(F) \in Nat /\ Cardinality(F2) \in Nat
      /\ (r \in F2 <=> r \in F) => F2 = F
      /\ r \notin F /\ r \in F2 => Cardinality(F2) = Cardinality(F) + 1
  BY <1>6, CountAtOne
<1>8. /\ Cardinality(U) \in Nat /\ Cardinality(U2) \in Nat
      /\ (r \in U2 <=> r \in U) => U2 = U
      /\ r \notin U /\ r \in U2 => Cardinality(U2) = Cardinality(U) + 1
      /\ r \in U /\ r \notin U2 => Cardinality(U) = Cardinality(U2) + 1
  BY <1>6, CountAtOne
<1>9. /\ Cardinality(X) \in Nat /\ Cardinality(X2) \in Nat
      /\ (r \in X2 <=> r \in X) => X2 = X
      /\ r \notin X /\ r \in X2 => Cardinality(X2) = Cardinality(X) + 1
  BY <1>6, CountAtOne
<1>10. /\ r \in F <=> Mine(r)
       /\ r \in U <=> Pending(r)
       /\ r \in X <=> Errored(r)
       /\ r \in F2 <=> Mine(r)'
       /\ r \in U2 <=> Pending(r)'
       /\ r \in X2 <=> Errored(r)'
  BY <1>3, ZenonT(60)
<1>11. /\ metrics'.upstream_requests = Cardinality(F2)
       /\ metrics'.latency_count + Cardinality(U2) = Cardinality(F2)
       /\ metrics'.upstream_errors = Cardinality(X2)
  <2>1. metrics'.upstream_requests = Cardinality(F2)
    BY <1>4, <1>7, <1>10, SMTT(60) DEF Tallies, Moved
  <2>2. metrics'.latency_count + Cardinality(U2) = Cardinality(F2)
    BY <1>4, <1>5, <1>7, <1>8, <1>10, SMTT(60) DEF Tallies, Moved
  <2>3. metrics'.upstream_errors = Cardinality(X2)
    BY <1>4, <1>9, <1>10, SMTT(60) DEF Tallies, Moved
  <2> QED
    BY <2>1, <2>2, <2>3, ZenonT(60)
<1> QED
  BY <1>2, <1>11, ZenonT(60) DEF CountersBalance, Forwarded, Untimed, Failed

LEMMA CountRequestStep ==
  ASSUME ProxyInv, TableInv, CountInv, NEW r \in Requests, RequestStep(r)
  PROVE  CountInv'
<1>1. Tallies(r) /\ MetricsOK'
  BY StepTallies, ZenonT(60) DEF CountInv
<1>2. OthersKept(r) /\ booted' = booted
  BY StepIsLocal, ZenonT(60) DEF ProxyInv, Base, procVars
<1>3. ASSUME NEW q \in Requests, q # r
      PROVE  /\ Mine(q)' <=> Mine(q)
             /\ Pending(q)' <=> Pending(q)
             /\ Errored(q)' <=> Errored(q)
  <2>1. /\ pc'[q] = pc[q] /\ since'[q] = since[q] /\ response'[q] = response[q]
        /\ sent'[q] = sent[q]
    BY <1>2, <1>3, ZenonT(60) DEF OthersKept, Local
  <2> QED
    <3>1. Mine(q)' <=> Mine(q)
      BY <1>2, <2>1, ZenonT(60) DEF Mine
    <3>2. Pending(q)' <=> Pending(q)
      BY <2>1, <3>1, ZenonT(60) DEF Pending
    <3>3. Errored(q)' <=> Errored(q)
      BY <2>1, <3>1, ZenonT(60) DEF Errored
    <3> QED
      BY <3>1, <3>2, <3>3, ZenonT(60)
<1>4. CountersBalance'
  BY <1>1, <1>3, TallyStep, ZenonT(60) DEF CountInv
<1> QED
  BY <1>1, <1>4, BootedStep, ZenonT(60) DEF CountInv

\* The steps of the process, a restart aside, touch none of what is counted.
LEMMA CountProcessStep ==
  ASSUME TableInv, CountInv, Publish \/ Handshake \/ Evict \/ UNCHANGED proxyVars
  PROVE  CountInv'
<1>1. UNCHANGED << booted, pc, since, sent, response >>
  BY ZenonT(60) DEF Publish, Handshake, Evict, proxyVars, procVars
<1>2. metrics' = metrics \/ metrics' = Count("handshakes")
  BY ZenonT(60) DEF Publish, Handshake, Evict, proxyVars
<1>3. MetricsOK' /\ Moved(0, 0, 0)
  BY <1>2, Counted, ZenonT(60) DEF CountInv
<1>4. /\ metrics'.upstream_requests = metrics.upstream_requests
      /\ metrics'.upstream_errors = metrics.upstream_errors
      /\ metrics'.latency_count = metrics.latency_count
  BY <1>3 DEF CountInv, MetricsOK, Counters, Moved
<1>5. CountersBalance'
  <2>1. Forwarded' = Forwarded /\ Untimed' = Untimed /\ Failed' = Failed
    BY <1>1, ZenonT(60) DEF Forwarded, Untimed, Failed
  <2>2. /\ metrics.upstream_requests = Cardinality(Forwarded)
        /\ metrics.latency_count + Cardinality(Untimed) = Cardinality(Forwarded)
        /\ metrics.upstream_errors = Cardinality(Failed)
    BY ZenonT(60) DEF CountInv, CountersBalance, Forwarded, Untimed, Failed
  <2>3. /\ metrics'.upstream_requests = Cardinality(Forwarded')
        /\ metrics'.latency_count + Cardinality(Untimed') = Cardinality(Forwarded')
        /\ metrics'.upstream_errors = Cardinality(Failed')
    BY <1>4, <2>1, <2>2, ZenonT(60)
  <2> QED
    BY <2>3, ZenonT(60) DEF CountersBalance, Forwarded, Untimed, Failed
<1>6. Len(tables') >= Len(tables) /\ Len(tables') \in Nat /\ Len(tables) \in Nat
  <2>1. tables' = tables \/ \E t \in Tables : tables' = Append(tables, t)
    BY ZenonT(60) DEF Publish, Handshake, Evict, proxyVars, procVars
  <2> QED
    BY <2>1, SMTT(60) DEF TableInv
<1>7. booted' \in 1..Len(tables')
  BY <1>1, <1>6 DEF CountInv, BootedInv
<1>8. BootedInv'
  BY <1>1, <1>7, ZenonT(60) DEF CountInv, BootedInv
<1> QED
  BY <1>3, <1>5, <1>8, ZenonT(60) DEF CountInv

\* After a restart nothing counted is left, and the counters start again.
LEMMA CountRestart ==
  ASSUME ProxyInv, TableInv, CountInv, Restart
  PROVE  CountInv'
<1>1. /\ Len(tables') = Len(tables) + 1 /\ Len(tables) \in Nat
      /\ booted' = Len(tables') /\ metrics' = NoMetrics
      /\ UNCHANGED << since, sent, response >>
  BY DEF Restart, TableInv
<1>2. \A r \in Requests : ~(since'[r] >= booted' /\ sent'[r] # {})
  <2> SUFFICES ASSUME NEW r \in Requests, sent[r] # {}  PROVE ~(since[r] >= booted')
    BY <1>1, ZenonT(60)
  <2>1. pc[r] # "idle"
    BY ZenonT(60) DEF ProxyInv, ProgressInv, Progress, Waiting
  <2> QED
    BY <1>1, <2>1 DEF TableInv
<1>3. MetricsOK'
  BY <1>1, ZenonT(60) DEF MetricsOK, Counters, NoMetrics
<1>4. Forwarded' = {} /\ Untimed' = {} /\ Failed' = {}
  BY <1>2, ZenonT(60) DEF Forwarded, Untimed, Failed
<1>5. Cardinality({}) = 0
  BY FS_EmptySet, ZenonT(60)
<1>6. /\ metrics'.upstream_requests = Cardinality(Forwarded')
      /\ metrics'.latency_count + Cardinality(Untimed') = Cardinality(Forwarded')
      /\ metrics'.upstream_errors = Cardinality(Failed')
  BY <1>1, <1>4, <1>5 DEF NoMetrics
<1>7. CountersBalance'
  BY <1>6, ZenonT(60) DEF CountersBalance, Forwarded, Untimed, Failed
<1>8. \A r \in Requests : pc'[r] \in {"idle", "done", "gone"}
  BY ZenonT(60) DEF Restart
<1>9. booted' \in 1..Len(tables')
  BY <1>1
<1>10. BootedInv'
  BY <1>8, <1>9, ZenonT(60) DEF BootedInv, Holding
<1> QED
  BY <1>3, <1>7, <1>10, ZenonT(60) DEF CountInv

\* The counters of metrics.rs agree with what the handlers did, for any number of
\* them, with clients that disconnect anywhere and processes that restart.
THEOREM CountersAgree == Spec => []CountersBalance
<1>1. Init => TableInv /\ RoutedInv /\ CountInv
  <2> SUFFICES ASSUME Init PROVE TableInv /\ RoutedInv /\ CountInv
    BY ZenonT(60)
  <2>1. TableInv /\ RoutedInv
    BY SMTT(60) DEF Init, TableInv, RoutedInv
  <2>2. MetricsOK
    BY ZenonT(60) DEF Init, MetricsOK, Counters, NoMetrics
  <2>3. BootedInv
    BY DEF Init, BootedInv, Holding
  <2>4. Forwarded = {} /\ Untimed = {} /\ Failed = {}
    BY ZenonT(60) DEF Init, Forwarded, Untimed, Failed
  <2>5. /\ metrics.upstream_requests = Cardinality(Forwarded)
        /\ metrics.latency_count + Cardinality(Untimed) = Cardinality(Forwarded)
        /\ metrics.upstream_errors = Cardinality(Failed)
    BY <2>4, FS_EmptySet DEF Init, NoMetrics
  <2> QED
    BY <2>1, <2>2, <2>3, <2>5, ZenonT(60) DEF CountInv, CountersBalance, Forwarded, Untimed, Failed
<1>2. ProxyInv /\ TableInv /\ RoutedInv /\ [Next]_proxyVars => (TableInv /\ RoutedInv)'
  BY TableStep, ZenonT(60)
<1>3. ProxyInv /\ TableInv /\ CountInv /\ [Next]_proxyVars => CountInv'
  BY CountRequestStep, CountProcessStep, CountRestart, ZenonT(60) DEF Next, RequestStep
<1>4. CountInv => CountersBalance
  BY ZenonT(60) DEF CountInv
<1> QED
  BY <1>1, <1>2, <1>3, <1>4, ProxyInvariant, PTL DEF Spec
==============================================================================
