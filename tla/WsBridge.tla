------------------------------ MODULE WsBridge ------------------------------
(***************************************************************************)
(* One attested WebSocket (src/src/ws.rs): the upgrade handler, the dial,  *)
(* and the two pumps that select! runs until the first of them ends.  A    *)
(* pump awaits the next message or the sink it sends to; when one pump     *)
(* ends, the other is dropped with whatever it holds.                      *)
(*                                                                         *)
(* The peers are external.  A message is chosen when a pump reads it.      *)
(***************************************************************************)
EXTENDS Naturals, Sequences

CONSTANTS
  MaxCounter,  \* bound: the largest frame counter
  MaxFrames,   \* bound: messages a pump reads
  Nothing      \* a pump holds no message

ASSUME WsConstants == MaxCounter \in Nat \ {0} /\ MaxFrames \in Nat

VARIABLES
  bridge,        \* idle, dialing, open, ended, or refused before the upgrade
  c2u,           \* client_to_upstream: [at, holding]
  u2c,           \* upstream_to_client: [at, holding]
  last_counter,  \* the last inbound counter accepted
  out_counter,   \* the outbound key's counter
  fromClient,    \* auxiliary: what client_to_upstream has read
  toUpstream,    \* what the upstream has received
  fromUpstream,  \* auxiliary: what upstream_to_client has read
  toClient,      \* what the client has received
  clientGone,    \* whether the client has sent its Close and its connection is broken
  upstreamGone   \* the same of the upstream

wsVars == << bridge, c2u, u2c, last_counter, out_counter, fromClient, toUpstream,
             fromUpstream, toClient, clientGone, upstreamGone >>

\* A client frame's defect is the first one that decode_inbound would meet.
Binary == [kind : {"binary"}, counter : 0..MaxCounter,
           defect : {"none", "size", "seal", "type"}]
Control == [kind : {"ping", "text"}]
Inbound == Binary \cup Control
Outbound == [kind : {"message", "oversize", "ping"}, n : 1..MaxFrames]

Receiving == [at |-> "recv", holding |-> Nothing]
Sending(m) == [at |-> "send", holding |-> m]
Closing == [at |-> "close", holding |-> Nothing]

Init ==
  /\ bridge = "idle"
  /\ c2u = Receiving /\ u2c = Receiving
  /\ last_counter = 0 /\ out_counter = 0
  /\ fromClient = <<>> /\ toUpstream = <<>>
  /\ fromUpstream = <<>> /\ toClient = <<>>
  /\ clientGone = {} /\ upstreamGone = {}

-----------------------------------------------------------------------------
\* The session, its liveness, the route, the upstream's scheme and the keys
\* are all checked before the upgrade; a failed check is a plain response.
Upgrade ==
  /\ bridge = "idle"
  /\ bridge' \in {"refused", "dialing"}
  /\ UNCHANGED << c2u, u2c, last_counter, out_counter, fromClient, toUpstream,
                  fromUpstream, toClient, clientGone, upstreamGone >>

\* connect_async returns, and the two keys are set up, or the bridge ends.
Dial ==
  /\ bridge = "dialing"
  /\ bridge' \in {"open", "ended"}
  /\ UNCHANGED << c2u, u2c, last_counter, out_counter, fromClient, toUpstream,
                  fromUpstream, toClient, clientGone, upstreamGone >>

\* A peer sends its Close frame, or its connection ends or breaks.
ClientGoes ==
  /\ bridge = "open"
  /\ \E how \in {"closed", "broken"} \ clientGone : clientGone' = clientGone \cup {how}
  /\ UNCHANGED << bridge, c2u, u2c, last_counter, out_counter, fromClient, toUpstream,
                  fromUpstream, toClient, upstreamGone >>

UpstreamGoes ==
  /\ bridge = "open"
  /\ \E how \in {"closed", "broken"} \ upstreamGone : upstreamGone' = upstreamGone \cup {how}
  /\ UNCHANGED << bridge, c2u, u2c, last_counter, out_counter, fromClient, toUpstream,
                  fromUpstream, toClient, clientGone >>

\* select! returns: the pump that ended and the one that did not are dropped.
Ended ==
  /\ bridge' = "ended"
  /\ c2u' = Receiving /\ u2c' = Receiving

\* A replay check that lets the last counter through again.
FreshMutant(counter) == counter >= last_counter

\* extract_counter against last_counter.
Fresh(counter) == counter > last_counter

\* What decode_inbound refuses: a frame that is too short or over the cap, a
\* counter that is not fresh, a seal that does not open, a bad type or text.
Decodes(f) == f.defect = "none" /\ Fresh(f.counter)

\* A pump that reads on while a send is pending.
C2uReadyMutant == bridge = "open"

\* The loop awaits the send before it reads the next message.
C2uReady == bridge = "open" /\ c2u.at = "recv"

\* client_to_upstream takes the next frame from the client: a binary frame is
\* decoded (the counter is stored even if the seal then fails to open), a
\* ping passes, a plaintext text frame is ignored.
C2uRecv ==
  /\ C2uReady
  /\ Len(fromClient) < MaxFrames
  /\ \E f \in Inbound :
       /\ fromClient' = Append(fromClient, f)
       /\ \/ /\ f.kind = "binary" /\ Decodes(f)
             /\ last_counter' = f.counter
             /\ c2u' = Sending(f)
             /\ UNCHANGED << bridge, u2c >>
          \/ /\ f.kind = "binary" /\ ~Decodes(f)
             /\ last_counter' = IF f.defect # "size" /\ Fresh(f.counter)
                                THEN f.counter ELSE last_counter
             /\ Ended
          \/ /\ f.kind = "ping"
             /\ c2u' = Sending(f)
             /\ UNCHANGED << bridge, u2c, last_counter >>
          \/ /\ f.kind = "text"
             /\ UNCHANGED << bridge, c2u, u2c, last_counter >>
  /\ UNCHANGED << out_counter, toUpstream, fromUpstream, toClient,
                  clientGone, upstreamGone >>

\* up_tx.send completes, or fails once the upstream is gone.
C2uSend ==
  /\ bridge = "open" /\ c2u.at = "send"
  /\ \/ /\ toUpstream' = Append(toUpstream, c2u.holding)
        /\ c2u' = Receiving
        /\ UNCHANGED << bridge, u2c >>
     \/ /\ upstreamGone # {}
        /\ Ended
        /\ UNCHANGED toUpstream
  /\ UNCHANGED << last_counter, out_counter, fromClient, fromUpstream, toClient,
                  clientGone, upstreamGone >>

\* The client's Close frame is passed on; the end of the stream, or a receive
\* error, ends the bridge.
C2uEnd ==
  /\ bridge = "open" /\ c2u.at = "recv"
  /\ \/ "closed" \in clientGone /\ c2u' = Closing /\ UNCHANGED << bridge, u2c >>
     \/ "broken" \in clientGone /\ Ended
  /\ UNCHANGED << last_counter, out_counter, fromClient, toUpstream, fromUpstream,
                  toClient, clientGone, upstreamGone >>

\* up_tx.send of the Close has returned: its result is ignored.
C2uClose ==
  /\ bridge = "open" /\ c2u.at = "close"
  /\ Ended
  /\ UNCHANGED << last_counter, out_counter, fromClient, toUpstream, fromUpstream,
                  toClient, clientGone, upstreamGone >>

\* Sealing without moving the key's counter.
NextCounterMutant == 1

\* BoundAeadKey::seal numbers each frame; the counter never wraps.
NextCounter == out_counter + 1

\* upstream_to_client takes the next message from the upstream and seals it.
U2cRecv ==
  /\ bridge = "open" /\ u2c.at = "recv"
  /\ Len(fromUpstream) < MaxFrames
  /\ \E m \in Outbound :
       /\ m.n = Len(fromUpstream) + 1
       /\ fromUpstream' = Append(fromUpstream, m)
       /\ \/ /\ m.kind = "message" /\ NextCounter <= MaxCounter
             /\ out_counter' = NextCounter
             /\ u2c' = Sending([counter |-> NextCounter, n |-> m.n])
             /\ UNCHANGED << bridge, c2u >>
          \/ /\ m.kind = "message" /\ NextCounter > MaxCounter
             /\ Ended
             /\ UNCHANGED out_counter
          \/ /\ m.kind = "oversize"
             /\ Ended
             /\ UNCHANGED out_counter
          \/ /\ m.kind = "ping"
             /\ u2c' = Sending([counter |-> 0, n |-> m.n])
             /\ UNCHANGED << bridge, c2u, out_counter >>
  /\ UNCHANGED << last_counter, fromClient, toUpstream, toClient,
                  clientGone, upstreamGone >>

\* client_tx.send completes, or fails once the client is gone.
U2cSend ==
  /\ bridge = "open" /\ u2c.at = "send"
  /\ \/ /\ toClient' = Append(toClient, u2c.holding)
        /\ u2c' = Receiving
        /\ UNCHANGED << bridge, c2u >>
     \/ /\ clientGone # {}
        /\ Ended
        /\ UNCHANGED toClient
  /\ UNCHANGED << last_counter, out_counter, fromClient, toUpstream, fromUpstream,
                  clientGone, upstreamGone >>

\* A pump that reads on after the upstream's stream has ended.
U2cEndMutant ==
  /\ bridge = "open" /\ u2c.at = "recv"
  /\ "closed" \in upstreamGone /\ u2c' = Closing /\ UNCHANGED << bridge, c2u >>
  /\ UNCHANGED << last_counter, out_counter, fromClient, toUpstream, fromUpstream,
                  toClient, clientGone, upstreamGone >>

U2cEnd ==
  /\ bridge = "open" /\ u2c.at = "recv"
  /\ \/ "closed" \in upstreamGone /\ u2c' = Closing /\ UNCHANGED << bridge, c2u >>
     \/ "broken" \in upstreamGone /\ Ended
  /\ UNCHANGED << last_counter, out_counter, fromClient, toUpstream, fromUpstream,
                  toClient, clientGone, upstreamGone >>

U2cClose ==
  /\ bridge = "open" /\ u2c.at = "close"
  /\ Ended
  /\ UNCHANGED << last_counter, out_counter, fromClient, toUpstream, fromUpstream,
                  toClient, clientGone, upstreamGone >>

Next ==
  \/ Upgrade \/ Dial \/ ClientGoes \/ UpstreamGoes
  \/ C2uRecv \/ C2uSend \/ C2uEnd \/ C2uClose
  \/ U2cRecv \/ U2cSend \/ U2cEnd \/ U2cClose

Spec == Init /\ [][Next]_wsVars

\* Both pumps are polled, and a read returns the end of what a peer has sent.
\* Nothing makes a peer send, a dial return or a send complete: none of them
\* has a timeout.
FairSpec == Spec /\ WF_wsVars(C2uEnd) /\ WF_wsVars(U2cEnd)
-----------------------------------------------------------------------------
\* The upstream has got what the client sent, in order, without a repetition
\* and without a gap: of the frames read only text is left out, and the last
\* one, while the pump holds it or once the bridge has ended on it.
InboundIsAPrefix ==
  \E at \in [DOMAIN toUpstream -> DOMAIN fromClient] :
    /\ \A i, j \in DOMAIN toUpstream : i < j => at[i] < at[j]
    /\ \A i \in DOMAIN toUpstream : toUpstream[i] = fromClient[at[i]]
    /\ \A k \in DOMAIN fromClient :
         \/ fromClient[k].kind = "text"
         \/ \E i \in DOMAIN toUpstream : at[i] = k
         \/ k = Len(fromClient) /\ (c2u.at = "send" \/ bridge = "ended")

\* No two frames passed to the upstream carry one counter, and their counters
\* increase: decode_inbound's replay check over the whole connection.
InboundCountersIncrease ==
  \A i, j \in DOMAIN toUpstream :
    /\ i < j
    /\ toUpstream[i].kind = "binary" /\ toUpstream[j].kind = "binary"
    => toUpstream[i].counter < toUpstream[j].counter

\* The client gets the upstream's messages in the order they were sent, none
\* skipped, each sealed under a counter of this connection used once.
OutboundInOrder ==
  /\ \A i \in DOMAIN toClient : toClient[i].n = i
  /\ \A i, j \in DOMAIN toClient :
       i < j /\ toClient[i].counter # 0 /\ toClient[j].counter # 0
         => toClient[i].counter < toClient[j].counter

\* Once a peer is gone select! tears the whole bridge down, wherever the pump
\* that reads from the other peer is: all that can keep it is a send, of the
\* pump that reads from the peer that is gone, that never returns.
ClosedEndsBridge ==
  /\ (bridge = "open" /\ clientGone # {}) ~> (bridge = "ended" \/ [](c2u.at # "recv"))
  /\ (bridge = "open" /\ upstreamGone # {}) ~> (bridge = "ended" \/ [](u2c.at # "recv"))
=============================================================================
