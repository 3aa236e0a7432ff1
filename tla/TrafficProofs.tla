--------------------------- MODULE TrafficProofs ---------------------------
(***************************************************************************)
(* What the traffic beside Proxy's requests and what is measured of it     *)
(* promise.  WsBridge: the order of the messages of an attested WebSocket, *)
(* in both directions, for any number of messages and any largest counter. *)
(* Histogram: what a scrape shows of the latencies, for any number of      *)
(* tasks, bounds and observations.                                         *)
(***************************************************************************)
EXTENDS WsBridge, Histogram, TLAPS

\* What upstream_to_client sends: a sealed message, or a ping under counter 0.
Sealed == [counter : Nat, n : Nat]

\* What a pump holds; only an open bridge sends.
PumpsOK ==
  /\ bridge \in {"idle", "refused", "dialing", "open", "ended"}
  /\ c2u.at \in {"recv", "send", "close"} /\ (c2u.at = "send" => c2u.holding \in Inbound)
  /\ u2c.at \in {"recv", "send", "close"} /\ (u2c.at = "send" => u2c.holding \in Sealed)
  /\ c2u.at = "send" \/ u2c.at = "send" => bridge = "open"

DataOK ==
  /\ last_counter \in Nat /\ out_counter \in Nat
  /\ fromClient \in Seq(Inbound) /\ toUpstream \in Seq(Inbound)
  /\ fromUpstream \in Seq(Outbound) /\ toClient \in Seq(Sealed)

TypeOK == PumpsOK /\ DataOK

\* at places the frames of toUpstream among those of fromClient; a frame that is
\* held is the last one read, and has no place yet.
Placed(at) ==
  /\ at \in [DOMAIN toUpstream -> DOMAIN fromClient]
  /\ \A i, j \in DOMAIN toUpstream : i < j => at[i] < at[j]
  /\ \A i \in DOMAIN toUpstream : toUpstream[i] = fromClient[at[i]]
  /\ \A k \in DOMAIN fromClient :
       \/ fromClient[k].kind = "text"
       \/ \E i \in DOMAIN toUpstream : at[i] = k
       \/ k = Len(fromClient) /\ (c2u.at = "send" \/ bridge = "ended")
  /\ c2u.at = "send" =>
       /\ fromClient # <<>> /\ c2u.holding = fromClient[Len(fromClient)]
       /\ \A i \in DOMAIN toUpstream : at[i] < Len(fromClient)

PlaceInv == \E at : Placed(at)

\* No frame passed on is ahead of last_counter, and one that is held is at it,
\* ahead of all of them.
CounterInv ==
  /\ InboundCountersIncrease
  /\ \A i \in DOMAIN toUpstream :
       toUpstream[i].kind = "binary" =>
         /\ toUpstream[i].counter <= last_counter
         /\ c2u.at = "send" /\ c2u.holding.kind = "binary" =>
              toUpstream[i].counter < c2u.holding.counter
  /\ c2u.at = "send" /\ c2u.holding.kind = "binary" => c2u.holding.counter <= last_counter

\* The same of the other direction, in which every message read is passed on.
OutboundInv ==
  /\ OutboundInOrder
  /\ \A i \in DOMAIN toClient : toClient[i].counter <= out_counter
  /\ bridge # "ended" =>
       Len(fromUpstream) = Len(toClient) + (IF u2c.at = "send" THEN 1 ELSE 0)
  /\ u2c.at = "send" =>
       /\ u2c.holding.n = Len(toClient) + 1
       /\ u2c.holding.counter <= out_counter
       /\ u2c.holding.counter # 0 =>
            \A i \in DOMAIN toClient : toClient[i].counter < u2c.holding.counter

WsInv == TypeOK /\ PlaceInv /\ CounterInv /\ OutboundInv

-----------------------------------------------------------------------------
\* A direction that a step leaves alone keeps its order, whether the bridge goes
\* on or ends; and a pump that has nothing to deliver may begin to close.
Kept(pump) ==
  /\ pump' = pump \/ (pump.at = "recv" /\ pump' = Closing)
  /\ bridge = "ended" => bridge' = "ended"

LEMMA InboundKept ==
  ASSUME PlaceInv, CounterInv, UNCHANGED << fromClient, toUpstream, last_counter >>,
         Kept(c2u) \/ Ended
  PROVE  PlaceInv' /\ CounterInv'
<1>1. PICK at : Placed(at)
  BY DEF PlaceInv
<1>2. Placed(at)'
  BY <1>1 DEF Placed, Kept, Ended, Receiving, Closing
<1>3. CounterInv'
  BY DEF CounterInv, InboundCountersIncrease, Kept, Ended, Receiving, Closing
<1> QED
  BY <1>2, <1>3 DEF PlaceInv

LEMMA OutboundKept ==
  ASSUME OutboundInv, UNCHANGED << fromUpstream, toClient, out_counter >>,
         Kept(u2c) \/ Ended
  PROVE  OutboundInv'
  BY DEF OutboundInv, OutboundInOrder, Kept, Ended, Receiving, Closing

\* What the provers need to know of the messages and of Append.
LEMMA Appended ==
  ASSUME NEW T, NEW s \in Seq(T), NEW e \in T
  PROVE  /\ Append(s, e) \in Seq(T)
         /\ Len(s) \in Nat /\ Len(Append(s, e)) = Len(s) + 1
         /\ DOMAIN s = 1..Len(s) /\ DOMAIN Append(s, e) = 1..(Len(s) + 1)
         /\ \A i \in 1..Len(s) : Append(s, e)[i] = s[i]
         /\ Append(s, e)[Len(s) + 1] = e
  OBVIOUS

LEMMA InboundKinds ==
  ASSUME NEW f \in Inbound
  PROVE  /\ f.kind \in {"binary", "ping", "text"}
         /\ f.kind = "binary" => f.counter \in Nat
  BY WsConstants DEF Inbound, Binary, Control

LEMMA OutboundKinds ==
  ASSUME NEW m \in Outbound
  PROVE  m.n \in Nat /\ m.kind \in {"message", "oversize", "ping"}
  BY WsConstants DEF Outbound

LEMMA Pumps ==
  ASSUME NEW m
  PROVE  /\ Sending(m).at = "send" /\ Sending(m).holding = m
         /\ Receiving.at = "recv"
  BY DEF Sending, Receiving

-----------------------------------------------------------------------------
\* client_to_upstream reads a frame.  Its place is the last one, and it is left
\* out, held, or what the bridge ends on.
LEMMA InboundRecv ==
  ASSUME TypeOK, PlaceInv, CounterInv, C2uRecv
  PROVE  PlaceInv' /\ CounterInv'
<1> DEFINE passed(f) == /\ f.kind = "binary" /\ Fresh(f.counter)
                        /\ last_counter' = f.counter
                        /\ c2u' = Sending(f)
           refused(f) == /\ \/ last_counter' = last_counter
                            \/ f.kind = "binary" /\ last_counter' = f.counter /\ Fresh(f.counter)
                         /\ Ended
           ping(f) == f.kind = "ping" /\ c2u' = Sending(f) /\ UNCHANGED last_counter
           text(f) == f.kind = "text" /\ UNCHANGED << c2u, last_counter >>
<1>1. PICK f \in Inbound : /\ fromClient' = Append(fromClient, f)
                           /\ passed(f) \/ refused(f) \/ ping(f) \/ text(f)
  <2>1. PICK f \in Inbound :
          /\ fromClient' = Append(fromClient, f)
          /\ \/ f.kind = "binary" /\ Decodes(f) /\ last_counter' = f.counter /\ c2u' = Sending(f)
             \/ /\ f.kind = "binary"
                /\ last_counter' = IF f.defect # "size" /\ Fresh(f.counter)
                                   THEN f.counter ELSE last_counter
                /\ Ended
             \/ ping(f)
             \/ text(f)
    BY ZenonT(60) DEF C2uRecv
  <2>2. passed(f) \/ refused(f) \/ ping(f) \/ text(f)
    BY <2>1 DEF Decodes
  <2> QED
    BY <2>1, <2>2
<1>2. c2u.at = "recv" /\ bridge = "open" /\ toUpstream' = toUpstream
  BY DEF C2uRecv, C2uReady
<1>3. PICK at : Placed(at)
  BY DEF PlaceInv
<1> DEFINE n == Len(fromClient)
<1>4. /\ n \in Nat /\ Len(fromClient') = n + 1 /\ fromClient' # <<>>
      /\ DOMAIN fromClient = 1..n /\ DOMAIN fromClient' = 1..(n + 1)
      /\ \A k \in 1..n : fromClient'[k] = fromClient[k]
      /\ fromClient'[n + 1] = f
  <2>1. fromClient \in Seq(Inbound) /\ fromClient' = Append(fromClient, f)
    BY <1>1, ZenonT(60) DEF TypeOK, DataOK
  <2> QED
    BY <2>1, Appended
<1>5. \/ f.kind = "text" /\ c2u'.at = "recv"
      \/ c2u'.at = "send" /\ c2u'.holding = f
      \/ c2u'.at = "recv" /\ bridge' = "ended"
  BY <1>1, <1>2, Pumps DEF Ended
<1>6. PlaceInv'
  <2>1. at \in [DOMAIN toUpstream -> 1..n]
    BY <1>3, <1>4 DEF Placed
  <2>2. \A i \in DOMAIN toUpstream : toUpstream[i] = fromClient'[at[i]] /\ at[i] < n + 1
    BY <1>3, <1>4, <2>1 DEF Placed
  <2>3. \A k \in 1..n : fromClient[k].kind = "text" \/ \E i \in DOMAIN toUpstream : at[i] = k
    BY <1>2, <1>3, <1>4 DEF Placed
  <2>4. Placed(at)'
    BY <1>2, <1>3, <1>4, <1>5, <2>1, <2>2, <2>3 DEF Placed
  <2> QED
    BY <2>4 DEF PlaceInv
<1>7. CounterInv'
  <2>1. \A i \in DOMAIN toUpstream : toUpstream[i].kind = "binary" => toUpstream[i].counter \in Nat
    BY InboundKinds DEF TypeOK, DataOK
  <2>2. f.kind = "binary" => f.counter \in Nat
    BY InboundKinds
  <2>3. \/ /\ f.kind = "binary" /\ f.counter > last_counter /\ last_counter' = f.counter
           /\ c2u'.at = "recv" \/ c2u'.holding = f
        \/ last_counter' = last_counter /\ (c2u'.at = "recv" \/ c2u'.holding.kind = "ping")
    BY <1>1, <1>2, Pumps DEF Ended, Fresh
  <2>4. last_counter \in Nat
    BY DEF TypeOK, DataOK
  <2> QED
    BY <1>2, <2>1, <2>2, <2>3, <2>4 DEF CounterInv, InboundCountersIncrease
<1> QED
  BY <1>6, <1>7

\* up_tx.send delivers the frame that is held.
LEMMA InboundSend ==
  ASSUME TypeOK, PlaceInv, CounterInv, c2u.at = "send",
         toUpstream' = Append(toUpstream, c2u.holding), c2u' = Receiving,
         UNCHANGED << bridge, fromClient, last_counter >>
  PROVE  PlaceInv' /\ CounterInv'
<1> DEFINE f == c2u.holding
           m == Len(toUpstream)
           n == Len(fromClient)
<1>1. f \in Inbound
  BY DEF TypeOK, PumpsOK
<1>2. /\ m \in Nat /\ DOMAIN toUpstream = 1..m /\ DOMAIN toUpstream' = 1..(m + 1)
      /\ \A i \in 1..m : toUpstream'[i] = toUpstream[i]
      /\ toUpstream'[m + 1] = f
  BY <1>1, Appended DEF TypeOK, DataOK
<1>3. c2u'.at = "recv"
  BY Pumps
<1>4. PICK at : Placed(at)
  BY DEF PlaceInv
<1>5. PlaceInv'
  <2>1. n \in DOMAIN fromClient /\ n \in Nat /\ DOMAIN fromClient = 1..n /\ f = fromClient[n]
    BY <1>4 DEF TypeOK, PumpsOK, DataOK, Placed
  <2>2. at \in [1..m -> 1..n] /\ \A i \in 1..m : at[i] < n
    BY <1>2, <1>4, <2>1 DEF Placed
  <2>0. PICK here : here = [i \in 1..(m + 1) |-> IF i = m + 1 THEN n ELSE at[i]]
    BY ZenonT(60)
  <2>3. here \in [1..(m + 1) -> 1..n] /\ here[m + 1] = n /\ \A i \in 1..m : here[i] = at[i]
    BY <1>2, <2>0, <2>1, <2>2
  <2>4. \A i, j \in 1..(m + 1) : i < j => here[i] < here[j]
    <3>1. ASSUME NEW i \in 1..(m + 1), NEW j \in 1..(m + 1), i < j
          PROVE  here[i] < here[j]
      <4>1. i \in 1..m
        BY <1>2, <3>1
      <4>2. CASE j = m + 1
        BY <2>2, <2>3, <4>1, <4>2
      <4>3. CASE j \in 1..m
        BY <1>2, <1>4, <2>3, <3>1, <4>1, <4>3, ZenonT(60) DEF Placed
      <4> QED
        BY <1>2, <4>2, <4>3
    <3> QED
      BY <3>1
  <2>5. \A i \in 1..(m + 1) : toUpstream'[i] = fromClient[here[i]]
    BY <1>2, <1>4, <2>1, <2>3, SMTT(60) DEF Placed
  <2>6. ASSUME NEW k \in 1..n, fromClient[k].kind # "text"
        PROVE  \E i \in 1..(m + 1) : here[i] = k
    <3>1. CASE k = n
      BY <1>2, <2>3, <3>1
    <3>2. CASE k # n
      <4>1. PICK i \in 1..m : at[i] = k
        BY <1>2, <1>4, <2>1, <2>6, <3>2, ZenonT(60) DEF Placed
      <4> QED
        BY <1>2, <2>3, <4>1, SMTT(60)
    <3> QED
      BY <3>1, <3>2
  <2>7. Placed(here)'
    BY <1>2, <1>3, <2>1, <2>3, <2>4, <2>5, <2>6, ZenonT(60) DEF Placed
  <2> QED
    BY <2>7 DEF PlaceInv
<1>6. CounterInv'
  BY <1>2, <1>3 DEF CounterInv, InboundCountersIncrease
<1> QED
  BY <1>5, <1>6

-----------------------------------------------------------------------------
\* upstream_to_client reads a message: it is held under the next counter, it is a
\* ping, or the bridge ends on it.
LEMMA OutboundRecv ==
  ASSUME TypeOK, OutboundInv, U2cRecv
  PROVE  OutboundInv'
<1> DEFINE held(m, c) == u2c' = Sending([counter |-> c, n |-> m.n])
<1>1. PICK m \in Outbound :
        /\ m.n = Len(fromUpstream) + 1 /\ fromUpstream' = Append(fromUpstream, m)
        /\ \/ out_counter' = NextCounter /\ held(m, NextCounter)
           \/ Ended /\ UNCHANGED out_counter
           \/ held(m, 0) /\ UNCHANGED out_counter
  BY ZenonT(60) DEF U2cRecv
<1>2. u2c.at = "recv" /\ bridge = "open" /\ toClient' = toClient
  BY DEF U2cRecv
<1>3. /\ Len(fromUpstream) \in Nat /\ Len(fromUpstream') = Len(fromUpstream) + 1
      /\ Len(toClient) \in Nat /\ out_counter \in Nat
      /\ Len(fromUpstream) = Len(toClient)
  <2>1. fromUpstream \in Seq(Outbound) /\ fromUpstream' = Append(fromUpstream, m)
    BY <1>1, ZenonT(60) DEF TypeOK, DataOK
  <2>2. Len(fromUpstream) \in Nat /\ Len(fromUpstream') = Len(fromUpstream) + 1
    BY <2>1, Appended
  <2>3. Len(toClient) \in Nat /\ out_counter \in Nat
    BY DEF TypeOK, DataOK
  <2> QED
    BY <1>2, <2>2, <2>3 DEF OutboundInv
<1>4. \A i \in DOMAIN toClient : toClient[i].counter \in Nat
  <2>1. toClient \in Seq(Sealed)
    BY DEF TypeOK, DataOK
  <2>2. \A r \in Sealed : r.counter \in Nat
    BY DEF Sealed
  <2> QED
    BY <2>1, <2>2
<1>5. ASSUME NEW c \in Nat, held(m, c)
      PROVE  u2c'.at = "send" /\ u2c'.holding.n = m.n /\ u2c'.holding.counter = c
  BY <1>5 DEF Sending
<1>6. CASE out_counter' = NextCounter /\ held(m, NextCounter)
  <2>1. /\ u2c'.at = "send" /\ u2c'.holding.n = Len(toClient) + 1
        /\ out_counter' = out_counter + 1 /\ u2c'.holding.counter = out_counter + 1
    BY <1>1, <1>3, <1>5, <1>6 DEF NextCounter
  <2> QED
    BY <1>2, <1>3, <1>4, <2>1 DEF OutboundInv, OutboundInOrder
<1>7. CASE Ended /\ UNCHANGED out_counter
  BY <1>2, <1>7, Pumps DEF OutboundInv, OutboundInOrder, Ended
<1>8. CASE held(m, 0) /\ UNCHANGED out_counter
  <2>1. /\ u2c'.at = "send" /\ u2c'.holding.n = Len(toClient) + 1
        /\ out_counter' = out_counter /\ u2c'.holding.counter = 0
    BY <1>1, <1>3, <1>5, <1>8
  <2> QED
    BY <1>2, <1>3, <1>4, <2>1 DEF OutboundInv, OutboundInOrder
<1> HIDE DEF held
<1> QED
  BY <1>1, <1>6, <1>7, <1>8, ZenonT(60)

\* client_tx.send delivers the message that is held.
LEMMA OutboundSend ==
  ASSUME TypeOK, OutboundInv, u2c.at = "send", bridge = "open",
         toClient' = Append(toClient, u2c.holding), u2c' = Receiving,
         UNCHANGED << bridge, fromUpstream, out_counter >>
  PROVE  OutboundInv'
<1> DEFINE m == Len(toClient)
<1>1. /\ m \in Nat /\ DOMAIN toClient = 1..m /\ DOMAIN toClient' = 1..(m + 1)
      /\ Len(toClient') = m + 1
      /\ \A i \in 1..m : toClient'[i] = toClient[i]
      /\ toClient'[m + 1] = u2c.holding
  BY Appended DEF TypeOK, DataOK
<1>2. u2c'.at = "recv"
  BY DEF Receiving
<1>3. \A i \in 1..(m + 1) : toClient'[i].n = i /\ toClient'[i].counter <= out_counter
  BY <1>1 DEF OutboundInv, OutboundInOrder
<1>4. ASSUME NEW i \in 1..(m + 1), NEW j \in 1..(m + 1), i < j,
             toClient'[i].counter # 0, toClient'[j].counter # 0
      PROVE  toClient'[i].counter < toClient'[j].counter
  <2>1. i \in 1..m
    BY <1>1, <1>4
  <2>2. CASE j = m + 1
    BY <1>1, <1>4, <2>1, <2>2 DEF OutboundInv
  <2>3. CASE j \in 1..m
    BY <1>1, <1>4, <2>1, <2>3 DEF OutboundInv, OutboundInOrder
  <2> QED
    BY <1>1, <2>2, <2>3
<1>5. Len(fromUpstream) = m + 1
  BY DEF OutboundInv
<1> QED
  BY <1>1, <1>2, <1>3, <1>4, <1>5 DEF OutboundInv, OutboundInOrder

-----------------------------------------------------------------------------
LEMMA NextPumps ==
  ASSUME PumpsOK,
         \/ UNCHANGED << c2u, u2c >> /\ bridge' = bridge
         \/ UNCHANGED << c2u, u2c >> /\ bridge = "idle" /\ bridge' \in {"refused", "dialing"}
         \/ UNCHANGED << c2u, u2c >> /\ bridge = "dialing" /\ bridge' \in {"open", "ended"}
         \/ Ended
         \/ c2u' = Receiving /\ UNCHANGED << bridge, u2c >>
         \/ u2c' = Receiving /\ UNCHANGED << bridge, c2u >>
         \/ c2u' = Closing /\ UNCHANGED << bridge, u2c >>
         \/ u2c' = Closing /\ UNCHANGED << bridge, c2u >>
         \/ bridge = "open" /\ UNCHANGED << bridge, u2c >> /\ \E f \in Inbound : c2u' = Sending(f)
         \/ bridge = "open" /\ UNCHANGED << bridge, c2u >> /\ \E r \in Sealed : u2c' = Sending(r)
  PROVE  PumpsOK'
<1> QED
  BY DEF PumpsOK, Ended, Receiving, Closing, Sending

LEMMA NextType == TypeOK /\ [Next]_wsVars => TypeOK'
<1> SUFFICES ASSUME TypeOK, [Next]_wsVars  PROVE TypeOK'
  OBVIOUS
<1>0. PumpsOK /\ DataOK
  BY DEF TypeOK
<1>1. CASE Upgrade \/ Dial \/ ClientGoes \/ UpstreamGoes
  <2>1. PumpsOK'
    BY <1>0, <1>1, NextPumps DEF Upgrade, Dial, ClientGoes, UpstreamGoes
  <2>2. DataOK'
    BY <1>0, <1>1 DEF DataOK, Upgrade, Dial, ClientGoes, UpstreamGoes
  <2> QED
    BY <2>1, <2>2 DEF TypeOK
<1>2. CASE C2uRecv
  <2>1. PICK f \in Inbound :
          /\ fromClient' = Append(fromClient, f)
          /\ \/ last_counter' = last_counter
             \/ f.kind = "binary" /\ last_counter' = f.counter
          /\ \/ c2u' = Sending(f) /\ UNCHANGED << bridge, u2c >>
             \/ Ended
             \/ UNCHANGED << bridge, c2u, u2c >>
    <3>1. PICK f \in Inbound :
            /\ fromClient' = Append(fromClient, f)
            /\ \/ /\ f.kind = "binary" /\ last_counter' = f.counter
                  /\ c2u' = Sending(f) /\ UNCHANGED << bridge, u2c >>
               \/ /\ f.kind = "binary"
                  /\ last_counter' = IF f.defect # "size" /\ Fresh(f.counter)
                                     THEN f.counter ELSE last_counter
                  /\ Ended
               \/ c2u' = Sending(f) /\ UNCHANGED << bridge, u2c, last_counter >>
               \/ UNCHANGED << bridge, c2u, u2c, last_counter >>
      BY <1>2, ZenonT(60) DEF C2uRecv
    <3> QED
      BY <3>1
  <2>2. last_counter' \in Nat
    BY <1>0, <2>1, InboundKinds DEF DataOK
  <2>3. fromClient' \in Seq(Inbound)
    BY <1>0, <2>1, Appended DEF DataOK
  <2>4. bridge = "open"
    BY <1>2 DEF C2uRecv, C2uReady
  <2>5. PumpsOK'
    BY <1>0, <2>1, <2>4, NextPumps
  <2>6. UNCHANGED << out_counter, toUpstream, fromUpstream, toClient >>
    BY <1>2 DEF C2uRecv
  <2> QED
    BY <1>0, <2>2, <2>3, <2>5, <2>6 DEF DataOK, TypeOK
<1>3. CASE C2uSend
  <2>1. PumpsOK'
    BY <1>0, <1>3, NextPumps DEF C2uSend
  <2>2. DataOK'
    <3>1. c2u.holding \in Inbound /\ toUpstream \in Seq(Inbound)
      BY <1>0, <1>3 DEF DataOK, PumpsOK, C2uSend
    <3>2. toUpstream' \in Seq(Inbound)
      BY <1>3, <3>1, Appended DEF C2uSend
    <3> QED
      BY <1>0, <1>3, <3>2 DEF DataOK, C2uSend
  <2> QED
    BY <2>1, <2>2 DEF TypeOK
<1>4. CASE C2uEnd \/ C2uClose \/ U2cEnd \/ U2cClose
  <2>1. PumpsOK'
    BY <1>0, <1>4, NextPumps DEF C2uEnd, C2uClose, U2cEnd, U2cClose
  <2>2. DataOK'
    BY <1>0, <1>4 DEF DataOK, C2uEnd, C2uClose, U2cEnd, U2cClose
  <2> QED
    BY <2>1, <2>2 DEF TypeOK
<1>5. CASE U2cRecv
  <2>1. PICK m \in Outbound :
          /\ fromUpstream' = Append(fromUpstream, m)
          /\ out_counter' \in {out_counter, NextCounter}
          /\ \/ /\ \E c \in {0, NextCounter} : u2c' = Sending([counter |-> c, n |-> m.n])
                /\ UNCHANGED << bridge, c2u >>
             \/ Ended
    BY <1>5, ZenonT(60) DEF U2cRecv
  <2>2. \A c \in {0, NextCounter} : [counter |-> c, n |-> m.n] \in Sealed
    BY <1>0, OutboundKinds DEF Sealed, NextCounter, DataOK
  <2>3. fromUpstream' \in Seq(Outbound)
    BY <1>0, <2>1, Appended DEF DataOK
  <2>4. out_counter' \in Nat
    BY <1>0, <2>1 DEF DataOK, NextCounter
  <2>5. bridge = "open" /\ UNCHANGED << last_counter, fromClient, toUpstream, toClient >>
    BY <1>5 DEF U2cRecv
  <2>6. PumpsOK'
    BY <1>0, <2>1, <2>2, <2>5, NextPumps
  <2> QED
    BY <1>0, <2>3, <2>4, <2>5, <2>6 DEF DataOK, TypeOK
<1>6. CASE U2cSend
  <2>1. PumpsOK'
    BY <1>0, <1>6, NextPumps DEF U2cSend
  <2>2. DataOK'
    <3>1. u2c.holding \in Sealed /\ toClient \in Seq(Sealed)
      BY <1>0, <1>6 DEF DataOK, PumpsOK, U2cSend
    <3>2. toClient' \in Seq(Sealed)
      BY <1>6, <3>1, Appended DEF U2cSend
    <3> QED
      BY <1>0, <1>6, <3>2 DEF DataOK, U2cSend
  <2> QED
    BY <2>1, <2>2 DEF TypeOK
<1>7. CASE UNCHANGED wsVars
  BY <1>7 DEF wsVars, TypeOK, PumpsOK, DataOK
<1> QED
  BY <1>1, <1>2, <1>3, <1>4, <1>5, <1>6, <1>7 DEF Next

LEMMA InitWs == Init => WsInv
<1> SUFFICES ASSUME Init  PROVE WsInv
  OBVIOUS
<1>1. TypeOK
  BY DEF Init, TypeOK, PumpsOK, DataOK, Receiving
<1>2. Placed(<<>>)
  BY DEF Init, Placed, Receiving
<1>3. CounterInv /\ OutboundInv
  BY DEF Init, CounterInv, OutboundInv, InboundCountersIncrease, OutboundInOrder, Receiving
<1> QED
  BY <1>1, <1>2, <1>3 DEF WsInv, PlaceInv

LEMMA NextInbound == WsInv /\ [Next]_wsVars => PlaceInv' /\ CounterInv'
<1> SUFFICES ASSUME WsInv, [Next]_wsVars  PROVE PlaceInv' /\ CounterInv'
  OBVIOUS
<1>0. TypeOK /\ PlaceInv /\ CounterInv
  BY DEF WsInv
<1>1. CASE C2uRecv
  BY <1>0, <1>1, InboundRecv
<1>2. CASE C2uSend
  BY <1>0, <1>2, InboundSend, InboundKept DEF C2uSend
<1>3. CASE C2uEnd \/ C2uClose \/ U2cRecv \/ U2cSend \/ U2cEnd \/ U2cClose
  <2>1. UNCHANGED << fromClient, toUpstream, last_counter >> /\ bridge = "open"
    BY <1>3 DEF C2uEnd, C2uClose, U2cRecv, U2cSend, U2cEnd, U2cClose
  <2>2. c2u' = c2u \/ (c2u.at = "recv" /\ c2u' = Closing) \/ Ended
    BY <1>3, ZenonT(60) DEF C2uEnd, C2uClose, U2cRecv, U2cSend, U2cEnd, U2cClose
  <2> QED
    BY <1>0, <2>1, <2>2, InboundKept DEF Kept
<1>4. CASE Upgrade \/ Dial \/ ClientGoes \/ UpstreamGoes \/ UNCHANGED wsVars
  <2>1. UNCHANGED << fromClient, toUpstream, last_counter >> /\ Kept(c2u)
    BY <1>4 DEF Upgrade, Dial, ClientGoes, UpstreamGoes, wsVars, Kept
  <2> QED
    BY <1>0, <2>1, InboundKept
<1> QED
  BY <1>1, <1>2, <1>3, <1>4 DEF Next

LEMMA NextOutbound == WsInv /\ [Next]_wsVars => OutboundInv'
<1> SUFFICES ASSUME WsInv, [Next]_wsVars  PROVE OutboundInv'
  OBVIOUS
<1>0. TypeOK /\ OutboundInv
  BY DEF WsInv
<1>1. CASE U2cRecv
  BY <1>0, <1>1, OutboundRecv
<1>2. CASE U2cSend
  BY <1>0, <1>2, OutboundSend, OutboundKept DEF U2cSend
<1>3. CASE U2cEnd \/ U2cClose \/ C2uRecv \/ C2uSend \/ C2uEnd \/ C2uClose
  <2>1. UNCHANGED << fromUpstream, toClient, out_counter >> /\ bridge = "open"
    BY <1>3 DEF U2cEnd, U2cClose, C2uRecv, C2uReady, C2uSend, C2uEnd, C2uClose
  <2>2. u2c' = u2c \/ (u2c.at = "recv" /\ u2c' = Closing) \/ Ended
    BY <1>3, ZenonT(60) DEF U2cEnd, U2cClose, C2uRecv, C2uSend, C2uEnd, C2uClose
  <2> QED
    BY <1>0, <2>1, <2>2, OutboundKept DEF Kept
<1>4. CASE Upgrade \/ Dial \/ ClientGoes \/ UpstreamGoes \/ UNCHANGED wsVars
  <2>1. UNCHANGED << fromUpstream, toClient, out_counter >> /\ Kept(u2c)
    BY <1>4 DEF Upgrade, Dial, ClientGoes, UpstreamGoes, wsVars, Kept
  <2> QED
    BY <1>0, <2>1, OutboundKept
<1> QED
  BY <1>1, <1>2, <1>3, <1>4 DEF Next

\* The inductive invariant of the bridge.
LEMMA WsInvariant == Spec => []WsInv
<1>1. WsInv /\ [Next]_wsVars => WsInv'
  BY NextType, NextInbound, NextOutbound, ZenonT(60) DEF WsInv
<1> QED
  BY <1>1, InitWs, PTL DEF Spec

\* client_to_upstream, with the other pump and both peers interleaved: the
\* upstream gets what the client sent, in order, without gap or repetition.
THEOREM InboundInOrder == Spec => []InboundIsAPrefix
<1>1. WsInv => InboundIsAPrefix
  BY DEF WsInv, PlaceInv, Placed, InboundIsAPrefix
<1> QED
  BY <1>1, WsInvariant, PTL

\* decode_inbound's replay check: no counter gets to the upstream twice.
THEOREM NoReplayIsPassed == Spec => []InboundCountersIncrease
<1>1. WsInv => InboundCountersIncrease
  BY DEF WsInv, CounterInv
<1> QED
  BY <1>1, WsInvariant, PTL

\* upstream_to_client: the client gets the upstream's messages in order, none
\* skipped, and no two of them sealed under one counter.
THEOREM OutboundIsInOrder == Spec => []OutboundInOrder
<1>1. WsInv => OutboundInOrder
  BY DEF WsInv, OutboundInv
<1> QED
  BY <1>1, WsInvariant, PTL
-----------------------------------------------------------------------------
INSTANCE FiniteSetTheorems

HistogramTypeOK ==
  /\ cells \in [Cells -> Nat] /\ scrape \in [Cells -> Nat] /\ loads \in SUBSET Cells
  /\ pending \in [Observers -> [obs : Nat, adds : SUBSET Cells]]
  /\ begun \in Seq(Latencies)
  /\ finished \in SUBSET DOMAIN begun /\ floor \in SUBSET finished

\* The observations that have nothing left to add to cell c.
Done(c) ==
  {i \in DOMAIN begun : \A o \in Observers : pending[o].obs = i => c \notin pending[o].adds}

\* A task adds only to the cells of its own observation, and is the only one
\* to; a finished observation has nothing left to add.
PendingInv ==
  /\ \A o \in Observers : pending[o].adds # {} =>
       /\ pending[o].obs \in DOMAIN begun
       /\ pending[o].adds \subseteq AddsTo(begun[pending[o].obs])
  /\ \A o, q \in Observers : o # q /\ pending[o].adds # {} /\ pending[q].adds # {}
       => pending[o].obs # pending[q].obs
  /\ \A o \in Observers : pending[o].obs \in finished => pending[o].adds = {}

\* A cell holds what the observations that added to it count for.
CellsInv == \A c \in Cells : cells[c] = Reference(begun, Done(c), c)

\* What a scrape has loaded it loaded after it began.
ScrapeInv ==
  \A c \in Cells \ loads : Reference(begun, floor, c) <= scrape[c] /\ scrape[c] <= cells[c]

HistogramInv == HistogramTypeOK /\ PendingInv /\ CellsInv /\ ScrapeInv

-----------------------------------------------------------------------------
\* The classes of latency and the cells are numbers.
LEMMA Numbers ==
  /\ Latencies \subseteq Nat /\ Cells \subseteq Nat /\ Inf \in Cells /\ Sum \in Cells
  /\ \A l \in Latencies : AddsTo(l) \subseteq Cells
BY HistogramConstants DEF Latencies, Cells, Inf, Sum, AddsTo

LEMMA LatenciesFinite == IsFiniteSet(Latencies)
BY FS_Interval, HistogramConstants DEF Latencies

\* Observations count for a finite number, and for no less with more of them.
LEMMA ReferenceGrows ==
  ASSUME NEW h \in Seq(Latencies), NEW S \in SUBSET DOMAIN h, NEW T \in SUBSET S, NEW c
  PROVE  /\ IsFiniteSet(Units(h, S, c)) /\ Reference(h, S, c) \in Nat
         /\ Reference(h, T, c) \in Nat /\ Reference(h, T, c) <= Reference(h, S, c)
<1>1. IsFiniteSet(1 .. Len(h)) /\ DOMAIN h = 1 .. Len(h)
  BY FS_Interval
<1>2. IsFiniteSet(S)
  BY <1>1, FS_Subset
<1>3. IsFiniteSet(S \X Latencies)
  BY <1>2, LatenciesFinite, FS_Product
<1>4. Units(h, S, c) \subseteq S \X Latencies /\ Units(h, T, c) \subseteq Units(h, S, c)
  BY DEF Units
<1>5. IsFiniteSet(Units(h, S, c))
  BY <1>3, <1>4, FS_Subset
<1>6. /\ IsFiniteSet(Units(h, T, c))
      /\ Cardinality(Units(h, T, c)) <= Cardinality(Units(h, S, c))
  BY <1>4, <1>5, FS_Subset
<1> QED
  BY <1>5, <1>6, FS_CardinalityType DEF Reference

\* One observation more counts for its amount, in a cell that it adds to.
LEMMA ReferenceAdds ==
  ASSUME NEW h \in Seq(Latencies), NEW S \in SUBSET DOMAIN h, NEW i \in DOMAIN h \ S,
         NEW c \in AddsTo(h[i])
  PROVE  Reference(h, S \cup {i}, c) = Reference(h, S, c) + Amount(c, h[i])
<1> DEFINE n == Amount(c, h[i])
           new == {i} \X (1 .. n)
<1>1. h[i] \in Latencies /\ n \in Nat /\ 1 .. n \subseteq Latencies
  BY HistogramConstants DEF Latencies, Amount
<1>2. \A k \in Latencies : (IF c = Sum THEN k <= h[i] ELSE k = 1 /\ h[i] <= c) <=> k \in 1 .. n
  <2>1. c # Sum => h[i] <= c
    BY <1>1, HistogramConstants DEF AddsTo, Latencies, Inf, Sum
  <2> QED
    BY <2>1, <1>1, HistogramConstants DEF Amount, Latencies
<1>3. Units(h, S \cup {i}, c) = Units(h, S, c) \cup new
  <2>1. ASSUME NEW u \in Units(h, S \cup {i}, c) PROVE u \in Units(h, S, c) \cup new
    BY <1>2 DEF Units
  <2>2. ASSUME NEW u \in new PROVE u \in Units(h, S \cup {i}, c)
    BY <1>1, <1>2 DEF Units
  <2>3. Units(h, S, c) \subseteq Units(h, S \cup {i}, c)
    BY DEF Units
  <2> QED
    BY <2>1, <2>2, <2>3, ZenonT(60)
<1>4. Units(h, S, c) \cap new = {}
  BY DEF Units
<1>5. IsFiniteSet(new) /\ Cardinality(new) = n
  <2>1. IsFiniteSet({i}) /\ Cardinality({i}) = 1
    BY FS_Singleton, ZenonT(60)
  <2>2. IsFiniteSet(1 .. n) /\ Cardinality(1 .. n) = n
    BY <1>1, FS_Interval
  <2>3. IsFiniteSet(new) /\ Cardinality(new) = 1 * Cardinality(1 .. n)
    BY <2>1, <2>2, FS_Product, ZenonT(60)
  <2> QED
    BY <1>1, <2>2, <2>3
<1>6. IsFiniteSet(Units(h, S, c)) /\ Cardinality(Units(h, S, c)) \in Nat
  BY ReferenceGrows DEF Reference
<1> HIDE DEF new, n
<1>7. Cardinality(Units(h, S, c) \cup new)
        = Cardinality(Units(h, S, c)) + Cardinality(new) - Cardinality(Units(h, S, c) \cap new)
  BY <1>5, <1>6, FS_Union
<1>8. Cardinality(Units(h, S, c) \cap new) = 0
  <2>1. Cardinality({}) = 0
    BY FS_EmptySet
  <2> QED
    BY <1>4, <2>1, ZenonT(60)
<1>9. Cardinality(Units(h, S, c) \cup new) = Cardinality(Units(h, S, c)) + n
  BY <1>1, <1>5, <1>6, <1>7, <1>8
<1> QED
  BY <1>3, <1>9, ZenonT(60) DEF Reference, n

\* An observation that begins changes nothing of what the others count for,
\* and counts for nothing in a cell it will not add to.
LEMMA ReferenceAppends ==
  ASSUME NEW h \in Seq(Latencies), NEW S \in SUBSET DOMAIN h, NEW l \in Latencies, NEW c \in Cells
  PROVE  /\ Reference(Append(h, l), S, c) = Reference(h, S, c)
         /\ c \notin AddsTo(l) =>
              Reference(Append(h, l), S \cup {Len(h) + 1}, c) = Reference(h, S, c)
<1> DEFINE g == Append(h, l)
<1>1. (\A i \in DOMAIN h : g[i] = h[i]) /\ g[Len(h) + 1] = l
  OBVIOUS
<1> HIDE DEF g
<1>2. Units(g, S, c) = Units(h, S, c)
  <2>1. \A u \in S \X Latencies : g[u[1]] = h[u[1]]
    BY <1>1
  <2> QED
    BY <2>1 DEF Units
<1>3. ASSUME c \notin AddsTo(l) PROVE Units(g, S \cup {Len(h) + 1}, c) = Units(h, S, c)
  <2>1. c # Sum /\ ~ l <= c
    BY <1>3, HistogramConstants DEF AddsTo, Cells, Latencies, Inf, Sum
  <2>2. ASSUME NEW u \in Units(g, S \cup {Len(h) + 1}, c) PROVE u \in Units(g, S, c)
    <3>1. u[1] # Len(h) + 1
      BY <1>1, <2>1 DEF Units
    <3> QED
      BY <3>1 DEF Units
  <2>3. Units(g, S, c) \subseteq Units(g, S \cup {Len(h) + 1}, c)
    BY DEF Units
  <2> QED
    BY <1>2, <2>2, <2>3, ZenonT(60)
<1> QED
  BY <1>2, <1>3 DEF Reference, g

-----------------------------------------------------------------------------
LEMMA HistogramInitially == HistogramInit => HistogramInv
<1> SUFFICES ASSUME HistogramInit PROVE HistogramInv
  OBVIOUS
<1> USE DEF HistogramInit
<1>1. HistogramTypeOK
  BY Numbers DEF HistogramTypeOK
<1>2. PendingInv
  BY DEF PendingInv
<1>3. \A c : Units(begun, Done(c), c) = {} /\ Units(begun, floor, c) = {}
  BY DEF Units, Done
<1>4. \A c : Reference(begun, Done(c), c) = 0 /\ Reference(begun, floor, c) = 0
  BY <1>3, FS_EmptySet, ZenonT(60) DEF Reference
<1>5. CellsInv /\ ScrapeInv
  BY <1>4 DEF CellsInv, ScrapeInv
<1> QED
  BY <1>1, <1>2, <1>5 DEF HistogramInv

\* A task that begins an observation leaves what the cells hold explained.
LEMMA ObserveKeeps ==
  ASSUME HistogramInv, NEW o \in Observers, Observe(o)
  PROVE  HistogramInv'
<1> USE DEF HistogramInv
<1>1. PICK l \in Latencies :
        /\ pending' = [pending EXCEPT ![o] = [obs |-> Len(begun) + 1, adds |-> AddsTo(l)]]
        /\ begun' = Append(begun, l)
  BY ZenonT(60) DEF Observe
<1>2. pending[o].adds = {} /\ UNCHANGED << cells, loads, scrape, finished, floor >>
  BY DEF Observe
<1> DEFINE n == Len(begun) + 1
<1>3. /\ begun' \in Seq(Latencies) /\ DOMAIN begun' = DOMAIN begun \cup {n} /\ n \notin DOMAIN begun
      /\ begun'[n] = l /\ \A i \in DOMAIN begun : begun'[i] = begun[i]
  BY <1>1 DEF HistogramTypeOK
<1>4. /\ pending'[o].obs = n /\ pending'[o].adds = AddsTo(l)
      /\ \A q \in Observers : q # o => pending'[q] = pending[q]
  BY <1>1 DEF HistogramTypeOK
<1>5. HistogramTypeOK'
  <2>1. pending' \in [Observers -> [obs : Nat, adds : SUBSET Cells]]
    BY <1>1, Numbers, SMTT(60) DEF HistogramTypeOK
  <2> QED
    BY <1>2, <1>3, <2>1 DEF HistogramTypeOK
<1> HIDE DEF n
<1>6. PendingInv'
  <2>1. ASSUME NEW q \in Observers, pending'[q].adds # {}
        PROVE  /\ pending'[q].obs \in DOMAIN begun'
               /\ pending'[q].adds \subseteq AddsTo(begun'[pending'[q].obs])
    <3>1. CASE q = o
      BY <1>3, <1>4, <3>1, ZenonT(60)
    <3>2. CASE q # o
      BY <1>3, <1>4, <2>1, <3>2, ZenonT(60) DEF PendingInv
    <3> QED
      BY <3>1, <3>2, ZenonT(60)
  <2>2. ASSUME NEW q \in Observers, NEW r \in Observers, q # r,
               pending'[q].adds # {}, pending'[r].adds # {}
        PROVE  pending'[q].obs # pending'[r].obs
    BY <1>3, <1>4, <2>2, SMTT(60) DEF PendingInv
  <2>3. ASSUME NEW q \in Observers, pending'[q].obs \in finished' PROVE pending'[q].adds = {}
    BY <1>2, <1>3, <1>4, <2>3 DEF PendingInv, HistogramTypeOK
  <2> QED
    BY <2>1, <2>2, <2>3, SMTT(60) DEF PendingInv
<1>7. ASSUME NEW c \in Cells
      PROVE  /\ c \in AddsTo(l) => Done(c)' = Done(c)
             /\ c \notin AddsTo(l) => Done(c)' = Done(c) \cup {n}
  <2>1. \A i \in DOMAIN begun : i \in Done(c)' <=> i \in Done(c)
    BY <1>2, <1>3, <1>4 DEF Done
  <2>2. n \in Done(c)' <=> c \notin AddsTo(l)
    <3>1. ASSUME NEW q \in Observers, q # o, pending'[q].obs = n PROVE c \notin pending'[q].adds
      BY <1>3, <1>4, <3>1 DEF PendingInv
    <3> QED
      BY <1>3, <1>4, <3>1 DEF Done
  <2>3. Done(c)' \subseteq DOMAIN begun \cup {n} /\ Done(c) \subseteq DOMAIN begun
    BY <1>3 DEF Done
  <2> QED
    BY <1>3, <2>1, <2>2, <2>3, ZenonT(60)
<1>8. ASSUME NEW c \in Cells
      PROVE  /\ Reference(begun', Done(c)', c) = Reference(begun, Done(c), c)
             /\ Reference(begun', floor', c) = Reference(begun, floor, c)
  <2>1. begun \in Seq(Latencies) /\ Done(c) \in SUBSET DOMAIN begun /\ floor \in SUBSET DOMAIN begun
    BY DEF HistogramTypeOK, Done
  <2>2. /\ Reference(begun', Done(c), c) = Reference(begun, Done(c), c)
        /\ c \notin AddsTo(l) =>
             Reference(begun', Done(c) \cup {n}, c) = Reference(begun, Done(c), c)
        /\ Reference(begun', floor, c) = Reference(begun, floor, c)
    BY <1>1, <2>1, ReferenceAppends, ZenonT(60) DEF n
  <2> QED
    BY <1>2, <1>7, <2>2
<1>9. CellsInv' /\ ScrapeInv'
  BY <1>2, <1>8 DEF CellsInv, ScrapeInv
<1> QED
  BY <1>5, <1>6, <1>9

\* One more addition: its cell holds one observation more.
LEMMA AddKeeps ==
  ASSUME HistogramInv, NEW o \in Observers, Add(o)
  PROVE  HistogramInv'
<1> USE DEF HistogramInv
<1> DEFINE i == pending[o].obs
<1>1. PICK c \in pending[o].adds :
        /\ cells' = [cells EXCEPT ![c] = @ + Amount(c, begun[i])]
        /\ pending' = [pending EXCEPT ![o].adds = @ \ {c}]
        /\ finished' = IF pending[o].adds = {c} THEN finished \cup {i} ELSE finished
        /\ UNCHANGED << loads, scrape, begun, floor >>
  BY ZenonT(60) DEF Add
<1>2. /\ i \in DOMAIN begun /\ c \in AddsTo(begun[i]) /\ c \in Cells
      /\ begun[i] \in Latencies /\ i \notin finished
  BY DEF HistogramTypeOK, PendingInv
<1>3. /\ pending'[o].obs = i /\ pending'[o].adds = pending[o].adds \ {c}
      /\ \A q \in Observers : q # o => pending'[q] = pending[q]
  BY <1>1 DEF HistogramTypeOK
<1>4. Amount(c, begun[i]) \in Nat
  BY <1>2, Numbers, ZenonT(60) DEF Amount
<1>5. HistogramTypeOK'
  <2>1. pending' \in [Observers -> [obs : Nat, adds : SUBSET Cells]]
    BY <1>1 DEF HistogramTypeOK
  <2>2. cells' \in [Cells -> Nat]
    BY <1>1, <1>4 DEF HistogramTypeOK
  <2>3. finished \subseteq finished' /\ finished' \subseteq DOMAIN begun
    BY <1>1, <1>2 DEF HistogramTypeOK
  <2> QED
    BY <1>1, <2>1, <2>2, <2>3, SMTT(60) DEF HistogramTypeOK
<1> HIDE DEF i
<1>6. ASSUME NEW q \in Observers, q # o, pending[q].adds # {} PROVE pending[q].obs # i
  BY <1>1, <1>6 DEF PendingInv, i
<1>7. PendingInv'
  <2>1. ASSUME NEW q \in Observers, pending'[q].adds # {}
        PROVE  /\ pending'[q].obs \in DOMAIN begun'
               /\ pending'[q].adds \subseteq AddsTo(begun'[pending'[q].obs])
    BY <1>1, <1>3, <2>1, SMTT(60) DEF PendingInv, i
  <2>2. ASSUME NEW q \in Observers, NEW r \in Observers, q # r,
               pending'[q].adds # {}, pending'[r].adds # {}
        PROVE  pending'[q].obs # pending'[r].obs
    BY <1>3, <1>6, <2>2 DEF PendingInv
  <2>3. ASSUME NEW q \in Observers, pending'[q].obs \in finished' PROVE pending'[q].adds = {}
    <3>1. CASE q = o
      BY <1>1, <1>2, <1>3, <2>3, <3>1
    <3>2. CASE q # o
      BY <1>1, <1>3, <1>6, <2>3, <3>2 DEF PendingInv
    <3> QED
      BY <3>1, <3>2
  <2> QED
    BY <2>1, <2>2, <2>3 DEF PendingInv
<1>8. i \notin Done(c) /\ Done(c)' = Done(c) \cup {i}
  <2>1. i \notin Done(c)
    BY <1>1 DEF Done, i
  <2>2. i \in Done(c)'
    <3>1. ASSUME NEW q \in Observers, pending'[q].obs = i PROVE c \notin pending'[q].adds
      BY <1>3, <1>6, <3>1
    <3> QED
      BY <1>1, <1>2, <3>1 DEF Done
  <2>3. \A j \in DOMAIN begun : j # i => (j \in Done(c)' <=> j \in Done(c))
    BY <1>1, <1>3 DEF Done, i
  <2>4. Done(c)' \subseteq DOMAIN begun /\ Done(c) \subseteq DOMAIN begun
    BY <1>1 DEF Done
  <2> QED
    BY <2>1, <2>2, <2>3, <2>4
<1>9. ASSUME NEW d \in Cells, d # c PROVE Done(d)' = Done(d)
  <2>1. \A q \in Observers : /\ pending'[q].obs = pending[q].obs
                             /\ d \in pending'[q].adds <=> d \in pending[q].adds
    BY <1>3, <1>9 DEF i
  <2> QED
    BY <1>1, <2>1 DEF Done
<1>10. begun \in Seq(Latencies) /\ Done(c) \in SUBSET DOMAIN begun
  BY DEF HistogramTypeOK, Done
<1>11. CellsInv'
  <2>1. Reference(begun, Done(c) \cup {i}, c) = Reference(begun, Done(c), c) + Amount(c, begun[i])
    BY <1>2, <1>8, <1>10, ReferenceAdds
  <2>2. cells'[c] = cells[c] + Amount(c, begun[i]) /\ \A d \in Cells : d # c => cells'[d] = cells[d]
    BY <1>1, <1>2 DEF HistogramTypeOK
  <2>3. ASSUME NEW d \in Cells PROVE cells'[d] = Reference(begun', Done(d)', d)
    <3>1. CASE d = c
      BY <1>1, <1>2, <1>8, <2>1, <2>2, <3>1 DEF CellsInv
    <3>2. CASE d # c
      BY <1>1, <1>9, <2>2, <3>2 DEF CellsInv
    <3> QED
      BY <3>1, <3>2
  <2> QED
    BY <2>3 DEF CellsInv
<1>12. ScrapeInv'
  <2>1. \A d \in Cells : cells[d] \in Nat /\ cells'[d] \in Nat /\ cells[d] <= cells'[d]
    BY <1>1, <1>4, <1>5 DEF HistogramTypeOK
  <2>2. ASSUME NEW d \in Cells \ loads PROVE scrape[d] <= cells'[d]
    BY <2>1 DEF ScrapeInv, HistogramTypeOK
  <2> QED
    BY <1>1, <2>2 DEF ScrapeInv
<1> QED
  BY <1>5, <1>7, <1>11, <1>12

\* What has finished has been added to every cell it counts in.
LEMMA FinishedAreDone ==
  ASSUME HistogramInv, NEW c \in Cells
  PROVE  /\ finished \subseteq Done(c) /\ Done(c) \subseteq DOMAIN begun
         /\ Reference(begun, floor, c) <= cells[c]
         /\ cells[c] <= Reference(begun, DOMAIN begun, c)
         /\ Reference(begun, finished, c) <= cells[c]
         /\ Reference(begun, DOMAIN begun, c) \in Nat /\ Reference(begun, floor, c) \in Nat
<1> USE DEF HistogramInv
<1>1. finished \subseteq Done(c) /\ Done(c) \subseteq DOMAIN begun
  BY DEF Done, PendingInv, HistogramTypeOK
<1>2. begun \in Seq(Latencies) /\ floor \subseteq finished /\ cells[c] = Reference(begun, Done(c), c)
  BY DEF HistogramTypeOK, CellsInv
<1>3. /\ Reference(begun, floor, c) <= cells[c] /\ Reference(begun, finished, c) <= cells[c]
      /\ Reference(begun, floor, c) \in Nat
  BY <1>1, <1>2, ReferenceGrows
<1>4. /\ cells[c] <= Reference(begun, DOMAIN begun, c)
      /\ Reference(begun, DOMAIN begun, c) \in Nat
  BY <1>1, <1>2, ReferenceGrows
<1> QED
  BY <1>1, <1>3, <1>4

\* A scrape loads what is there when it loads it.
LEMMA ScrapeKeeps ==
  ASSUME HistogramInv, Scrape \/ Load
  PROVE  HistogramInv'
<1> USE DEF HistogramInv
<1>1. UNCHANGED << cells, pending, begun, finished >>
  BY DEF Scrape, Load
<1>2. PendingInv' /\ CellsInv'
  BY <1>1 DEF PendingInv, CellsInv, Done
<1>3. CASE Scrape
  <2>1. HistogramTypeOK'
    BY <1>1, <1>3 DEF Scrape, HistogramTypeOK
  <2>2. ScrapeInv'
    BY <1>3 DEF Scrape, ScrapeInv
  <2> QED
    BY <1>2, <2>1, <2>2
<1>4. CASE Load
  <2>1. PICK c \in loads : /\ scrape' = [scrape EXCEPT ![c] = cells[c]]
                           /\ loads' = loads \ {c} /\ floor' = floor
    BY <1>4, ZenonT(60) DEF Load
  <2>2. HistogramTypeOK'
    BY <1>1, <2>1 DEF HistogramTypeOK
  <2>3. ASSUME NEW d \in Cells \ loads'
        PROVE  Reference(begun', floor', d) <= scrape'[d] /\ scrape'[d] <= cells'[d]
    <3>1. CASE d = c
      <4>1. scrape'[d] = cells[d] /\ cells[d] \in Nat
        BY <2>1, <3>1 DEF HistogramTypeOK
      <4>2. Reference(begun, floor, d) <= cells[d]
        BY FinishedAreDone
      <4> QED
        BY <1>1, <2>1, <4>1, <4>2
    <3>2. CASE d # c
      <4>1. d \in Cells \ loads /\ scrape'[d] = scrape[d]
        BY <2>1, <2>3, <3>2 DEF HistogramTypeOK
      <4> QED
        BY <1>1, <2>1, <4>1 DEF ScrapeInv
    <3> QED
      BY <3>1, <3>2
  <2>4. ScrapeInv'
    BY <2>3 DEF ScrapeInv
  <2> QED
    BY <1>2, <2>2, <2>4
<1> QED
  BY <1>3, <1>4

\* A rendered histogram lies, cell by cell, between that of the observations
\* finished before the scrape and that of those begun by its end, for any
\* number of tasks, bounds and observations.
THEOREM ScrapesAreWithinBounds == HistogramSpec => []ScrapeWithinBounds
<1>1. HistogramInv /\ [HistogramNext]_histogramVars => HistogramInv'
  <2> SUFFICES ASSUME HistogramInv, [HistogramNext]_histogramVars PROVE HistogramInv'
    OBVIOUS
  <2>1. CASE UNCHANGED histogramVars
    BY <2>1, ZenonT(60) DEF histogramVars, HistogramInv, HistogramTypeOK, PendingInv, CellsInv, ScrapeInv, Done
  <2> QED
    BY <2>1, ObserveKeeps, AddKeeps, ScrapeKeeps, SMTT(60) DEF HistogramNext
<1>2. HistogramInv => ScrapeWithinBounds
  <2> SUFFICES ASSUME HistogramInv, loads = {}, NEW c \in Cells
               PROVE  /\ Reference(begun, floor, c) <= scrape[c]
                      /\ scrape[c] <= Reference(begun, DOMAIN begun, c)
    BY DEF ScrapeWithinBounds
  <2>1. Reference(begun, floor, c) <= scrape[c] /\ scrape[c] <= cells[c]
    BY DEF HistogramInv, ScrapeInv
  <2>2. cells[c] <= Reference(begun, DOMAIN begun, c) /\ Reference(begun, DOMAIN begun, c) \in Nat
    BY FinishedAreDone
  <2>3. scrape[c] \in Nat /\ cells[c] \in Nat
    BY DEF HistogramInv, HistogramTypeOK
  <2> QED
    BY <2>1, <2>2, <2>3
<1> QED
  BY HistogramInitially, <1>1, <1>2, PTL DEF HistogramSpec
=============================================================================
