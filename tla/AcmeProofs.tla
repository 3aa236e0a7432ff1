----------------------------- MODULE AcmeProofs -----------------------------
(***************************************************************************)
(* The safety of the ACME certificate's life, for any configurations, any  *)
(* lifetime and any number of crashes, CA faults and failed writes.        *)
(***************************************************************************)
EXTENDS Acme, TLAPS

Places == {"down", "load", "listen", "idle", "account", "order", "authorize", "ready",
           "write_cert", "write_key", "install"}
Disks == [cert : Certs \cup {None, Torn}, key : Serials \cup {None, Torn},
          account : Directories \cup {None, Torn}]
Orders == [todo : SUBSET Domains, active : SUBSET Domains, directory : Directories \cup {None}]
Responses == [domain : Domains, age : {"current", "stale"}]
Faults == [crash : Nat, ca : Nat, disk : Nat]

\* An issued pair is at hand; the order's directory is known.
InHand == {"write_cert", "write_key", "install"}
Ordering == {"order", "authorize", "ready"}

TypeOK ==
  /\ now \in 0..MaxNow /\ config \in Configs
  /\ pc \in Places /\ why \in {"startup", "renewal"}
  /\ live \in Pairs \cup {None}
  /\ disk \in Disks
  /\ responses \in SUBSET Responses
  /\ order \in Orders /\ (pc \in Ordering => order.directory \in Directories)
  /\ issued \in Pairs \cup {None} /\ (pc \in InHand => issued \in Pairs)
  /\ faults \in Faults

\* A pair that is served or in hand matches.
PairInv ==
  /\ live # None => live.key = live.cert.serial
  /\ pc \in InHand => issued.key = issued.cert.serial

\* The places in which the cache holds what is served, as long as no write has
\* failed, and how the files follow while it is replaced.
Settled ==
  \/ pc \in {"listen", "idle"}
  \/ why = "renewal" /\ pc \in Ordering \cup {"account", "write_cert"}

CacheInv ==
  /\ pc \in {"down", "load"} => why = "startup"
  /\ HasCache /\ faults.disk = 0 =>
       /\ Settled => live # None /\ Cached = live
       /\ pc = "write_key" => disk.cert = issued.cert
       /\ pc = "install" => Cached = issued

\* The response to each challenge of the order is up, and alone under its name.
AnswerInv ==
  /\ pc = "order" => order.active = {}
  /\ pc \in {"authorize", "ready"} =>
       \A d \in order.active :
         /\ config.challenge = "http-01" => Response(d, "current") \in responses
         /\ config.challenge = "tls-alpn-01" =>
              \A r \in Responses : r \in responses /\ r.domain = d <=> r = Response(d, "current")

\* Without a CA fault no response is up but the order's own.
TokenInv ==
  /\ pc = "down" \/ config.challenge = "dns-01" => responses = {}
  /\ faults.ca = 0 =>
       \A r \in responses : /\ pc \in {"authorize", "ready"}
                            /\ r.domain \in order.active /\ r.age = "current"

AcmeInv == TypeOK /\ PairInv /\ CacheInv /\ AnswerInv /\ TokenInv

-----------------------------------------------------------------------------
\* What the steps of an ending and of a failing write have in common.
LEMMA CutOffType == TypeOK => {disk} \cup CutOff \subseteq Disks
  BY DEF TypeOK, CutOff, Disks

LEMMA FaultType ==
  ASSUME TypeOK, NEW kind \in {"crash", "ca", "disk"}, Fault(kind)
  PROVE  faults' \in Faults
  BY DEF TypeOK, Fault, Faults

LEMMA ExitType == TypeOK /\ Exit /\ disk' \in Disks /\ faults' \in Faults => TypeOK'
  BY DEF TypeOK, Exit, setting, NoOrder, Places, Orders, Ordering, InHand

LEMMA IssueFailsType == TypeOK /\ IssueFails /\ disk' \in Disks /\ faults' \in Faults => TypeOK'
  BY ExitType DEF TypeOK, IssueFails, setting, NoOrder, Places, Orders, Ordering, InHand

\* Three pairs leave a fourth serial.
LEMMA FreshSerialType ==
  ASSUME TypeOK, PairInv
  PROVE  FreshSerial \in Serials
<1> DEFINE fits(s) == /\ live # None => s \notin {live.cert.serial, live.key}
                      /\ disk.cert \notin {None, Torn} => s # disk.cert.serial
                      /\ disk.key # s
<1>1. \E s \in Serials : fits(s)
  <2>1. PICK a : live # None => a = live.cert.serial /\ a = live.key
    BY DEF PairInv
  <2>2. PICK s \in Serials : s # a /\ s # disk.cert.serial /\ s # disk.key
    BY DEF Serials
  <2> QED
    BY <2>1, <2>2
<1> QED
  BY <1>1 DEF FreshSerial

LEMMA FinalizeType == TypeOK /\ PairInv /\ Finalize => TypeOK'
<1> SUFFICES ASSUME TypeOK, PairInv, Finalize  PROVE TypeOK'
  OBVIOUS
<1>1. IssuedCert(FreshSerial) \in Pairs
  BY FreshSerialType, AcmeConstants DEF TypeOK, Finalize, IssuedCert, Pairs, Certs, Ordering, Directories
<1>2. TornDown \in SUBSET Responses
  BY AcmeValues DEF TypeOK, TornDown
<1> QED
  BY <1>1, <1>2 DEF TypeOK, Finalize, Goto, setting, listening, NoOrder, Places, Orders, Ordering,
                    InHand

\* A turn of the authorization loop.
Skipped(d) == /\ order' = [order EXCEPT !.todo = @ \ {d}]
              /\ UNCHANGED << pc, responses >>
Prepared(d) == /\ order' = [order EXCEPT !.todo = @ \ {d}, !.active = @ \cup {d}]
               /\ pc' = "ready"
               /\ config.challenge = "http-01" => responses' = responses \cup {Response(d, "current")}
               /\ config.challenge = "tls-alpn-01" => SetChallenge(d)
               /\ config.challenge = "dns-01" => responses' = responses

LEMMA InstalledCases ==
  ASSUME TypeOK, NEW d \in Domains, Installed(d)
  PROVE  /\ config.challenge = "http-01" => responses' = responses \cup {Response(d, "current")}
         /\ config.challenge = "tls-alpn-01" => SetChallenge(d)
         /\ config.challenge = "dns-01" => responses' = responses
<1>1. CASE config.challenge = "http-01"
  BY <1>1 DEF Installed
<1>2. CASE config.challenge = "tls-alpn-01"
  BY <1>2 DEF Installed
<1>3. CASE config.challenge = "dns-01"
  BY <1>3 DEF Installed
<1> QED
  BY <1>1, <1>2, <1>3, ZenonT(60)

LEMMA RespondTurn ==
  ASSUME TypeOK, Respond
  PROVE  /\ pc = "authorize" /\ UNCHANGED disk
         /\ \/ Fault("ca") /\ IssueFails
            \/ /\ \E d \in order.todo : Skipped(d) \/ Prepared(d)
               /\ UNCHANGED << setting, why, listening, live, issued, faults >>
               /\ TypeOK'
<1>0. pc = "authorize" /\ UNCHANGED disk
  BY ZenonT(60) DEF Respond
<1>1. CASE Fault("ca") /\ IssueFails
  BY <1>0, <1>1
<1>2. ASSUME NEW d \in order.todo, Skipped(d) \/ Prepared(d),
             UNCHANGED << setting, why, listening, live, disk, issued, faults >>
      PROVE  TypeOK'
  <2>1. d \in Domains
    BY DEF TypeOK, Orders
  <2>2. order' \in Orders /\ order'.directory = order.directory
    <3>1. order \in Orders
      BY DEF TypeOK
    <3>2. CASE order' = [order EXCEPT !.todo = @ \ {d}]
      BY <3>1, <3>2 DEF Orders
    <3>3. CASE order' = [order EXCEPT !.todo = @ \ {d}, !.active = @ \cup {d}]
      BY <2>1, <3>1, <3>3, ZenonT(60) DEF Orders
    <3> QED
      BY <1>2, <3>2, <3>3, ZenonT(60) DEF Skipped, Prepared
  <2>3. Response(d, "current") \in Responses
    BY <2>1 DEF Response, Responses
  <2>4. responses' \in SUBSET Responses
    BY <1>2, <2>3, AcmeValues DEF TypeOK, Skipped, Prepared, SetChallenge
  <2>5. pc' \in Ordering /\ pc' \notin InHand /\ pc' \in Places /\ pc \in Ordering
    BY <1>0, <1>2, ZenonT(60) DEF Skipped, Prepared, Ordering, InHand, Places
  <2> QED
    BY <1>2, <2>2, <2>4, <2>5, ZenonT(60) DEF TypeOK, setting
<1> QED
  <2>1. \A d \in order.todo : d \in Domains
    BY DEF TypeOK, Orders
  <2> QED
    BY <1>0, <1>1, <1>2, <2>1, InstalledCases, ZenonT(60) DEF Respond, Skipped, Prepared, Goto

LEMMA NextType == TypeOK /\ PairInv /\ [Next]_acmeVars => TypeOK'
<1> SUFFICES ASSUME TypeOK, PairInv, [Next]_acmeVars  PROVE TypeOK'
  OBVIOUS
<1> USE DEF setting, listening, work, Goto, Places, Ordering, InHand
<1>1. CASE Tick
  BY <1>1, AcmeConstants DEF TypeOK, Tick
<1>2. CASE Crash
  BY <1>2, CutOffType, FaultType, ExitType DEF Crash
<1>3. CASE Start
  BY <1>3 DEF TypeOK, Start
<1>4. CASE ResponderBinds
  <2>1. CASE responder' = "listening" /\ UNCHANGED << setting, pc, why, bound, live, work, faults >>
    BY <1>4, <2>1 DEF TypeOK, ResponderBinds
  <2>2. CASE Fault("ca") /\ Exit
    BY <1>4, <2>2, FaultType, ExitType DEF TypeOK, ResponderBinds
  <2> QED
    BY <1>4, <2>1, <2>2 DEF ResponderBinds
<1>5. CASE LoadCached
  <2>1. HasPair /\ IntoCertifiedKey(Cached) => Cached \in Pairs
    BY DEF TypeOK, HasPair, IntoCertifiedKey, Cached, Disks, Pairs, Certs
  <2> QED
    BY <1>5, <2>1 DEF TypeOK, LoadCached
<1>6. CASE Listen
  BY <1>6 DEF TypeOK, Listen
<1>7. CASE RenewalCheck
  BY <1>7 DEF TypeOK, RenewalCheck
<1>8. CASE GetAccount
  <2>1. config.directory \in Directories
    BY DEF TypeOK, Directories
  <2>2. CASE Fault("ca") /\ IssueFails /\ UNCHANGED disk
    BY <2>2, FaultType, IssueFailsType DEF TypeOK
  <2>3. CASE WriteFails
    BY <2>3, CutOffType, FaultType, IssueFailsType DEF WriteFails
  <2> QED
    BY <1>8, <2>1, <2>2, <2>3 DEF TypeOK, GetAccount, NoOrder, HasAccount, Disks, Orders
<1>9. CASE PlaceOrder
  <2>1. config.domains \in SUBSET Domains
    BY DEF TypeOK, Domains
  <2>2. CASE Fault("ca") /\ IssueFails
    BY <1>9, <2>2, FaultType, IssueFailsType DEF TypeOK, PlaceOrder
  <2> QED
    BY <1>9, <2>1, <2>2 DEF TypeOK, PlaceOrder, Orders, Response, Responses
<1>10. CASE Respond
  BY <1>10, RespondTurn, FaultType, IssueFailsType DEF TypeOK
<1>11. CASE SetReady
  <2>1. CASE Fault("ca") /\ IssueFails
    BY <1>11, <2>1, FaultType, IssueFailsType DEF TypeOK, SetReady
  <2> QED
    BY <1>11, <2>1 DEF TypeOK, SetReady
<1>12. CASE Finalize
  BY <1>12, FinalizeType
<1>13. CASE FinalizeFails
  <2>1. faults' \in Faults
    BY <1>13, FaultType DEF TypeOK, FinalizeFails
  <2>2. CASE Exit
    BY <1>13, <2>1, <2>2, ExitType DEF TypeOK, FinalizeFails
  <2>3. TornDown \in SUBSET Responses
    BY AcmeValues DEF TypeOK, TornDown
  <2> QED
    BY <1>13, <2>1, <2>2, <2>3 DEF TypeOK, FinalizeFails, NoOrder, Orders
<1>14. CASE WriteCert
  <2>1. CASE WriteFails
    BY <2>1, CutOffType, FaultType, IssueFailsType DEF WriteFails
  <2> QED
    BY <1>14, <2>1 DEF TypeOK, WriteCert, Disks, Pairs
<1>15. CASE WriteKey
  <2>1. CASE WriteFails
    BY <2>1, CutOffType, FaultType, IssueFailsType DEF WriteFails
  <2> QED
    BY <1>15, <2>1 DEF TypeOK, WriteKey, Disks, Pairs
<1>16. CASE Install
  BY <1>16 DEF TypeOK, Install
<1>17. CASE UNCHANGED acmeVars
  BY <1>17 DEF TypeOK, acmeVars
<1> QED
  BY <1>1, <1>2, <1>3, <1>4, <1>5, <1>6, <1>7, <1>8, <1>9, <1>10, <1>11, <1>12, <1>13, <1>14,
     <1>15, <1>16, <1>17 DEF Next, ProcessStep

-----------------------------------------------------------------------------
LEMMA PairFails == PairInv /\ (Exit \/ IssueFails) => PairInv'
  BY DEF PairInv, Exit, IssueFails, InHand

LEMMA PairStep == TypeOK /\ PairInv /\ [Next]_acmeVars => PairInv'
<1> SUFFICES ASSUME TypeOK, PairInv, [Next]_acmeVars  PROVE PairInv'
  OBVIOUS
<1> USE DEF work, Goto, InHand
<1>1. CASE Tick
  BY <1>1 DEF PairInv, Tick
<1>2. CASE Crash
  BY <1>2, PairFails DEF Crash
<1>3. CASE Start
  BY <1>3 DEF PairInv, Start
<1>4. CASE ResponderBinds
  BY <1>4, PairFails DEF PairInv, ResponderBinds
<1>5. CASE LoadCached
  BY <1>5 DEF PairInv, LoadCached, IntoCertifiedKey, Cached
<1>6. CASE Listen
  BY <1>6 DEF PairInv, Listen
<1>7. CASE RenewalCheck
  BY <1>7 DEF PairInv, RenewalCheck
<1>8. CASE GetAccount
  BY <1>8, PairFails DEF PairInv, GetAccount, WriteFails
<1>9. CASE PlaceOrder
  BY <1>9, PairFails, SMTT(60) DEF PairInv, PlaceOrder
<1>10. CASE Respond
  BY <1>10, PairFails, RespondTurn, ZenonT(60) DEF PairInv, Skipped, Prepared
<1>11. CASE SetReady
  BY <1>11, PairFails DEF PairInv, SetReady
<1>12. CASE Finalize
  BY <1>12 DEF PairInv, Finalize, IssuedCert
<1>13. CASE FinalizeFails
  BY <1>13, PairFails DEF PairInv, FinalizeFails
<1>14. CASE WriteCert
  BY <1>14, PairFails DEF PairInv, WriteCert, WriteFails
<1>15. CASE WriteKey
  BY <1>15, PairFails DEF PairInv, WriteKey, WriteFails
<1>16. CASE Install
  BY <1>16 DEF PairInv, Install
<1>17. CASE UNCHANGED acmeVars
  BY <1>17 DEF PairInv, acmeVars
<1> QED
  BY <1>1, <1>2, <1>3, <1>4, <1>5, <1>6, <1>7, <1>8, <1>9, <1>10, <1>11, <1>12, <1>13, <1>14,
     <1>15, <1>16, <1>17 DEF Next, ProcessStep

LEMMA DiskParts ==
  ASSUME NEW d \in Disks, NEW x
  PROVE  /\ [d EXCEPT !.cert = x].cert = x
         /\ [d EXCEPT !.cert = x].key = d.key /\ [d EXCEPT !.cert = x].account = d.account
         /\ [d EXCEPT !.key = x].key = x
         /\ [d EXCEPT !.key = x].cert = d.cert /\ [d EXCEPT !.key = x].account = d.account
         /\ [d EXCEPT !.account = x].account = x
         /\ [d EXCEPT !.account = x].cert = d.cert /\ [d EXCEPT !.account = x].key = d.key
  BY DEF Disks

-----------------------------------------------------------------------------
\* How the faults of one kind count.
LEMMA FaultCounts ==
  /\ TypeOK /\ Fault("ca") => faults'.disk = faults.disk /\ faults'.ca # 0
  /\ TypeOK /\ Fault("crash") => faults'.disk = faults.disk /\ faults'.ca = faults.ca
  /\ TypeOK /\ Fault("disk") => faults'.disk # 0 /\ faults'.ca = faults.ca
  BY DEF TypeOK, Fault, Faults

LEMMA CacheExit == Exit => CacheInv'
  BY DEF Exit, CacheInv, Settled, Ordering

LEMMA CacheWriteFails == TypeOK /\ CacheInv /\ WriteFails => CacheInv'
  BY FaultCounts, CacheExit DEF WriteFails, IssueFails, CacheInv

LEMMA CacheIssueFails ==
  ASSUME TypeOK, CacheInv, IssueFails, UNCHANGED disk, faults'.disk = faults.disk,
         pc \in Ordering \cup {"account", "write_cert"}
  PROVE  CacheInv'
  BY CacheExit DEF IssueFails, CacheInv, Settled, Cached

LEMMA CacheStep == TypeOK /\ CacheInv /\ [Next]_acmeVars => CacheInv'
<1> SUFFICES ASSUME TypeOK, CacheInv, [Next]_acmeVars  PROVE CacheInv'
  OBVIOUS
<1> USE DEF work, Goto, InHand, Ordering, Settled, Cached
<1>1. CASE Tick
  BY <1>1 DEF CacheInv, Tick
<1>2. CASE Crash
  BY <1>2, CacheExit DEF Crash
<1>3. CASE Start
  BY <1>3 DEF CacheInv, Start
<1>4. CASE ResponderBinds
  BY <1>4, CacheExit DEF CacheInv, ResponderBinds
<1>5. CASE LoadCached
  <2>1. HasPair /\ IntoCertifiedKey(Cached) => Cached \in Pairs
    BY DEF TypeOK, HasPair, IntoCertifiedKey, Disks, Pairs, Certs
  <2>2. HasPair /\ IntoCertifiedKey(Cached) => Cached # None
    BY <2>1, AcmeValues DEF Cached
  <2> QED
    BY <1>5, <2>2, SMTT(60) DEF CacheInv, LoadCached
<1>6. CASE Listen
  BY <1>6 DEF CacheInv, Listen
<1>7. CASE RenewalCheck
  BY <1>7 DEF CacheInv, RenewalCheck
<1>8. CASE GetAccount
  <2>1. CASE Fault("ca") /\ IssueFails /\ UNCHANGED disk
    BY <1>8, <2>1, FaultCounts, CacheIssueFails DEF GetAccount
  <2>2. CASE WriteFails
    BY <2>2, CacheWriteFails
  <2>3. disk \in Disks
    BY DEF TypeOK
  <2>4. [disk EXCEPT !.account = config.directory].cert = disk.cert
        /\ [disk EXCEPT !.account = config.directory].key = disk.key
    BY <2>3, DiskParts
  <2> QED
    BY <1>8, <2>1, <2>2, <2>4, ZenonT(60) DEF CacheInv, GetAccount
<1>9. CASE PlaceOrder
  <2>1. CASE Fault("ca") /\ IssueFails
    BY <1>9, <2>1, FaultCounts, CacheIssueFails DEF PlaceOrder
  <2> QED
    BY <1>9, <2>1 DEF CacheInv, PlaceOrder
<1>10. CASE Respond
  <2>1. CASE Fault("ca") /\ IssueFails
    BY <1>10, <2>1, FaultCounts, CacheIssueFails, RespondTurn, SMTT(60)
  <2> QED
    BY <1>10, <2>1, RespondTurn, ZenonT(60) DEF CacheInv, Skipped, Prepared
<1>11. CASE SetReady
  <2>1. CASE Fault("ca") /\ IssueFails
    BY <1>11, <2>1, FaultCounts, CacheIssueFails, SMTT(60) DEF SetReady
  <2> QED
    BY <1>11, <2>1 DEF CacheInv, SetReady
<1>12. CASE Finalize
  BY <1>12, SMTT(60) DEF CacheInv, Finalize
<1>13. CASE FinalizeFails
  BY <1>13, FaultCounts, CacheExit DEF CacheInv, FinalizeFails
<1>14. CASE WriteCert
  <2>1. CASE WriteFails
    BY <2>1, CacheWriteFails
  <2>2. [disk EXCEPT !.cert = issued.cert].cert = issued.cert
    BY DiskParts DEF TypeOK
  <2> QED
    BY <1>14, <2>1, <2>2, ZenonT(60) DEF CacheInv, WriteCert
<1>15. CASE WriteKey
  <2>1. CASE WriteFails
    BY <2>1, CacheWriteFails
  <2>2. /\ [disk EXCEPT !.key = issued.key].cert = disk.cert
        /\ [disk EXCEPT !.key = issued.key].key = issued.key
    BY DiskParts DEF TypeOK
  <2>3. issued = [cert |-> issued.cert, key |-> issued.key]
    BY <1>15 DEF TypeOK, WriteKey, Pairs
  <2> QED
    BY <1>15, <2>1, <2>2, <2>3, ZenonT(60) DEF CacheInv, WriteKey
<1>16. CASE Install
  <2>1. issued # None
    BY <1>16, AcmeValues DEF TypeOK, Install
  <2> QED
    BY <1>16, <2>1 DEF CacheInv, Install
<1>17. CASE UNCHANGED acmeVars
  BY <1>17 DEF CacheInv, acmeVars
<1> QED
  BY <1>1, <1>2, <1>3, <1>4, <1>5, <1>6, <1>7, <1>8, <1>9, <1>10, <1>11, <1>12, <1>13, <1>14,
     <1>15, <1>16, <1>17 DEF Next, ProcessStep

-----------------------------------------------------------------------------
LEMMA AnswerFails == Exit \/ IssueFails => AnswerInv'
  BY DEF Exit, IssueFails, AnswerInv

\* The loop's turn puts the response to one more challenge up, and disturbs no
\* other that the CA was told of.
LEMMA AnswerRespond ==
  ASSUME TypeOK, AnswerInv, pc = "authorize", UNCHANGED config,
         NEW d \in order.todo, Skipped(d) \/ Prepared(d)
  PROVE  AnswerInv'
<1>1. pc' \in {"authorize", "ready"}
  BY ZenonT(60) DEF Skipped, Prepared
<1>2. order \in Orders /\ d \in Domains
  BY DEF TypeOK, Orders
<1>3. CASE Skipped(d)
  <2>1. order'.active = order.active
    BY <1>2, <1>3 DEF Skipped, Orders
  <2>2. responses' = responses
    BY <1>3 DEF Skipped
  <2> QED
    BY <1>1, <2>1, <2>2, ZenonT(60) DEF AnswerInv
<1>4. CASE Prepared(d)
  <2>1. order'.active = order.active \cup {d}
    BY <1>2, <1>4 DEF Prepared, Orders
  <2>2. ASSUME NEW e \in order.active \cup {d}, config.challenge = "http-01"
        PROVE  Response(e, "current") \in responses'
    BY <1>4, <2>2 DEF AnswerInv, Prepared
  <2>3. ASSUME NEW e \in order.active \cup {d}, config.challenge = "tls-alpn-01",
               NEW r \in Responses
        PROVE  r \in responses' /\ r.domain = e <=> r = Response(e, "current")
    <3>1. responses' = {x \in responses : x.domain # d} \cup {Response(d, "current")}
      BY <1>4, <2>3 DEF Prepared, SetChallenge
    <3>2. Response(d, "current").domain = d /\ Response(e, "current").domain = e
      BY DEF Response
    <3>3. CASE e = d
      BY <3>1, <3>2, <3>3
    <3>4. CASE e # d
      <4>1. r \in responses /\ r.domain = e <=> r = Response(e, "current")
        BY <2>3, <3>4, SMTT(60) DEF AnswerInv
      <4> QED
        BY <3>1, <3>2, <3>4, <4>1
    <3> QED
      BY <3>3, <3>4
  <2> QED
    BY <1>1, <2>1, <2>2, <2>3, ZenonT(60) DEF AnswerInv
<1> QED
  BY <1>3, <1>4

LEMMA AnswerStep == TypeOK /\ AnswerInv /\ [Next]_acmeVars => AnswerInv'
<1> SUFFICES ASSUME TypeOK, AnswerInv, [Next]_acmeVars  PROVE AnswerInv'
  OBVIOUS
<1> USE DEF work, Goto, setting
<1>1. CASE Tick
  BY <1>1 DEF AnswerInv, Tick
<1>2. CASE Crash
  BY <1>2, AnswerFails DEF Crash
<1>3. CASE Start
  BY <1>3 DEF AnswerInv, Start
<1>4. CASE ResponderBinds
  BY <1>4, AnswerFails DEF AnswerInv, ResponderBinds
<1>5. CASE LoadCached
  BY <1>5 DEF AnswerInv, LoadCached
<1>6. CASE Listen
  BY <1>6 DEF AnswerInv, Listen
<1>7. CASE RenewalCheck
  BY <1>7 DEF AnswerInv, RenewalCheck
<1>8. CASE GetAccount
  BY <1>8, AnswerFails DEF AnswerInv, GetAccount, WriteFails, NoOrder
<1>9. CASE PlaceOrder
  <2>1. [order EXCEPT !.todo = config.domains].active = order.active
    BY DEF TypeOK, Orders
  <2> QED
    BY <1>9, <2>1, AnswerFails, ZenonT(60) DEF AnswerInv, PlaceOrder
<1>10. CASE Respond
  BY <1>10, RespondTurn, AnswerRespond, AnswerFails
<1>11. CASE SetReady
  BY <1>11, AnswerFails DEF AnswerInv, SetReady
<1>12. CASE Finalize
  BY <1>12 DEF AnswerInv, Finalize
<1>13. CASE FinalizeFails
  BY <1>13, AnswerFails DEF AnswerInv, FinalizeFails
<1>14. CASE WriteCert
  BY <1>14, AnswerFails DEF AnswerInv, WriteCert, WriteFails
<1>15. CASE WriteKey
  BY <1>15, AnswerFails DEF AnswerInv, WriteKey, WriteFails
<1>16. CASE Install
  BY <1>16 DEF AnswerInv, Install
<1>17. CASE UNCHANGED acmeVars
  BY <1>17 DEF AnswerInv, acmeVars
<1> QED
  BY <1>1, <1>2, <1>3, <1>4, <1>5, <1>6, <1>7, <1>8, <1>9, <1>10, <1>11, <1>12, <1>13, <1>14,
     <1>15, <1>16, <1>17 DEF Next, ProcessStep

-----------------------------------------------------------------------------
LEMMA TokenExit == Exit => TokenInv'
  BY SMTT(60) DEF Exit, TokenInv

\* A failed call leaves the responses where they are, and is on record.
LEMMA TokenCaFails == TypeOK /\ TokenInv /\ Fault("ca") /\ IssueFails => TokenInv'
  BY FaultCounts, TokenExit, SMTT(60) DEF IssueFails, TokenInv, setting

LEMMA TokenWriteFails ==
  TypeOK /\ TokenInv /\ pc \notin {"authorize", "ready"} /\ WriteFails => TokenInv'
  BY FaultCounts, TokenExit DEF WriteFails, IssueFails, TokenInv, setting

LEMMA TokenRespond ==
  ASSUME TypeOK, TokenInv, pc = "authorize", UNCHANGED << setting, faults >>,
         NEW d \in order.todo, Skipped(d) \/ Prepared(d)
  PROVE  TokenInv'
<1>1. pc' \in {"authorize", "ready"} /\ pc' # "down" /\ UNCHANGED << config, faults >>
  BY ZenonT(60) DEF Skipped, Prepared, setting
<1>2. order \in Orders /\ d \in Domains
  BY DEF TypeOK, Orders
<1>3. config.challenge \in {"http-01", "tls-alpn-01", "dns-01"}
  BY AcmeValues DEF TypeOK
<1>4. Response(d, "current").domain = d /\ Response(d, "current").age = "current"
  BY DEF Response
<1>5. CASE Skipped(d)
  <2>1. order'.active = order.active
    BY <1>2, <1>5 DEF Skipped, Orders
  <2>2. responses' = responses
    BY <1>5 DEF Skipped
  <2> QED
    BY <1>1, <2>1, <2>2, ZenonT(60) DEF TokenInv
<1>6. CASE Prepared(d)
  <2>1. order'.active = order.active \cup {d}
    BY <1>2, <1>6 DEF Prepared, Orders
  <2>2. responses' \subseteq responses \cup {Response(d, "current")}
    BY <1>3, <1>6 DEF Prepared, SetChallenge
  <2>3. config.challenge = "dns-01" => responses' = responses
    BY <1>6 DEF Prepared
  <2> QED
    BY <1>1, <1>4, <2>1, <2>2, <2>3, ZenonT(60) DEF TokenInv
<1> QED
  BY <1>5, <1>6

\* The teardown takes every response of the order down.
LEMMA TokenTornDown ==
  ASSUME TypeOK, TokenInv
  PROVE  /\ config.challenge = "dns-01" => TornDown = {}
         /\ faults.ca = 0 => TornDown = {}
<1>1. config.challenge \in {"http-01", "tls-alpn-01", "dns-01"}
  BY AcmeValues DEF TypeOK
<1>2. CASE config.challenge = "dns-01"
  BY <1>2 DEF TornDown, TokenInv
<1>3. CASE config.challenge = "tls-alpn-01"
  BY <1>3 DEF TornDown, TokenInv
<1>4. CASE config.challenge = "http-01"
  <2>1. \A r \in responses : r.age = "current" => r = Response(r.domain, "current")
    BY DEF TypeOK, Responses, Response
  <2>2. TornDown = responses \ {Response(d, "current") : d \in order.active}
    BY <1>4, SMTT(60) DEF TornDown
  <2> QED
    BY <1>4, <2>1, <2>2 DEF TokenInv
<1> QED
  BY <1>1, <1>2, <1>3, <1>4

LEMMA TokenStep == TypeOK /\ TokenInv /\ [Next]_acmeVars => TokenInv'
<1> SUFFICES ASSUME TypeOK, TokenInv, [Next]_acmeVars  PROVE TokenInv'
  OBVIOUS
<1> USE DEF work, Goto, setting
<1>1. CASE Tick
  BY <1>1 DEF TokenInv, Tick
<1>2. CASE Crash
  BY <1>2, TokenExit DEF Crash
<1>3. CASE Start
  BY <1>3 DEF TokenInv, Start
<1>4. CASE ResponderBinds
  BY <1>4, TokenExit DEF TokenInv, ResponderBinds
<1>5. CASE LoadCached
  BY <1>5 DEF TokenInv, LoadCached
<1>6. CASE Listen
  BY <1>6 DEF TokenInv, Listen
<1>7. CASE RenewalCheck
  BY <1>7 DEF TokenInv, RenewalCheck
<1>8. CASE GetAccount
  <2>1. CASE Fault("ca") /\ IssueFails
    BY <2>1, TokenCaFails
  <2>2. CASE WriteFails
    BY <1>8, <2>2, TokenWriteFails DEF GetAccount
  <2> QED
    BY <1>8, <2>1, <2>2 DEF TokenInv, GetAccount
<1>9. CASE PlaceOrder
  <2>1. CASE Fault("ca") /\ IssueFails
    BY <2>1, TokenCaFails
  <2> QED
    BY <1>9, <2>1, SMTT(60) DEF TokenInv, PlaceOrder
<1>10. CASE Respond
  BY <1>10, RespondTurn, TokenRespond, TokenCaFails, SMTT(60)
<1>11. CASE SetReady
  BY <1>11, TokenCaFails, SMTT(60) DEF TokenInv, SetReady
<1>12. CASE Finalize
  BY <1>12, TokenTornDown, SMTT(60) DEF TokenInv, Finalize
<1>13. CASE FinalizeFails
  BY <1>13, TokenTornDown, TokenExit, FaultCounts DEF TokenInv, FinalizeFails
<1>14. CASE WriteCert
  BY <1>14, TokenWriteFails DEF TokenInv, WriteCert
<1>15. CASE WriteKey
  BY <1>15, TokenWriteFails DEF TokenInv, WriteKey
<1>16. CASE Install
  BY <1>16 DEF TokenInv, Install
<1>17. CASE UNCHANGED acmeVars
  BY <1>17 DEF TokenInv, acmeVars
<1> QED
  BY <1>1, <1>2, <1>3, <1>4, <1>5, <1>6, <1>7, <1>8, <1>9, <1>10, <1>11, <1>12, <1>13, <1>14,
     <1>15, <1>16, <1>17 DEF Next, ProcessStep

-----------------------------------------------------------------------------
LEMMA InitAcme == Init => AcmeInv
<1> SUFFICES ASSUME Init  PROVE AcmeInv
  BY ZenonT(60)
<1>1. TypeOK
  <2>1. disk \in Disks /\ order \in Orders
    BY SMTT(60) DEF Init, Disks, Orders, NoOrder
  <2>2. now \in 0..MaxNow /\ faults \in Faults
    BY AcmeConstants, SMTT(60) DEF Init, Faults
  <2> QED
    BY <2>1, <2>2, SMTT(60) DEF Init, TypeOK, Places, Ordering, InHand
<1>2. PairInv /\ CacheInv
  BY AcmeValues, ZenonT(60) DEF Init, PairInv, CacheInv, Settled, Ordering, InHand
<1>3. AnswerInv /\ TokenInv
  BY ZenonT(60) DEF Init, AnswerInv, TokenInv
<1> QED
  BY <1>1, <1>2, <1>3, ZenonT(60) DEF AcmeInv

\* The inductive invariant of the certificate's life.
LEMMA AcmeInvariant == Spec => []AcmeInv
<1>1. AcmeInv /\ [Next]_acmeVars => AcmeInv'
  BY NextType, PairStep, CacheStep, AnswerStep, TokenStep, ZenonT(60) DEF AcmeInv
<1> QED
  BY <1>1, InitAcme, PTL DEF Spec

\* AcmeResolver::resolve shows a certificate with its own key, at whatever point
\* of store_cert's two writes crashes and failed writes have stopped the process
\* before.
THEOREM ServedPairIsMatched == Spec => []ServedPairMatches
<1>1. AcmeInv => ServedPairMatches
  BY DEF AcmeInv, PairInv, ServedPairMatches, Resolve
<1> QED
  BY <1>1, AcmeInvariant, PTL

\* renewal_loop, which judges the certificate in the cache, judges the one that
\* is served, unless a write to the cache has failed.
THEOREM LoopIsRightAboutLive == Spec => []LoopJudgesLive
<1>1. AcmeInv => LoopJudgesLive
  <2> SUFFICES ASSUME AcmeInv, HasCache, faults.disk = 0, pc = "idle"
               PROVE  RenewalDue <=> NeedsRenewal(live.cert)
    BY DEF LoopJudgesLive
  <2>1. live \in Pairs /\ Cached = live
    BY DEF AcmeInv, TypeOK, CacheInv, Settled
  <2>2. /\ disk.cert = live.cert /\ live.cert \in Certs
        /\ disk.key = live.key /\ live.key \in Serials
    BY <2>1 DEF Cached, Pairs
  <2>3. live # None /\ HasPair
    BY <2>1, <2>2, AcmeValues DEF HasPair
  <2> QED
    BY <2>2, <2>3 DEF RenewalDue
<1> QED
  BY <1>1, AcmeInvariant, PTL

\* set_challenge and the token store: whatever failed orders have left behind,
\* the response of this order is the one the CA is shown.
THEOREM OrderAnswersItself == Spec => []ChallengesAnswered
<1>1. AcmeInv => ChallengesAnswered
  <2> SUFFICES ASSUME AcmeInv, pc = "authorize", NEW d \in order.active
               PROVE  Answered(d)
    BY DEF ChallengesAnswered
  <2>1. config.challenge \in {"http-01", "tls-alpn-01", "dns-01"}
    BY AcmeValues DEF AcmeInv, TypeOK
  <2>2. CASE config.challenge = "http-01"
    BY <2>2 DEF AcmeInv, AnswerInv, Answered
  <2>3. CASE config.challenge = "tls-alpn-01"
    <3> DEFINE held == {r \in responses : r.domain = d}
    <3>1. d \in Domains /\ Response(d, "current") \in Responses
      BY SMTT(60) DEF AcmeInv, TypeOK, Orders, Response, Responses
    <3>2. responses \subseteq Responses
      BY DEF AcmeInv, TypeOK
    <3>3. \A r \in Responses : r \in responses /\ r.domain = d <=> r = Response(d, "current")
      BY <2>3 DEF AcmeInv, AnswerInv
    <3>4. held = {Response(d, "current")}
      BY <3>1, <3>2, <3>3
    <3>5. Resolve(d, "acme-tls/1") = Response(d, "current")
      BY <3>4 DEF Resolve
    <3> QED
      BY <2>3, <3>5 DEF Answered
  <2>4. CASE config.challenge = "dns-01"
    BY <2>4 DEF Answered
  <2> QED
    BY <2>1, <2>2, <2>3, <2>4
<1> QED
  BY <1>1, AcmeInvariant, PTL

\* The teardown loops of issue: without a failed call nothing an order put up
\* outlives it.
THEOREM TeardownIsComplete == Spec => []NothingLeftInstalled
<1>1. AcmeInv => NothingLeftInstalled
  BY DEF AcmeInv, TokenInv, NothingLeftInstalled
<1> QED
  BY <1>1, AcmeInvariant, PTL
=============================================================================
