----------------------------- MODULE DnsProofs -----------------------------
(***************************************************************************)
(* The theorems about DNS-01: for every set of domains, every account and  *)
(* any number of orders, faults, crashes and zone changes, what the CA is  *)
(* told of is published where it looks, and only disturbed orders and      *)
(* those left to the operator leave records behind.                        *)
(***************************************************************************)
EXTENDS DnsProvider, TLAPS

\* A zone's id names the zone, so no two zones share one.
ZoneId == ZoneNames \X Nat
RecordNames == {DnsRecordName(d) : d \in Domains}
RecordValues == Domains \X Nat
RecordIds == Domains \X Nat
TxtRecords == [id : RecordIds, zone : ZoneId \cup {None}, name : RecordNames, value : RecordValues]
Entries == [name : RecordNames, value : RecordValues, id : RecordIds]
Jobs ==
  [op : {"none", "publish", "cleanup"}, name : RecordNames \cup {<<>>},
   value : RecordValues \cup {None}, at : Nat \ {0}, zone : ZoneId \cup {None},
   id : RecordIds \cup {None}]

TypeOK ==
  /\ kind \in {"cloudflare", "manual"}
  /\ zoneId \in ZoneId \cup {None}
  /\ zones \in [ZoneNames -> ZoneId \cup {None}]
  /\ zoneCache \in [ZoneNames -> ZoneId \cup {None}]
  /\ dns \subseteq TxtRecords
  /\ records \subseteq Entries
  /\ pending \in [Domains -> Nat]
  /\ todo \subseteq Domains
  /\ active \in Seq([name : RecordNames, value : RecordValues])
  /\ pc \in {"idle", "authorize", "zone", "create", "hook", "ready", "cleanup", "delete"}
  /\ job \in Jobs
  /\ orders \in Nat
  /\ used \in [faults : Nat, crashes : Nat, zones : Nat]

\* A zone has an id of its own, in the account and in the cache.
ZoneInv ==
  \A z \in ZoneNames :
    /\ zones[z] # None => zones[z][1] = z
    /\ zoneCache[z] # None => zoneCache[z][1] = z

\* The id of a record tells whose it is, and so does its value.
OwnersInv ==
  /\ \A r \in dns : r.id[1] = r.value[1]
  /\ \A e, f \in records : << e.name, e.value >> = << f.name, f.value >> => e = f

\* Where issue() is tells what it works on.
JobInv ==
  /\ pc \in {"idle", "authorize", "cleanup"} => job.op = "none"
  /\ pc \in {"create", "hook", "ready"} => job.op = "publish"
  /\ pc = "delete" => job.op = "cleanup"
  /\ pc = "zone" => job.op \in {"publish", "cleanup"}
  /\ pc \in {"zone", "create", "delete"} => kind = "cloudflare"
  /\ pc = "hook" => kind = "manual"
  /\ job.op # "none" => job.name \in RecordNames /\ job.value \in RecordValues
                        /\ job.id \in RecordIds
  /\ job.op = "publish" => job.id = << job.value[1], orders >>

Undisturbed == orders \notin blemished

\* Neither the cache nor the account knows a zone of the name before the n-th
\* candidate.
NothingBefore(name, n) ==
  \A i \in 1..n - 1 : LET z == ZoneCandidates(name)[i] IN
    ~Known(zoneCache, z) /\ ~Known(zones, z)

\* The walk over the candidates ends at this zone.
ResolvesTo(name, zone) ==
  \E n \in 1..Len(name) : LET z == ZoneCandidates(name)[n] IN
    /\ NothingBefore(name, n)
    /\ \/ Known(zoneCache, z) /\ zone = zoneCache[z]
       \/ ~Known(zoneCache, z) /\ Known(zones, z) /\ zone = zones[z]

\* What resolve_zone_id answers, the configured id or the end of the walk.
IsZoneOf(name, zone) ==
  \/ zoneId # None /\ zone = zoneId
  \/ zoneId = None /\ ResolvesTo(name, zone)

\* While an order is undisturbed, the walk under way and the zones it found
\* are what the walk would find again.
WalkInv ==
  Undisturbed =>
    /\ pc = "zone" /\ zoneId = None => NothingBefore(job.name, job.at)
    /\ pc \in {"create", "delete"} => IsZoneOf(job.name, job.zone)
    /\ kind = "cloudflare" =>
         \A r \in dns : r.id[2] \notin blemished => IsZoneOf(r.name, r.zone)

\* The teardown will come to the record: it is in active_dns, for Cloudflare
\* with its id in the map, or it is the one being removed.
Covered(r) ==
  \/ /\ \E i \in DOMAIN active : active[i] = [name |-> r.name, value |-> r.value]
     /\ kind = "cloudflare" => [name |-> r.name, value |-> r.value, id |-> r.id] \in records
  \/ /\ kind = "cloudflare" /\ job.op = "cleanup"
     /\ job.id = r.id /\ job.name = r.name

\* A record of an order that was not disturbed is one of the order under way,
\* and its teardown is still to come.
CoverInv ==
  \A r \in dns : r.id[2] \notin blemished =>
    r.id[2] = orders /\ pc # "idle" /\ Covered(r)

\* issue() is in its loop over the authorizations.
Publishing == pc \in {"authorize", "hook", "create", "ready"} \/ (pc = "zone" /\ job.op = "publish")

\* ReadyIsPublished, all through the loop.
PublishedInv ==
  Publishing /\ zoneId = None /\ Undisturbed =>
    \A i \in DOMAIN active :
      \E r \in dns : /\ r.name = active[i].name /\ r.value = active[i].value
                     /\ r.zone = Authoritative(r.name)

DnsInv == TypeOK /\ ZoneInv /\ OwnersInv /\ JobInv /\ WalkInv /\ CoverInv /\ PublishedInv

-----------------------------------------------------------------------------
(***************************************************************************)
(* Types.                                                                  *)
(***************************************************************************)

LEMMA NoJobType == NoJob \in Jobs /\ NoJob.op = "none"
  BY DEF NoJob, Jobs

LEMMA InitType == Init => TypeOK
<1> SUFFICES ASSUME Init PROVE TypeOK
  BY ZenonT(60)
<1>1. PICK present \in SUBSET ZoneNames :
        /\ zones = [z \in ZoneNames |-> IF z \in present THEN << z, 0 >> ELSE None]
        /\ zoneId \in {None} \cup {zones[z] : z \in present}
  BY ZenonT(60) DEF Init
<1>2. zones \in [ZoneNames -> ZoneId \cup {None}]
  BY <1>1, ZenonT(60) DEF ZoneId
<1>3. zoneId \in ZoneId \cup {None}
  BY <1>1, <1>2, ZenonT(60)
<1>4. /\ zoneCache \in [ZoneNames -> ZoneId \cup {None}] /\ pending \in [Domains -> Nat]
      /\ used \in [faults : Nat, crashes : Nat, zones : Nat]
  BY ZenonT(60) DEF Init
<1>5. /\ dns = {} /\ records = {} /\ todo = {} /\ active = <<>> /\ pc = "idle"
      /\ job = NoJob /\ orders = 0 /\ kind \in {"cloudflare", "manual"}
  BY DnsConstants, ZenonT(60) DEF Init
<1> QED
  BY <1>2, <1>3, <1>4, <1>5, NoJobType DEF TypeOK

\* What a record of the job under way looks like.
LEMMA JobRecords ==
  ASSUME TypeOK, JobInv, job.op # "none"
  PROVE  /\ TxtRecord \in TxtRecords /\ Entry \in Entries
         /\ [TxtRecord EXCEPT !.zone = Authoritative(job.name)] \in
              [id : {job.id}, zone : {Authoritative(job.name)}, name : {job.name}, value : {job.value}]
         /\ [name |-> job.name, value |-> job.value] \in [name : RecordNames, value : RecordValues]
<1>1. job.name \in RecordNames /\ job.value \in RecordValues /\ job.id \in RecordIds
  BY ZenonT(60) DEF JobInv
<1>2. job.zone \in ZoneId \cup {None}
  BY ZenonT(60) DEF TypeOK, Jobs
<1> QED
  BY <1>1, <1>2, ZenonT(60) DEF TxtRecord, Entry, TxtRecords, Entries

INSTANCE WellFoundedInduction

\* Numbers have a least one among them.
LEMMA LeastElement ==
  ASSUME NEW T \in SUBSET Nat, T # {}
  PROVE  \E n \in T : \A m \in T : n <= m
<1> DEFINE R == OpToRel(<, Nat)
<1>1. \A x, y \in Nat : << x, y >> \in R <=> x < y
  BY ZenonT(60) DEF OpToRel
<1>2. IsWellFoundedOn(R, Nat)
  BY NatLessThanWellFounded, ZenonT(60)
<1> HIDE DEF R
<1>3. \E x \in T : \A y \in T : ~(<< y, x >> \in R)
  BY <1>2, WFMin, ZenonT(60)
<1>4. \A x \in T : x \in Nat
  BY ZenonT(60)
<1>5. \A x, y \in T : ~(<< y, x >> \in R) => x <= y
  BY <1>1, <1>4
<1> QED
  BY <1>3, <1>5, ZenonT(60)

\* The places of the zones that a name has in the account.
ZonesOf(name) ==
  {i \in 1..Len(name) : ZoneCandidates(name)[i] \in ZoneNames
                         /\ zones[ZoneCandidates(name)[i]] # None}

\* The zone that answers for a name is the first of these.
LEMMA AuthoritativeIsFirst ==
  ASSUME NEW name \in RecordNames
  PROVE  \/ ZonesOf(name) = {} /\ Authoritative(name) = None
         \/ \E i \in ZonesOf(name) : /\ \A j \in ZonesOf(name) : i <= j
                                     /\ Authoritative(name) = zones[ZoneCandidates(name)[i]]
<1>1. Len(name) \in Nat
  BY DnsConstants DEF RecordNames, DnsRecordName
<1>2. ZonesOf(name) \in SUBSET Nat
  BY <1>1 DEF ZonesOf
<1>3. ZonesOf(name) # {} => \E i \in ZonesOf(name) : \A j \in ZonesOf(name) : i <= j
  BY <1>2, LeastElement, ZenonT(60)
<1>4. Authoritative(name) =
        IF ZonesOf(name) = {} THEN None
        ELSE zones[ZoneCandidates(name)[CHOOSE i \in ZonesOf(name) : \A j \in ZonesOf(name) : i <= j]]
  BY ZenonT(60) DEF Authoritative, ZonesOf
<1> QED
  BY <1>3, <1>4, ZenonT(60)

LEMMA AuthoritativeType ==
  ASSUME TypeOK, NEW name \in RecordNames
  PROVE  Authoritative(name) \in ZoneId \cup {None}
<1>1. \A i \in ZonesOf(name) : zones[ZoneCandidates(name)[i]] \in ZoneId \cup {None}
  BY ZenonT(60) DEF TypeOK, ZonesOf
<1> QED
  BY <1>1, AuthoritativeIsFirst, ZenonT(60)

\* The parts of TypeOK: the account, the provider's maps, issue()'s variables.
EnvType ==
  /\ kind \in {"cloudflare", "manual"}
  /\ zoneId \in ZoneId \cup {None}
  /\ zones \in [ZoneNames -> ZoneId \cup {None}]
  /\ dns \subseteq TxtRecords
  /\ pending \in [Domains -> Nat]
ProviderType ==
  /\ zoneCache \in [ZoneNames -> ZoneId \cup {None}]
  /\ records \subseteq Entries
IssueType ==
  /\ todo \subseteq Domains
  /\ active \in Seq([name : RecordNames, value : RecordValues])
  /\ pc \in {"idle", "authorize", "zone", "create", "hook", "ready", "cleanup", "delete"}
  /\ job \in Jobs
  /\ orders \in Nat
UsedType == used \in [faults : Nat, crashes : Nat, zones : Nat]

LEMMA TypeParts ==
  /\ TypeOK <=> EnvType /\ ProviderType /\ IssueType /\ UsedType
  /\ TypeOK' <=> EnvType' /\ ProviderType' /\ IssueType' /\ UsedType'
  BY ZenonT(60) DEF TypeOK, EnvType, ProviderType, IssueType, UsedType

LEMMA ReturnType == IssueType /\ Return => IssueType'
  BY NoJobType DEF IssueType, Return

LEMMA FaultType == UsedType /\ Fault => UsedType'
  BY DEF UsedType, Fault

LEMMA GiveUpType == IssueType /\ GiveUp => IssueType'
  BY NoJobType, ReturnType, ZenonT(60) DEF IssueType, GiveUp, Goto

LEMMA FoundType ==
  ASSUME IssueType, NEW zone \in ZoneId \cup {None}, Found(zone)
  PROVE  IssueType'
<1>1. job' \in Jobs
  BY ZenonT(60) DEF Found, IssueType, Jobs
<1> QED
  BY <1>1, ZenonT(60) DEF Found, IssueType, Goto

LEMMA AuthorizeType ==
  ASSUME TypeOK, Authorize PROVE TypeOK'
<1>0. EnvType /\ ProviderType /\ IssueType /\ UsedType
  BY TypeParts, ZenonT(60)
<1>1. ProviderType' /\ zones' = zones /\ zoneId' = zoneId /\ kind' = kind /\ dns' = dns
  BY <1>0, ZenonT(60) DEF Authorize, ProviderType, providerVars
<1>2. CASE Fault /\ Return /\ UNCHANGED pending
  BY <1>0, <1>1, <1>2, ReturnType, FaultType, TypeParts, ZenonT(60) DEF EnvType
<1>3. ASSUME NEW d \in todo, todo' = todo \ {d}, UNCHANGED << active, orders, auxVars >>,
             UNCHANGED << pc, job, pending >>
      PROVE  TypeOK'
  BY <1>0, <1>1, <1>3, TypeParts, ZenonT(60) DEF EnvType, IssueType, UsedType, auxVars
<1>4. ASSUME NEW d \in todo, todo' = todo \ {d}, UNCHANGED << active, orders, auxVars >>,
             NEW token \in {orders} \cup ({pending[d]} \ {0}),
             pending' = [pending EXCEPT ![d] = token],
             job' = [NoJob EXCEPT !.op = "publish", !.name = DnsRecordName(d),
                                  !.value = Value(d, token), !.id = << d, orders >>],
             Goto(IF kind = "manual" THEN "hook" ELSE "zone")
      PROVE  TypeOK'
  <2>1. d \in Domains /\ token \in Nat /\ orders \in Nat
    BY <1>0, ZenonT(60) DEF EnvType, IssueType
  <2>2. DnsRecordName(d) \in RecordNames /\ Value(d, token) \in RecordValues
        /\ << d, orders >> \in RecordIds
    BY <2>1, ZenonT(60) DEF RecordNames, RecordValues, RecordIds, Value
  <2>3. job' \in Jobs
    BY <2>2, <1>4, NoJobType, ZenonT(60) DEF Jobs
  <2>4. EnvType'
    BY <1>0, <1>1, <1>4, <2>1, ZenonT(60) DEF EnvType
  <2>5. IssueType' /\ UsedType'
    BY <1>0, <1>4, <2>3, ZenonT(60) DEF IssueType, UsedType, auxVars, Goto
  <2> QED
    BY <1>1, <2>4, <2>5, TypeParts, ZenonT(60)
<1> QED
  BY <1>2, <1>3, <1>4, ZenonT(60) DEF Authorize

LEMMA ResolveType ==
  ASSUME TypeOK, ResolveZoneId PROVE TypeOK'
<1>0. EnvType /\ ProviderType /\ IssueType /\ UsedType
  BY TypeParts, ZenonT(60)
<1>1. EnvType' /\ records' = records
  BY <1>0, ZenonT(60) DEF ResolveZoneId, EnvType, envVars
<1>2. CASE zoneId # None /\ Found(zoneId) /\ UNCHANGED << zoneCache, auxVars >>
  <2>1. IssueType'
    BY <1>0, <1>2, FoundType, ZenonT(60) DEF EnvType
  <2> QED
    BY <1>0, <1>1, <1>2, <2>1, TypeParts, ZenonT(60) DEF ProviderType, UsedType, auxVars
<1>3. CASE LookUp
  <2>1. ASSUME Known(zoneCache, Candidate), Found(zoneCache[Candidate]),
               UNCHANGED << zoneCache, auxVars >>
        PROVE  TypeOK'
    <3>1. zoneCache[Candidate] \in ZoneId \cup {None}
      BY <2>1, <1>0, ZenonT(60) DEF Known, ProviderType
    <3>2. IssueType'
      BY <1>0, <2>1, <3>1, FoundType, ZenonT(60)
    <3> QED
      BY <1>0, <1>1, <2>1, <3>2, TypeParts, ZenonT(60) DEF ProviderType, UsedType, auxVars
  <2>2. ASSUME Known(zones, Candidate), Found(zones[Candidate]), UNCHANGED auxVars,
               zoneCache' = [zoneCache EXCEPT ![Candidate] = zones[Candidate]]
        PROVE  TypeOK'
    <3>1. zones[Candidate] \in ZoneId \cup {None}
      BY <2>2, <1>0, ZenonT(60) DEF Known, EnvType
    <3>2. IssueType'
      BY <1>0, <2>2, <3>1, FoundType, ZenonT(60)
    <3>3. ProviderType'
      BY <1>0, <1>1, <2>2, <3>1, ZenonT(60) DEF ProviderType
    <3> QED
      BY <1>0, <1>1, <2>2, <3>2, <3>3, TypeParts, ZenonT(60) DEF UsedType, auxVars
  <2>3. ASSUME job' = [job EXCEPT !.at = @ + 1],
               UNCHANGED << pc, todo, active, orders, zoneCache, auxVars >>
        PROVE  TypeOK'
    <3>1. job' \in Jobs
      BY <2>3, <1>0 DEF IssueType, Jobs
    <3>2. IssueType'
      BY <1>0, <2>3, <3>1, ZenonT(60) DEF IssueType
    <3> QED
      BY <1>0, <1>1, <2>3, <3>2, TypeParts, ZenonT(60) DEF ProviderType, UsedType, auxVars
  <2>4. ASSUME GiveUp, UNCHANGED zoneCache, Fault \/ UNCHANGED used
        PROVE  TypeOK'
    <3>1. ProviderType' /\ UsedType'
      BY <1>0, <1>1, <2>4, FaultType, ZenonT(60) DEF ProviderType, UsedType
    <3> QED
      BY <1>0, <1>1, <2>4, <3>1, GiveUpType, TypeParts, ZenonT(60)
  <2> QED
    BY <1>3, <2>1, <2>2, <2>3, <2>4, ZenonT(60) DEF LookUp
<1> QED
  BY <1>2, <1>3, ZenonT(60) DEF ResolveZoneId

LEMMA PublishedType ==
  ASSUME TypeOK, JobInv, job.op # "none", Published
  PROVE  IssueType'
<1>1. active' \in Seq([name : RecordNames, value : RecordValues])
  BY JobRecords DEF Published, TypeOK
<1> QED
  BY <1>1, ZenonT(60) DEF Published, Goto, IssueType, TypeOK

LEMMA CreateType ==
  ASSUME TypeOK, JobInv, CreateRecord PROVE TypeOK'
<1>0. EnvType /\ ProviderType /\ IssueType /\ UsedType
  BY TypeParts, ZenonT(60)
<1>1. job.op # "none"
  BY ZenonT(60) DEF CreateRecord, JobInv
<1>2. TxtRecord \in TxtRecords /\ Entry \in Entries
  BY <1>1, JobRecords, ZenonT(60)
<1>3. kind' = kind /\ zoneId' = zoneId /\ zones' = zones /\ pending' = pending /\ zoneCache' = zoneCache
  BY ZenonT(60) DEF CreateRecord
<1>4. dns' \subseteq TxtRecords
  BY <1>0, <1>2, ZenonT(60) DEF CreateRecord, EnvType
<1>5. EnvType'
  BY <1>0, <1>3, <1>4, ZenonT(60) DEF EnvType
<1>6. CASE ZoneThere /\ dns' = dns \cup {TxtRecord} /\ Track /\ Published /\ UNCHANGED auxVars
  <2>1. ProviderType'
    BY <1>0, <1>2, <1>3, <1>6, ZenonT(60) DEF ProviderType, Track
  <2> QED
    BY <1>0, <1>1, <1>5, <1>6, <2>1, PublishedType, TypeParts, ZenonT(60) DEF UsedType, auxVars
<1>7. CASE Return /\ UNCHANGED << records, used >>
  BY <1>0, <1>3, <1>5, <1>7, ReturnType, TypeParts, ZenonT(60) DEF ProviderType, UsedType
<1>8. CASE Fault /\ Return /\ UNCHANGED records
  <2>1. ProviderType'
    BY <1>0, <1>3, <1>8, ZenonT(60) DEF ProviderType
  <2> QED
    BY <1>0, <1>5, <1>8, <2>1, ReturnType, FaultType, TypeParts, ZenonT(60)
<1> QED
  BY <1>6, <1>7, <1>8, ZenonT(60) DEF CreateRecord

LEMMA HookType ==
  ASSUME TypeOK, JobInv, PublishHook PROVE TypeOK'
<1> DEFINE record == [TxtRecord EXCEPT !.zone = Authoritative(job.name)]
<1>0. EnvType /\ ProviderType /\ IssueType /\ UsedType
  BY TypeParts, ZenonT(60)
<1>1. job.op # "none" /\ job.name \in RecordNames
  BY ZenonT(60) DEF PublishHook, JobInv
<1>2. record \in TxtRecords
  BY <1>1, JobRecords, AuthoritativeType, ZenonT(60) DEF TxtRecords
<1>3. /\ kind' = kind /\ zoneId' = zoneId /\ zones' = zones /\ pending' = pending
      /\ ProviderType'
  BY <1>0, ZenonT(60) DEF PublishHook, providerVars, ProviderType
<1>4. dns' \in {dns, dns \cup {record}}
  BY ZenonT(60) DEF PublishHook
<1> HIDE DEF record
<1>5. EnvType'
  BY <1>0, <1>2, <1>3, <1>4, ZenonT(60) DEF EnvType
<1>6. CASE Published /\ UNCHANGED used
  BY <1>0, <1>1, <1>3, <1>5, <1>6, PublishedType, TypeParts, ZenonT(60) DEF UsedType
<1>7. CASE Fault /\ Return
  BY <1>0, <1>3, <1>5, <1>7, ReturnType, FaultType, TypeParts, ZenonT(60)
<1> QED
  BY <1>6, <1>7, ZenonT(60) DEF PublishHook, LeftToOperator, auxVars

\* The entries of the record that the teardown loop is at.
HeadEntries ==
  {e \in records : << e.name, e.value >> = << Head(active).name, Head(active).value >>}

\* The three turns of the teardown loop: none is left, manual, Cloudflare.
TeardownEnds == active = <<>> /\ Return /\ UNCHANGED << dns, records, auxVars >>
HookRemoves ==
  /\ active # <<>> /\ kind = "manual"
  /\ active' = Tail(active)
  /\ \/ /\ dns' = {r \in dns : << r.name, r.value >> # << Head(active).name, Head(active).value >>}
        /\ UNCHANGED auxVars
     \/ (Fault \/ LeftToOperator) /\ UNCHANGED dns
  /\ UNCHANGED << records, todo, pc, job, orders >>
TakeEntry ==
  /\ active # <<>> /\ kind = "cloudflare"
  /\ active' = Tail(active)
  /\ records' = records \ HeadEntries
  /\ job' \in IF HeadEntries = {} THEN {NoJob}
             ELSE {[NoJob EXCEPT !.op = "cleanup", !.name = e.name,
                                 !.value = e.value, !.id = e.id] : e \in HeadEntries}
  /\ Goto(IF HeadEntries = {} THEN "cleanup" ELSE "zone")
  /\ UNCHANGED << dns, todo, orders, auxVars >>

LEMMA CleanUpTurns ==
  CleanUp => /\ TeardownEnds \/ HookRemoves \/ TakeEntry
             /\ pc = "cleanup"
             /\ UNCHANGED << kind, hooks, zoneId, zones, pending, zoneCache >>
  BY ZenonT(60) DEF CleanUp, TeardownEnds, HookRemoves, TakeEntry, HeadEntries

LEMMA CleanUpType ==
  ASSUME TypeOK, CleanUp PROVE TypeOK'
<1>0. EnvType /\ ProviderType /\ IssueType /\ UsedType
  BY TypeParts, ZenonT(60)
<1>1. kind' = kind /\ zoneId' = zoneId /\ zones' = zones /\ pending' = pending /\ zoneCache' = zoneCache
  BY CleanUpTurns, ZenonT(60)
<1>2. active # <<>> => Tail(active) \in Seq([name : RecordNames, value : RecordValues])
  BY <1>0 DEF IssueType
<1>3. CASE TeardownEnds
  BY <1>0, <1>1, <1>3, ReturnType, TypeParts, ZenonT(60)
  DEF TeardownEnds, EnvType, ProviderType, UsedType, auxVars
<1>4. CASE HookRemoves
  <2>1. UsedType'
    BY <1>0, <1>4, FaultType, ZenonT(60) DEF HookRemoves, LeftToOperator, UsedType, auxVars
  <2>2. EnvType'
    BY <1>0, <1>1, <1>4, ZenonT(60) DEF HookRemoves, EnvType
  <2> QED
    BY <1>0, <1>1, <1>2, <1>4, <2>1, <2>2, TypeParts, ZenonT(60) DEF HookRemoves, ProviderType, IssueType
<1>5. CASE TakeEntry
  <2>1. HeadEntries \subseteq Entries
    BY <1>0, ZenonT(60) DEF HeadEntries, ProviderType
  <2>2. \A e \in HeadEntries : [NoJob EXCEPT !.op = "cleanup", !.name = e.name,
                                             !.value = e.value, !.id = e.id] \in Jobs
    BY <2>1, NoJobType, ZenonT(60) DEF Entries, Jobs
  <2>3. job' \in Jobs
    BY <1>5, <2>2, NoJobType, ZenonT(60) DEF TakeEntry
  <2>4. EnvType' /\ ProviderType' /\ UsedType'
    BY <1>0, <1>1, <1>5, ZenonT(60) DEF TakeEntry, EnvType, ProviderType, UsedType, auxVars
  <2>5. IssueType'
    BY <1>0, <1>2, <1>5, <2>3, ZenonT(60) DEF TakeEntry, IssueType, Goto
  <2> QED
    BY <2>4, <2>5, TypeParts, ZenonT(60)
<1> QED
  BY <1>3, <1>4, <1>5, CleanUpTurns, ZenonT(60)

LEMMA ZoneChangeType ==
  ASSUME TypeOK, ZoneChange PROVE TypeOK'
<1>0. EnvType /\ ProviderType /\ IssueType /\ UsedType
  BY TypeParts, ZenonT(60)
<1>1. /\ kind' = kind /\ zoneId' = zoneId /\ pending' = pending
      /\ ProviderType' /\ IssueType' /\ UsedType'
  BY <1>0 DEF ZoneChange, providerVars, issueVars, ProviderType, IssueType, UsedType
<1>2. PICK z \in ZoneNames :
        \/ zones' = [zones EXCEPT ![z] = << z, used.zones + 1 >>] /\ UNCHANGED dns
        \/ zones' = [zones EXCEPT ![z] = None] /\ dns' = {r \in dns : r.zone # zones[z]}
  BY ZenonT(60) DEF ZoneChange
<1>3. << z, used.zones + 1 >> \in ZoneId
  BY <1>0 DEF ZoneId, UsedType
<1>4. EnvType'
  BY <1>0, <1>1, <1>2, <1>3, ZenonT(60) DEF EnvType
<1> QED
  BY <1>1, <1>4, TypeParts, ZenonT(60)

\* Every step keeps the types.
LEMMA TypeStep ==
  ASSUME TypeOK, JobInv, [Next]_dnsVars PROVE TypeOK'
<1>0. EnvType /\ ProviderType /\ IssueType /\ UsedType
  BY TypeParts, ZenonT(60)
<1>1. CASE PlaceOrder
  BY <1>0, <1>1, NoJobType, TypeParts
  DEF PlaceOrder, EnvType, ProviderType, IssueType, UsedType, envVars, providerVars, auxVars, Goto
<1>2. CASE Crash
  <2>1. EnvType' /\ ProviderType' /\ UsedType' /\ Return
    BY <1>0, <1>2 DEF Crash, EnvType, ProviderType, UsedType, envVars
  <2> QED
    BY <1>0, <2>1, ReturnType, TypeParts, ZenonT(60)
<1>3. CASE SetReady
  <2>1. ProviderType' /\ kind' = kind /\ zoneId' = zoneId /\ zones' = zones /\ dns' = dns
    BY <1>0, <1>3, ZenonT(60) DEF SetReady, ProviderType, providerVars
  <2>2. CASE Fault /\ Return /\ UNCHANGED pending
    BY <1>0, <2>1, <2>2, ReturnType, FaultType, TypeParts, ZenonT(60) DEF EnvType
  <2>3. CASE /\ Goto("authorize") /\ pending' = [pending EXCEPT ![job.id[1]] = 0]
             /\ job' = NoJob /\ UNCHANGED << todo, active, orders, auxVars >>
    BY <1>0, <2>1, <2>3, NoJobType, TypeParts, ZenonT(60) DEF EnvType, IssueType, UsedType, Goto, auxVars
  <2> QED
    BY <1>3, <2>2, <2>3, ZenonT(60) DEF SetReady
<1>4. CASE Finalize
  <2>1. UsedType'
    BY <1>0, <1>4, FaultType, ZenonT(60) DEF Finalize, UsedType, auxVars
  <2> QED
    BY <1>0, <1>4, <2>1, TypeParts, ZenonT(60)
    DEF Finalize, EnvType, ProviderType, IssueType, envVars, providerVars, Goto
<1>5. CASE DeleteRecord
  <2>1. UsedType'
    BY <1>0, <1>5, FaultType, ZenonT(60) DEF DeleteRecord, UsedType, auxVars
  <2>2. EnvType'
    BY <1>0, <1>5, ZenonT(60) DEF DeleteRecord, EnvType
  <2> QED
    BY <1>0, <1>5, <2>1, <2>2, NoJobType, TypeParts, ZenonT(60)
    DEF DeleteRecord, ProviderType, IssueType, providerVars, Goto
<1>6. CASE UNCHANGED dnsVars
  BY <1>0, <1>6, TypeParts, ZenonT(60)
  DEF dnsVars, envVars, providerVars, issueVars, auxVars, EnvType, ProviderType, IssueType, UsedType
<1> QED
  BY <1>1, <1>2, <1>3, <1>4, <1>5, <1>6, ZoneChangeType, AuthorizeType, ResolveType, CreateType,
     HookType, CleanUpType
  DEF Next, ProcessStep

-----------------------------------------------------------------------------
(***************************************************************************)
(* Zones, owners and jobs.                                                 *)
(***************************************************************************)

\* Every step keeps ZoneInv: ids are given with the zone's name.
LEMMA ZoneStep ==
  ASSUME TypeOK, ZoneInv, [Next]_dnsVars PROVE ZoneInv'
<1>1. CASE ZoneChange
  <2>1. zoneCache' = zoneCache
    BY <1>1, ZenonT(60) DEF ZoneChange, providerVars
  <2>2. PICK z \in ZoneNames :
          \/ zones' = [zones EXCEPT ![z] = << z, used.zones + 1 >>]
          \/ zones' = [zones EXCEPT ![z] = None]
    BY <1>1, ZenonT(60) DEF ZoneChange
  <2> QED
    BY <2>1, <2>2 DEF ZoneInv, TypeOK
<1>2. CASE Crash
  BY <1>2, ZenonT(60) DEF Crash, ZoneInv, envVars
<1>3. CASE ResolveZoneId
  <2>1. zones' = zones
    BY <1>3, ZenonT(60) DEF ResolveZoneId, envVars
  <2>2. \/ zoneCache' = zoneCache
        \/ zoneCache' = [zoneCache EXCEPT ![Candidate] = zones[Candidate]]
    BY <1>3, ZenonT(60) DEF ResolveZoneId, LookUp
  <2> QED
    BY <2>1, <2>2, ZenonT(60) DEF ZoneInv, TypeOK
<1>4. CASE \/ PlaceOrder \/ Authorize \/ CreateRecord \/ PublishHook \/ SetReady
           \/ Finalize \/ CleanUp \/ DeleteRecord \/ UNCHANGED dnsVars
  <2>1. zones' = zones /\ zoneCache' = zoneCache
    BY <1>4, CleanUpTurns, ZenonT(60) DEF PlaceOrder, Authorize, CreateRecord, PublishHook, SetReady, Finalize, DeleteRecord,
       dnsVars, envVars, providerVars
  <2> QED
    BY <2>1, ZenonT(60) DEF ZoneInv
<1> QED
  BY <1>1, <1>2, <1>3, <1>4, ZenonT(60) DEF Next, ProcessStep

\* Every step keeps OwnersInv.
LEMMA OwnersStep ==
  ASSUME TypeOK, JobInv, OwnersInv, [Next]_dnsVars PROVE OwnersInv'
<1>1. CASE CreateRecord
  <2>1. /\ job.op = "publish" /\ job.id = << job.value[1], orders >>
    BY <1>1, ZenonT(60) DEF CreateRecord, JobInv
  <2>2. TxtRecord.id[1] = TxtRecord.value[1]
    BY <2>1 DEF TxtRecord
  <2>3. dns' \subseteq dns \cup {TxtRecord}
    BY <1>1, ZenonT(60) DEF CreateRecord
  <2>4. \A r \in dns' : r.id[1] = r.value[1]
    BY <2>2, <2>3, ZenonT(60) DEF OwnersInv
  <2>5. records' = records \/ Track
    BY <1>1, ZenonT(60) DEF CreateRecord
  <2>6. Entry.name = job.name /\ Entry.value = job.value
    BY ZenonT(60) DEF Entry
  <2>7. \A e, f \in records' : << e.name, e.value >> = << f.name, f.value >> => e = f
    BY <2>5, <2>6, ZenonT(60) DEF Track, OwnersInv
  <2> QED
    BY <2>4, <2>7, ZenonT(60) DEF OwnersInv
<1>2. CASE PublishHook
  <2>1. /\ job.op = "publish" /\ job.id = << job.value[1], orders >>
    BY <1>2, ZenonT(60) DEF PublishHook, JobInv
  <2> DEFINE record == [TxtRecord EXCEPT !.zone = Authoritative(job.name)]
  <2>2. record.id = job.id /\ record.value = job.value
    BY ZenonT(60) DEF TxtRecord
  <2>3. dns' \subseteq dns \cup {record} /\ records' = records
    BY <1>2, ZenonT(60) DEF PublishHook, providerVars
  <2> HIDE DEF record
  <2>4. record.id[1] = record.value[1]
    BY <2>1, <2>2
  <2> QED
    BY <2>3, <2>4, ZenonT(60) DEF OwnersInv
<1>3. CASE \/ ZoneChange \/ Crash \/ PlaceOrder \/ Authorize \/ ResolveZoneId \/ SetReady
           \/ Finalize \/ CleanUp \/ DeleteRecord \/ UNCHANGED dnsVars
  <2>1. CASE CleanUp
    <3>1. dns' \subseteq dns /\ records' \subseteq records
      BY <2>1, CleanUpTurns, ZenonT(60) DEF TeardownEnds, HookRemoves, TakeEntry
    <3> QED
      BY <3>1, ZenonT(60) DEF OwnersInv
  <2>2. CASE ZoneChange
    BY <2>2, ZenonT(60) DEF ZoneChange, providerVars, OwnersInv
  <2>3. CASE Crash \/ PlaceOrder \/ Authorize \/ ResolveZoneId \/ SetReady \/ Finalize \/ UNCHANGED dnsVars
    <3>1. dns' = dns /\ (records' = records \/ records' = {})
      BY <2>3, ZenonT(60) DEF Crash, PlaceOrder, Authorize, ResolveZoneId, SetReady, Finalize, dnsVars, envVars, providerVars
    <3> QED
      BY <3>1, ZenonT(60) DEF OwnersInv
  <2>4. CASE DeleteRecord
    <3>1. dns' \subseteq dns /\ records' = records
      BY <2>4, ZenonT(60) DEF DeleteRecord, providerVars
    <3> QED
      BY <3>1, ZenonT(60) DEF OwnersInv
  <2> QED
    BY <1>3, <2>1, <2>2, <2>3, <2>4, ZenonT(60)
<1> QED
  BY <1>1, <1>2, <1>3, ZenonT(60) DEF Next, ProcessStep

LEMMA NoJobInv ==
  ASSUME job' = NoJob, pc' \in {"idle", "authorize", "cleanup"} PROVE JobInv'
  BY NoJobType, ZenonT(60) DEF JobInv

LEMMA ReturnJob == Return => JobInv'
  BY NoJobInv, ZenonT(60) DEF Return

LEMMA GiveUpJob == GiveUp => JobInv'
  BY NoJobInv, ReturnJob, ZenonT(60) DEF GiveUp, Goto

\* A zone is resolved for the job that asked for it.
LEMMA FoundJob ==
  ASSUME TypeOK, JobInv, pc = "zone", kind' = kind, NEW zone, Found(zone)
  PROVE  JobInv'
<1>1. /\ job'.op = job.op /\ job'.name = job.name /\ job'.value = job.value /\ job'.id = job.id
      /\ pc' = IF job.op = "publish" THEN "create" ELSE "delete"
      /\ orders' = orders
  BY ZenonT(60) DEF Found, Goto, TypeOK, Jobs
<1>2. job.op \in {"publish", "cleanup"} /\ kind = "cloudflare"
  BY ZenonT(60) DEF JobInv
<1> QED
  BY <1>1, <1>2, ZenonT(60) DEF JobInv

\* Every step keeps JobInv.
LEMMA JobStep ==
  ASSUME TypeOK, JobInv, [Next]_dnsVars PROVE JobInv'
<1>1. CASE ZoneChange \/ UNCHANGED dnsVars
  BY <1>1, ZenonT(60) DEF ZoneChange, dnsVars, envVars, issueVars, JobInv
<1>2. CASE Crash
  BY <1>2, ReturnJob, ZenonT(60) DEF Crash
<1>3. CASE PlaceOrder
  BY <1>3, NoJobInv, ZenonT(60) DEF PlaceOrder, Goto
<1>4. CASE Authorize
  <2>1. CASE Return
    BY <2>1, ReturnJob, ZenonT(60)
  <2>2. CASE UNCHANGED << pc, job >> /\ UNCHANGED orders
    BY <1>4, <2>2, ZenonT(60) DEF Authorize, JobInv
  <2>3. ASSUME NEW d \in todo, NEW token \in {orders} \cup ({pending[d]} \ {0}),
               job' = [NoJob EXCEPT !.op = "publish", !.name = DnsRecordName(d),
                                    !.value = Value(d, token), !.id = << d, orders >>],
               Goto(IF kind = "manual" THEN "hook" ELSE "zone"), orders' = orders
        PROVE  JobInv'
    <3>1. /\ job'.op = "publish" /\ job'.name = DnsRecordName(d) /\ job'.value = << d, token >>
          /\ job'.id = << d, orders >>
      BY <2>3, ZenonT(60) DEF Value, NoJob
    <3>2. d \in Domains /\ token \in Nat /\ orders \in Nat
      BY ZenonT(60) DEF TypeOK
    <3>3. job'.name \in RecordNames /\ job'.value \in RecordValues /\ job'.id \in RecordIds
          /\ job'.id = << job'.value[1], orders' >>
      BY <3>1, <3>2, <2>3, SMTT(60) DEF RecordNames, RecordValues, RecordIds
    <3>4. kind' = kind /\ kind \in {"cloudflare", "manual"}
      BY <1>4, ZenonT(60) DEF Authorize, TypeOK
    <3> QED
      BY <2>3, <3>1, <3>3, <3>4, ZenonT(60) DEF JobInv, Goto
  <2> QED
    BY <1>4, <2>1, <2>2, <2>3, ZenonT(60) DEF Authorize
<1>5. CASE ResolveZoneId
  <2>0. pc = "zone" /\ kind' = kind
    BY <1>5, ZenonT(60) DEF ResolveZoneId, envVars
  <2>1. ASSUME NEW zone, Found(zone) PROVE JobInv'
    BY <2>0, <2>1, FoundJob, ZenonT(60)
  <2>2. CASE job' = [job EXCEPT !.at = @ + 1] /\ UNCHANGED << pc, orders >>
    <3>1. /\ job'.op = job.op /\ job'.name = job.name /\ job'.value = job.value /\ job'.id = job.id
      BY <2>2, ZenonT(60) DEF TypeOK, Jobs
    <3> QED
      BY <2>0, <2>2, <3>1, ZenonT(60) DEF JobInv
  <2>3. CASE GiveUp
    BY <2>3, GiveUpJob, ZenonT(60)
  <2> QED
    BY <1>5, <2>1, <2>2, <2>3, ZenonT(60) DEF ResolveZoneId, LookUp
<1>6. CASE CreateRecord \/ PublishHook
  <2>1. CASE Return
    BY <2>1, ReturnJob, ZenonT(60)
  <2>2. CASE Published
    BY <1>6, <2>2, ZenonT(60) DEF CreateRecord, PublishHook, Published, Goto, JobInv
  <2> QED
    BY <1>6, <2>1, <2>2, ZenonT(60) DEF CreateRecord, PublishHook
<1>7. CASE SetReady
  BY <1>7, NoJobInv, ReturnJob, ZenonT(60) DEF SetReady, Goto
<1>8. CASE Finalize
  BY <1>8, ZenonT(60) DEF Finalize, Goto, JobInv, envVars
<1>9. CASE CleanUp
  <2>1. CASE TeardownEnds
    BY <2>1, ReturnJob, ZenonT(60) DEF TeardownEnds
  <2>2. CASE HookRemoves
    BY <1>9, <2>2, CleanUpTurns, ZenonT(60) DEF HookRemoves, JobInv
  <2>3. CASE TakeEntry /\ HeadEntries = {}
    BY <2>3, NoJobInv, ZenonT(60) DEF TakeEntry, Goto
  <2>4. CASE TakeEntry /\ HeadEntries # {}
    <3>1. PICK e \in HeadEntries : job' = [NoJob EXCEPT !.op = "cleanup", !.name = e.name,
                                                        !.value = e.value, !.id = e.id]
      BY <2>4, ZenonT(60) DEF TakeEntry
    <3>2. e \in Entries
      BY ZenonT(60) DEF HeadEntries, TypeOK
    <3>3. /\ job'.op = "cleanup" /\ job'.name \in RecordNames /\ job'.value \in RecordValues
          /\ job'.id \in RecordIds
      BY <3>1, <3>2, ZenonT(60) DEF NoJob, Entries
    <3>4. pc' = "zone" /\ kind' = "cloudflare"
      BY <1>9, <2>4, CleanUpTurns, ZenonT(60) DEF TakeEntry, Goto
    <3> QED
      BY <3>3, <3>4, ZenonT(60) DEF JobInv
  <2> QED
    BY <1>9, <2>1, <2>2, <2>3, <2>4, CleanUpTurns, ZenonT(60)
<1>10. CASE DeleteRecord
  BY <1>10, NoJobInv, ZenonT(60) DEF DeleteRecord, Goto
<1> QED
  BY <1>1, <1>2, <1>3, <1>4, <1>5, <1>6, <1>7, <1>8, <1>9, <1>10, ZenonT(60) DEF Next, ProcessStep

-----------------------------------------------------------------------------
(***************************************************************************)
(* The walk over a name's zones.                                           *)
(***************************************************************************)

LEMMA NameLength ==
  ASSUME NEW name \in RecordNames
  PROVE  Len(name) \in Nat
  BY DnsConstants DEF RecordNames, DnsRecordName

\* The walk ends where the first zone is that cache or account know.
LEMMA ResolvesToOne ==
  ASSUME NEW name \in RecordNames, NEW y, NEW z, ResolvesTo(name, y), ResolvesTo(name, z)
  PROVE  y = z
<1> DEFINE c(n) == ZoneCandidates(name)[n]
<1>0. Len(name) \in Nat
  BY NameLength, ZenonT(60)
<1>1. PICK m \in 1..Len(name) :
        /\ NothingBefore(name, m)
        /\ \/ Known(zoneCache, c(m)) /\ y = zoneCache[c(m)]
           \/ ~Known(zoneCache, c(m)) /\ Known(zones, c(m)) /\ y = zones[c(m)]
  BY ZenonT(60) DEF ResolvesTo
<1>2. PICK n \in 1..Len(name) :
        /\ NothingBefore(name, n)
        /\ \/ Known(zoneCache, c(n)) /\ z = zoneCache[c(n)]
           \/ ~Known(zoneCache, c(n)) /\ Known(zones, c(n)) /\ z = zones[c(n)]
  BY ZenonT(60) DEF ResolvesTo
<1> HIDE DEF c
<1>3. \A i \in 1..m - 1 : ~Known(zoneCache, c(i)) /\ ~Known(zones, c(i))
  BY <1>1, ZenonT(60) DEF NothingBefore, c
<1>4. \A i \in 1..n - 1 : ~Known(zoneCache, c(i)) /\ ~Known(zones, c(i))
  BY <1>2, ZenonT(60) DEF NothingBefore, c
<1>5. m = n
  BY <1>0, <1>1, <1>2, <1>3, <1>4
<1> QED
  BY <1>1, <1>2, <1>5, ZenonT(60)

LEMMA ZoneOfIsOne ==
  ASSUME NEW name \in RecordNames, NEW y, NEW z, IsZoneOf(name, y), IsZoneOf(name, z)
  PROVE  y = z
  BY ResolvesToOne, ZenonT(60) DEF IsZoneOf

\* A zone the walk ends at, and that is still there, answers for the name:
\* an id from the cache names its zone, so it is not another one's.
LEMMA ResolvedAnswers ==
  ASSUME TypeOK, ZoneInv, NEW name \in RecordNames, NEW zone, ResolvesTo(name, zone),
         \E z \in ZoneNames : zones[z] = zone
  PROVE  zone = Authoritative(name)
<1> DEFINE c(n) == ZoneCandidates(name)[n]
<1>0. Len(name) \in Nat
  BY NameLength, ZenonT(60)
<1>1. PICK n \in 1..Len(name) :
        /\ NothingBefore(name, n)
        /\ \/ Known(zoneCache, c(n)) /\ zone = zoneCache[c(n)]
           \/ ~Known(zoneCache, c(n)) /\ Known(zones, c(n)) /\ zone = zones[c(n)]
  BY ZenonT(60) DEF ResolvesTo
<1>2. PICK z \in ZoneNames : zones[z] = zone
  BY ZenonT(60)
<1> HIDE DEF c
<1>3. c(n) \in ZoneNames /\ zone # None
  BY <1>1, ZenonT(60) DEF Known
<1>4. zone[1] = c(n) /\ zone[1] = z
  BY <1>1, <1>2, <1>3, ZenonT(60) DEF ZoneInv, Known
<1>5. Known(zones, c(n)) /\ zones[c(n)] = zone
  BY <1>2, <1>3, <1>4, ZenonT(60) DEF Known
<1>6. \A i \in 1..n - 1 : ~Known(zones, c(i))
  BY <1>1, ZenonT(60) DEF NothingBefore, c
<1>7. \A i : i \in ZonesOf(name) <=> i \in 1..Len(name) /\ Known(zones, c(i))
  BY ZenonT(60) DEF ZonesOf, Known, c
<1>8. n \in ZonesOf(name) /\ \A i \in ZonesOf(name) : n <= i
  BY <1>0, <1>1, <1>5, <1>6, <1>7
<1>9. PICK i \in ZonesOf(name) : /\ \A j \in ZonesOf(name) : i <= j
                                 /\ Authoritative(name) = zones[c(i)]
  BY <1>8, AuthoritativeIsFirst, ZenonT(60) DEF c
<1>10. i = n
  BY <1>0, <1>1, <1>7, <1>8, <1>9
<1> QED
  BY <1>5, <1>9, <1>10, ZenonT(60)

\* Caching the id a zone has leaves every walk where it ended.
LEMMA CachingKeepsWalks ==
  ASSUME TypeOK, NEW z \in ZoneNames, zones[z] # None, ~Known(zoneCache, z),
         zoneCache' = [zoneCache EXCEPT ![z] = zones[z]], zones' = zones,
         NEW name
  PROVE  /\ \A n : NothingBefore(name, n) => NothingBefore(name, n)'
         /\ \A zone : ResolvesTo(name, zone) => ResolvesTo(name, zone)'
<1>1. /\ \A y : Known(zones, y)' = Known(zones, y)
      /\ \A y : y # z => Known(zoneCache, y)' = Known(zoneCache, y)
      /\ Known(zones, z) /\ Known(zoneCache, z)' /\ zoneCache'[z] = zones[z]
      /\ \A y : Known(zoneCache, y) => zoneCache'[y] = zoneCache[y]
  BY ZenonT(60) DEF Known, TypeOK
<1>2. ASSUME NEW n, NothingBefore(name, n) PROVE NothingBefore(name, n)'
  BY <1>1, <1>2, ZenonT(60) DEF NothingBefore
<1>3. ASSUME NEW zone, ResolvesTo(name, zone) PROVE ResolvesTo(name, zone)'
  <2>1. PICK n \in 1..Len(name) :
          /\ NothingBefore(name, n)
          /\ \/ /\ Known(zoneCache, ZoneCandidates(name)[n])
                /\ zone = zoneCache[ZoneCandidates(name)[n]]
             \/ /\ ~Known(zoneCache, ZoneCandidates(name)[n])
                /\ Known(zones, ZoneCandidates(name)[n])
                /\ zone = zones[ZoneCandidates(name)[n]]
    BY <1>3, ZenonT(60) DEF ResolvesTo
  <2>2. NothingBefore(name, n)'
    BY <2>1, <1>2, ZenonT(60)
  <2>3. \/ /\ Known(zoneCache, ZoneCandidates(name)[n])'
           /\ zone = zoneCache'[ZoneCandidates(name)[n]]
        \/ /\ ~Known(zoneCache, ZoneCandidates(name)[n])'
           /\ Known(zones, ZoneCandidates(name)[n])'
           /\ zone = zones'[ZoneCandidates(name)[n]]
    BY <1>1, <2>1, ZenonT(60)
  <2> QED
    BY <2>2, <2>3, ZenonT(60) DEF ResolvesTo
<1> QED
  BY <1>2, <1>3, ZenonT(60)

-----------------------------------------------------------------------------
(***************************************************************************)
(* What a step does to the records of an order.                            *)
(***************************************************************************)

Safe == WalkInv /\ CoverInv /\ PublishedInv

\* A step that disturbs the order has nothing to keep but whose records there
\* are.
LEMMA DisturbedStep ==
  ASSUME CoverInv, Blemish, orders' = orders,
         \A r \in dns' : r \in dns \/ r.id[2] = orders
  PROVE  Safe'
<1>1. ~Undisturbed'
  BY ZenonT(60) DEF Blemish, Undisturbed
<1>2. \A r \in dns' : r.id[2] \in blemished'
  BY ZenonT(60) DEF Blemish, CoverInv
<1> QED
  BY <1>1, <1>2, ZenonT(60) DEF Safe, WalkInv, CoverInv, PublishedInv

LEMMA ReturnOrders == Return \/ GiveUp => orders' = orders
  BY ZenonT(60) DEF Return, GiveUp

SameZones == /\ zones' = zones /\ zoneCache' = zoneCache
             /\ zoneId' = zoneId /\ kind' = kind /\ blemished' = blemished

LEMMA SameWalks ==
  ASSUME SameZones, NEW name
  PROVE  /\ \A n : NothingBefore(name, n)' = NothingBefore(name, n)
         /\ \A zone : IsZoneOf(name, zone)' = IsZoneOf(name, zone)
<1>1. \A y : Known(zones, y)' = Known(zones, y) /\ Known(zoneCache, y)' = Known(zoneCache, y)
  BY ZenonT(60) DEF SameZones, Known
<1>2. \A n : NothingBefore(name, n)' = NothingBefore(name, n)
  BY <1>1, ZenonT(60) DEF NothingBefore
<1>3. \A zone : ResolvesTo(name, zone)' = ResolvesTo(name, zone)
  BY <1>1, <1>2, ZenonT(60) DEF ResolvesTo, SameZones
<1> QED
  BY <1>2, <1>3, ZenonT(60) DEF IsZoneOf, SameZones

LEMMA SameAuthority ==
  ASSUME zones' = zones, NEW name
  PROVE  Authoritative(name)' = Authoritative(name)
  BY DEF Authoritative

\* The records keep their zones when walks end where they did.
LEMMA RecordZones ==
  ASSUME WalkInv, kind' = kind, blemished' = blemished, orders' = orders,
         \A name, zone : IsZoneOf(name, zone) => IsZoneOf(name, zone)',
         \A r \in dns' : r \in dns \/ IsZoneOf(r.name, r.zone)'
  PROVE  Undisturbed' /\ kind' = "cloudflare" =>
           \A r \in dns' : r.id[2] \notin blemished' => IsZoneOf(r.name, r.zone)'
<1> SUFFICES ASSUME Undisturbed', kind' = "cloudflare",
                    NEW r \in dns', r.id[2] \notin blemished'
             PROVE  IsZoneOf(r.name, r.zone)'
  BY ZenonT(60)
<1>1. Undisturbed /\ kind = "cloudflare" /\ r.id[2] \notin blemished
  BY ZenonT(60) DEF Undisturbed
<1>2. r \in dns => IsZoneOf(r.name, r.zone)
  BY <1>1, ZenonT(60) DEF WalkInv
<1> QED
  BY <1>2, ZenonT(60)

\* The records stay covered.
LEMMA StillCovered ==
  ASSUME CoverInv, blemished' = blemished, orders' = orders, pc' # "idle",
         \A r \in dns' : r.id[2] \notin blemished =>
           \/ r \in dns /\ (r.id[2] = orders /\ Covered(r) => Covered(r)')
           \/ r.id[2] = orders /\ Covered(r)'
  PROVE  CoverInv'
  BY ZenonT(60) DEF CoverInv

\* What was published stays published.
LEMMA StillPublished ==
  ASSUME PublishedInv, zones' = zones, zoneId' = zoneId, blemished' = blemished,
         orders' = orders, active' = active, dns \subseteq dns', Publishing' => Publishing
  PROVE  PublishedInv'
<1> SUFFICES ASSUME Publishing', zoneId' = None, Undisturbed', NEW i \in DOMAIN active'
             PROVE  \E r \in dns' : /\ r.name = active'[i].name /\ r.value = active'[i].value
                                    /\ r.zone = Authoritative(r.name)'
  BY ZenonT(60) DEF PublishedInv
<1>1. PICK r \in dns : /\ r.name = active[i].name /\ r.value = active[i].value
                       /\ r.zone = Authoritative(r.name)
  BY ZenonT(60) DEF PublishedInv, Undisturbed
<1>2. Authoritative(r.name)' = Authoritative(r.name)
  BY SameAuthority, ZenonT(60)
<1> QED
  BY <1>1, <1>2, ZenonT(60)

Shape == TypeOK /\ ZoneInv /\ OwnersInv /\ JobInv

LEMMA PlaceOrderSafe ==
  ASSUME Shape, Safe, PlaceOrder PROVE Safe'
<1>1. \A r \in dns' : r.id[2] \in blemished'
  BY ZenonT(60) DEF PlaceOrder, Safe, CoverInv, envVars, auxVars
<1>2. pc' = "authorize" /\ active' = <<>>
  BY ZenonT(60) DEF PlaceOrder, Goto
<1> QED
  BY <1>1, <1>2 DEF Safe, WalkInv, CoverInv, PublishedInv

\* Before the teardown a record that is covered is in active_dns.
LEMMA CoveredByActive ==
  ASSUME Shape, pc \in {"idle", "authorize", "create", "hook", "ready", "cleanup"},
         NEW r, Covered(r)
  PROVE  /\ \E i \in DOMAIN active : active[i] = [name |-> r.name, value |-> r.value]
         /\ kind = "cloudflare" => [name |-> r.name, value |-> r.value, id |-> r.id] \in records
<1>1. job.op # "cleanup"
  BY ZenonT(60) DEF Shape, JobInv
<1> QED
  BY <1>1, ZenonT(60) DEF Covered

\* A step that leaves active_dns, records and the account's records alone,
\* and works on nothing that the teardown was to remove.
LEMMA KeepsRecords ==
  ASSUME Shape, Safe, SameZones, orders' = orders, pc' # "idle", dns' = dns,
         active' = active, records' = records,
         \/ pc \in {"idle", "authorize", "create", "hook", "ready", "cleanup"}
         \/ job'.op = job.op /\ job'.id = job.id /\ job'.name = job.name,
         Publishing' => Publishing,
         pc' = "zone" /\ zoneId = None /\ Undisturbed => NothingBefore(job'.name, job'.at),
         pc' \in {"create", "delete"} /\ Undisturbed => IsZoneOf(job'.name, job'.zone)
  PROVE  Safe'
<1>1. Undisturbed' = Undisturbed
  BY ZenonT(60) DEF Undisturbed, SameZones
<1>2. WalkInv'
  <2>1. Undisturbed' /\ kind' = "cloudflare" =>
          \A r \in dns' : r.id[2] \notin blemished' => IsZoneOf(r.name, r.zone)'
    BY RecordZones, SameWalks, ZenonT(60) DEF Safe, SameZones
  <2>2. PICK name, at, zone : name = job'.name /\ at = job'.at /\ zone = job'.zone
    BY ZenonT(60)
  <2>3. /\ NothingBefore(name, at)' = NothingBefore(name, at)
        /\ IsZoneOf(name, zone)' = IsZoneOf(name, zone)
    BY SameWalks, ZenonT(60)
  <2>4. /\ NothingBefore(job.name, job.at)' = NothingBefore(name, at)'
        /\ IsZoneOf(job.name, job.zone)' = IsZoneOf(name, zone)'
    BY <2>2, ZenonT(60)
  <2>5. zoneId' = zoneId
    BY ZenonT(60) DEF SameZones
  <2> QED
    BY <1>1, <2>1, <2>2, <2>3, <2>4, <2>5, ZenonT(60) DEF WalkInv
<1>3. CoverInv'
  <2>1. ASSUME NEW r \in dns, Covered(r) PROVE Covered(r)'
    <3>1. CASE pc \in {"idle", "authorize", "create", "hook", "ready", "cleanup"}
      BY <2>1, <3>1, CoveredByActive, ZenonT(60) DEF Covered, SameZones
    <3>2. CASE job'.op = job.op /\ job'.id = job.id /\ job'.name = job.name
      BY <2>1, <3>2, ZenonT(60) DEF Covered, SameZones
    <3> QED
      BY <3>1, <3>2, ZenonT(60)
  <2> QED
    BY <2>1, StillCovered, ZenonT(60) DEF Safe, SameZones
<1>4. PublishedInv'
  BY StillPublished, ZenonT(60) DEF Safe, SameZones
<1> QED
  BY <1>2, <1>3, <1>4, ZenonT(60) DEF Safe

LEMMA AuthorizeSafe ==
  ASSUME Shape, Safe, Authorize PROVE Safe'
<1>0. /\ pc = "authorize" /\ kind' = kind /\ zoneId' = zoneId /\ zones' = zones
      /\ dns' = dns /\ zoneCache' = zoneCache /\ records' = records
  BY ZenonT(60) DEF Authorize, providerVars
<1>1. CASE Fault /\ Return
  BY <1>0, <1>1, DisturbedStep, ReturnOrders, ZenonT(60) DEF Fault, Safe
<1>2. ASSUME UNCHANGED << active, orders, auxVars >>, UNCHANGED << pc, job >>
      PROVE  Safe'
  <2>1. SameZones
    BY <1>0, <1>2, ZenonT(60) DEF SameZones, auxVars
  <2>2. Publishing' => Publishing
    BY <1>0, ZenonT(60) DEF Publishing
  <2> QED
    BY <1>0, <1>2, <2>1, <2>2, KeepsRecords, ZenonT(60)
<1>3. ASSUME UNCHANGED << active, orders, auxVars >>, NEW name, NEW value, NEW id,
             job' = [NoJob EXCEPT !.op = "publish", !.name = name, !.value = value, !.id = id],
             Goto(IF kind = "manual" THEN "hook" ELSE "zone")
      PROVE  Safe'
  <2>1. SameZones
    BY <1>0, <1>3, ZenonT(60) DEF SameZones, auxVars
  <2>2. Publishing' => Publishing
    BY <1>0, ZenonT(60) DEF Publishing
  <2>3. job'.at = 1
    BY <1>3, ZenonT(60) DEF NoJob
  <2>4. NothingBefore(job'.name, job'.at)
    BY <2>3 DEF NothingBefore
  <2>5. pc' \in {"hook", "zone"}
    BY <1>3, ZenonT(60) DEF Goto
  <2> QED
    BY <1>0, <1>3, <2>1, <2>2, <2>4, <2>5, KeepsRecords, ZenonT(60)
<1> QED
  BY <1>1, <1>2, <1>3, ZenonT(60) DEF Authorize

LEMMA ResolveSafe ==
  ASSUME Shape, Safe, ResolveZoneId PROVE Safe'
<1>0. /\ pc = "zone" /\ kind' = kind /\ zoneId' = zoneId /\ zones' = zones
      /\ dns' = dns /\ records' = records
  BY ZenonT(60) DEF ResolveZoneId, envVars
<1>1. job.name \in RecordNames /\ job.op \in {"publish", "cleanup"} /\ Len(job.name) \in Nat
  BY <1>0, NameLength, ZenonT(60) DEF Shape, JobInv
<1>2. job.at \in Nat \ {0}
  BY ZenonT(60) DEF Shape, TypeOK, Jobs
<1>3. Undisturbed /\ zoneId = None => NothingBefore(job.name, job.at)
  BY <1>0, ZenonT(60) DEF Safe, WalkInv
<1>4. ASSUME NEW zone, Found(zone)
      PROVE  /\ job'.op = job.op /\ job'.id = job.id /\ job'.name = job.name /\ job'.zone = zone
             /\ active' = active /\ orders' = orders
             /\ pc' = IF job.op = "publish" THEN "create" ELSE "delete"
             /\ Publishing' => Publishing
  <2>1. /\ job'.op = job.op /\ job'.id = job.id /\ job'.name = job.name /\ job'.zone = zone
        /\ active' = active /\ orders' = orders
        /\ pc' = IF job.op = "publish" THEN "create" ELSE "delete"
    BY <1>4, ZenonT(60) DEF Found, Goto, Shape, TypeOK, Jobs
  <2> QED
    BY <1>0, <2>1, ZenonT(60) DEF Publishing
<1>5. ASSUME NEW zone, Found(zone), UNCHANGED << zoneCache, auxVars >>,
             Undisturbed => IsZoneOf(job.name, zone)
      PROVE  Safe'
  <2>1. SameZones
    BY <1>0, <1>5, ZenonT(60) DEF SameZones, auxVars
  <2> QED
    BY <1>0, <1>4, <1>5, <2>1, KeepsRecords, ZenonT(60)
<1>6. ASSUME zoneId # None, Found(zoneId), UNCHANGED << zoneCache, auxVars >>
      PROVE  Safe'
  BY <1>5, <1>6, ZenonT(60) DEF IsZoneOf
<1>7. ASSUME zoneId = None, job.at <= Len(job.name), Known(zoneCache, Candidate),
             Found(zoneCache[Candidate]), UNCHANGED << zoneCache, auxVars >>
      PROVE  Safe'
  <2>1. Undisturbed => ResolvesTo(job.name, zoneCache[Candidate])
    BY <1>1, <1>2, <1>3, <1>7 DEF ResolvesTo, Candidate
  <2> QED
    BY <1>5, <1>7, <2>1, ZenonT(60) DEF IsZoneOf
<1>8. ASSUME zoneId = None, job.at <= Len(job.name), ~Known(zoneCache, Candidate),
             Known(zones, Candidate), Found(zones[Candidate]),
             zoneCache' = [zoneCache EXCEPT ![Candidate] = zones[Candidate]], UNCHANGED auxVars
      PROVE  Safe'
  <2>1. Undisturbed => ResolvesTo(job.name, zones[Candidate])
    BY <1>1, <1>2, <1>3, <1>8, SMTT(60) DEF ResolvesTo, Candidate
  <2>2. \A name, zone : ResolvesTo(name, zone) => ResolvesTo(name, zone)'
    <3>1. PICK z : z = Candidate
      BY ZenonT(60)
    <3> QED
      BY <1>0, <1>8, <3>1, CachingKeepsWalks, ZenonT(60) DEF Known, Shape
  <2>3. \A name, zone : IsZoneOf(name, zone) => IsZoneOf(name, zone)'
    BY <1>0, <2>2, ZenonT(60) DEF IsZoneOf
  <2>4. blemished' = blemished /\ orders' = orders /\ Undisturbed' = Undisturbed
    BY <1>4, <1>8, ZenonT(60) DEF auxVars, Undisturbed
  <2>5. PICK name, zone : name = job.name /\ zone = zones[Candidate]
    BY ZenonT(60)
  <2>6. job'.name = name /\ job'.zone = zone /\ pc' \in {"create", "delete"}
    BY <1>1, <1>4, <1>8, <2>5, ZenonT(60)
  <2>7. Undisturbed => IsZoneOf(name, zone)
    BY <1>8, <2>1, <2>5, ZenonT(60) DEF IsZoneOf
  <2>8. Undisturbed' => IsZoneOf(name, zone)'
    BY <2>3, <2>4, <2>7, ZenonT(60)
  <2>9. IsZoneOf(name, zone)' => IsZoneOf(job.name, job.zone)'
    BY <2>6, ZenonT(60)
  <2>10. WalkInv'
    <3>1. Undisturbed' /\ kind' = "cloudflare" =>
            \A r \in dns' : r.id[2] \notin blemished' => IsZoneOf(r.name, r.zone)'
      BY <1>0, <2>3, <2>4, RecordZones, ZenonT(60) DEF Safe
    <3> QED
      BY <2>6, <2>8, <2>9, <3>1, ZenonT(60) DEF WalkInv
  <2>11. CoverInv'
    <3>1. \A r \in dns : Covered(r) => Covered(r)'
      BY <1>0, <1>4, <1>8, ZenonT(60) DEF Covered
    <3> QED
      BY <1>0, <2>4, <2>6, <3>1, StillCovered, ZenonT(60) DEF Safe
  <2>12. PublishedInv'
    BY <1>0, <1>4, <1>8, <2>4, StillPublished, ZenonT(60) DEF Safe
  <2> QED
    BY <2>10, <2>11, <2>12, ZenonT(60) DEF Safe
<1>9. ASSUME zoneId = None, job.at <= Len(job.name), ~Known(zoneCache, Candidate),
             ~Known(zones, Candidate), job' = [job EXCEPT !.at = @ + 1],
             UNCHANGED << pc, todo, active, orders, zoneCache, auxVars >>
      PROVE  Safe'
  <2>1. SameZones
    BY <1>0, <1>9, ZenonT(60) DEF SameZones, auxVars
  <2>2. job'.op = job.op /\ job'.id = job.id /\ job'.name = job.name /\ job'.at = job.at + 1
    BY <1>9, ZenonT(60) DEF Shape, TypeOK, Jobs
  <2>3. Publishing' => Publishing
    BY <1>0, <1>9, <2>2, ZenonT(60) DEF Publishing
  <2>4. Undisturbed => NothingBefore(job'.name, job'.at)
    BY <1>2, <1>3, <1>9, <2>2 DEF NothingBefore, Candidate
  <2> QED
    BY <1>0, <1>9, <2>1, <2>2, <2>3, <2>4, KeepsRecords, ZenonT(60)
<1>10. ASSUME GiveUp, Blemish PROVE Safe'
  BY <1>0, <1>10, ReturnOrders, DisturbedStep, ZenonT(60) DEF Safe
<1> QED
  BY <1>6, <1>7, <1>8, <1>9, <1>10, ZenonT(60) DEF ResolveZoneId, LookUp, Fault

\* publish has returned: the new record is in active_dns, where the name's zone
\* is, and what was published before still is.
LEMMA PublishedSafe ==
  ASSUME Shape, Safe, SameZones, orders' = orders, pc' = "ready",
         job.op = "publish",
         NEW r, r.name = job.name, r.value = job.value, r.id = job.id, dns' = dns \cup {r},
         active' = Append(active, [name |-> job.name, value |-> job.value]),
         pc \in {"create", "hook"},
         kind = "cloudflare" => Track,
         kind = "cloudflare" /\ Undisturbed => IsZoneOf(r.name, r.zone),
         zoneId = None /\ Undisturbed => r.zone = Authoritative(r.name)
  PROVE  Safe'
<1>0. /\ job.id = << job.value[1], orders >> /\ r.id[2] = orders
  BY DEF Shape, JobInv
<1>1. /\ active' \in Seq([name : RecordNames, value : RecordValues]) /\ Len(active') = Len(active) + 1
      /\ Len(active) \in Nat /\ DOMAIN active = 1..Len(active) /\ DOMAIN active' = 1..Len(active) + 1
      /\ \A i \in DOMAIN active : i \in DOMAIN active' /\ active'[i] = active[i]
      /\ active'[Len(active) + 1] = [name |-> job.name, value |-> job.value]
  <2>1. active \in Seq([name : RecordNames, value : RecordValues])
    BY ZenonT(60) DEF Shape, TypeOK
  <2>2. [name |-> job.name, value |-> job.value] \in [name : RecordNames, value : RecordValues]
    BY ZenonT(60) DEF Shape, JobInv
  <2> QED
    BY <2>1, <2>2
<1>2. Undisturbed' = Undisturbed
  BY ZenonT(60) DEF Undisturbed, SameZones
<1>3. WalkInv'
  <2>1. Undisturbed' /\ kind' = "cloudflare" =>
          \A q \in dns' : q.id[2] \notin blemished' => IsZoneOf(q.name, q.zone)'
    <3> SUFFICES ASSUME Undisturbed', kind' = "cloudflare"
                 PROVE  \A q \in dns' : q.id[2] \notin blemished' => IsZoneOf(q.name, q.zone)'
      BY ZenonT(60)
    <3>1. IsZoneOf(r.name, r.zone)'
      BY <1>2, SameWalks, ZenonT(60) DEF SameZones
    <3> QED
      BY <3>1, RecordZones, SameWalks, ZenonT(60) DEF Safe, SameZones
  <2> QED
    BY <2>1, ZenonT(60) DEF WalkInv
<1>4. CoverInv'
  <2>1. Covered(r)'
    <3>1. Len(active) + 1 \in DOMAIN active'
      BY <1>1
    <3>2. active'[Len(active) + 1] = [name |-> r.name, value |-> r.value]
      BY <1>1, ZenonT(60)
    <3>3. kind' = "cloudflare" => [name |-> r.name, value |-> r.value, id |-> r.id] \in records'
      BY ZenonT(60) DEF Track, Entry, SameZones
    <3> QED
      BY <3>1, <3>2, <3>3, ZenonT(60) DEF Covered
  <2>2. ASSUME NEW q \in dns, q.id[2] = orders, Covered(q) PROVE Covered(q)'
    <3> DEFINE e == [name |-> q.name, value |-> q.value, id |-> q.id]
    <3>1. /\ \E i \in DOMAIN active : active[i] = [name |-> q.name, value |-> q.value]
          /\ kind = "cloudflare" => e \in records
      BY <2>2, CoveredByActive, ZenonT(60)
    <3>2. PICK i \in DOMAIN active : active[i] = [name |-> q.name, value |-> q.value]
      BY <3>1, ZenonT(60)
    <3>3. i \in DOMAIN active' /\ active'[i] = [name |-> q.name, value |-> q.value]
      BY <1>1, <3>2, ZenonT(60)
    <3>4. q.id = << q.value[1], orders >>
      BY <2>2, SMTT(60) DEF Shape, OwnersInv, TypeOK, TxtRecords, RecordIds
    <3>5. ASSUME kind = "cloudflare" PROVE e \in records'
      <4>1. CASE << e.name, e.value >> = << job.name, job.value >>
        BY <1>0, <3>4, <3>5, <4>1, ZenonT(60) DEF Track, Entry
      <4>2. CASE << e.name, e.value >> # << job.name, job.value >>
        BY <3>1, <3>5, <4>2, ZenonT(60) DEF Track
      <4> QED
        BY <4>1, <4>2, ZenonT(60)
    <3> QED
      BY <3>3, <3>5, ZenonT(60) DEF Covered, SameZones
  <2> QED
    BY <1>0, <2>1, <2>2, StillCovered, ZenonT(60) DEF Safe, SameZones
<1>5. PublishedInv'
  <2> SUFFICES ASSUME zoneId' = None, Undisturbed', NEW i \in DOMAIN active'
               PROVE  \E q \in dns' : /\ q.name = active'[i].name /\ q.value = active'[i].value
                                      /\ q.zone = Authoritative(q.name)'
    BY ZenonT(60) DEF PublishedInv
  <2>1. CASE i \in DOMAIN active
    <3>1. Publishing /\ zoneId = None /\ Undisturbed
      BY <1>2, ZenonT(60) DEF Publishing, SameZones
    <3>2. PICK q \in dns : /\ q.name = active[i].name /\ q.value = active[i].value
                           /\ q.zone = Authoritative(q.name)
      BY <2>1, <3>1, ZenonT(60) DEF Safe, PublishedInv
    <3>3. Authoritative(q.name)' = Authoritative(q.name)
      BY SameAuthority, ZenonT(60) DEF SameZones
    <3> QED
      BY <1>1, <2>1, <3>2, <3>3, ZenonT(60)
  <2>2. CASE i = Len(active) + 1
    <3>1. Authoritative(r.name)' = Authoritative(r.name) /\ r.zone = Authoritative(r.name)
      BY <1>2, SameAuthority, ZenonT(60) DEF SameZones
    <3> QED
      BY <1>1, <2>2, <3>1, SMTT(60)
  <2> QED
    BY <1>1, <2>1, <2>2
<1> QED
  BY <1>3, <1>4, <1>5, ZenonT(60) DEF Safe

LEMMA CreateSafe ==
  ASSUME Shape, Safe, CreateRecord PROVE Safe'
<1>0. /\ pc = "create" /\ kind' = kind /\ zoneId' = zoneId /\ zones' = zones
      /\ zoneCache' = zoneCache
  BY ZenonT(60) DEF CreateRecord
<1>1. /\ job.op = "publish" /\ kind = "cloudflare" /\ job.name \in RecordNames
      /\ job.id = << job.value[1], orders >>
  BY <1>0, ZenonT(60) DEF Shape, JobInv
<1>2. Undisturbed => IsZoneOf(job.name, job.zone)
  BY <1>0, ZenonT(60) DEF Safe, WalkInv
<1>3. ASSUME ZoneThere, dns' = dns \cup {TxtRecord}, Track, Published, UNCHANGED auxVars
      PROVE  Safe'
  <2>1. zoneId = None /\ Undisturbed => job.zone = Authoritative(job.name)
    BY <1>1, <1>2, <1>3, ResolvedAnswers, ZenonT(60) DEF IsZoneOf, Shape, ZoneThere
  <2>2. /\ TxtRecord.name = job.name /\ TxtRecord.value = job.value /\ TxtRecord.id = job.id
        /\ TxtRecord.zone = job.zone
    BY ZenonT(60) DEF TxtRecord
  <2>3. SameZones /\ orders' = orders /\ pc' = "ready"
        /\ active' = Append(active, [name |-> job.name, value |-> job.value])
    BY <1>0, <1>3, ZenonT(60) DEF SameZones, auxVars, Published, Goto
  <2>4. PICK r : r = TxtRecord
    BY ZenonT(60)
  <2> QED
    BY <1>0, <1>1, <1>2, <1>3, <2>1, <2>2, <2>3, <2>4, PublishedSafe, ZenonT(60)
<1>4. ASSUME Blemish, Return, dns' \subseteq dns \cup {TxtRecord}
      PROVE  Safe'
  <2>1. TxtRecord.id[2] = orders
    BY <1>1 DEF TxtRecord
  <2> QED
    BY <1>4, <2>1, ReturnOrders, DisturbedStep, ZenonT(60) DEF Safe
<1> QED
  BY <1>3, <1>4, ZenonT(60) DEF CreateRecord, Fault

LEMMA HookSafe ==
  ASSUME Shape, Safe, PublishHook PROVE Safe'
<1> DEFINE record == [TxtRecord EXCEPT !.zone = Authoritative(job.name)]
<1>0. /\ pc = "hook" /\ kind' = kind /\ zoneId' = zoneId /\ zones' = zones
      /\ zoneCache' = zoneCache
  BY ZenonT(60) DEF PublishHook, providerVars
<1>1. /\ job.op = "publish" /\ kind = "manual" /\ job.name \in RecordNames
      /\ job.id = << job.value[1], orders >>
  BY <1>0, ZenonT(60) DEF Shape, JobInv
<1>2. /\ record.name = job.name /\ record.value = job.value /\ record.id = job.id
      /\ record.zone = Authoritative(job.name)
  BY ZenonT(60) DEF TxtRecord
<1>3. \/ dns' = dns \cup {record} /\ Published /\ UNCHANGED auxVars
      \/ Blemish /\ (Return \/ Published) /\ dns' \in {dns, dns \cup {record}}
  BY ZenonT(60) DEF PublishHook, Fault, LeftToOperator
<1> HIDE DEF record
<1>4. CASE dns' = dns \cup {record} /\ Published /\ UNCHANGED auxVars
  <2>1. SameZones /\ orders' = orders /\ pc' = "ready"
        /\ active' = Append(active, [name |-> job.name, value |-> job.value])
    BY <1>0, <1>4, ZenonT(60) DEF SameZones, auxVars, Published, Goto
  <2>2. PICK r : r = record
    BY ZenonT(60)
  <2> QED
    BY <1>0, <1>1, <1>2, <1>4, <2>1, <2>2, PublishedSafe, ZenonT(60)
<1>5. CASE Blemish /\ (Return \/ Published) /\ dns' \in {dns, dns \cup {record}}
  <2>1. orders' = orders
    BY <1>5, ReturnOrders, ZenonT(60) DEF Published
  <2> QED
    BY <1>1, <1>2, <1>5, <2>1, DisturbedStep DEF Safe
<1> QED
  BY <1>3, <1>4, <1>5, ZenonT(60)

LEMMA ReadySafe ==
  ASSUME Shape, Safe, SetReady PROVE Safe'
<1>0. /\ pc = "ready" /\ kind' = kind /\ zoneId' = zoneId /\ zones' = zones
      /\ zoneCache' = zoneCache /\ dns' = dns /\ records' = records
  BY ZenonT(60) DEF SetReady, providerVars
<1>1. CASE Fault /\ Return
  BY <1>0, <1>1, ReturnOrders, DisturbedStep, ZenonT(60) DEF Safe, Fault
<1>2. CASE Goto("authorize") /\ UNCHANGED << active, orders, auxVars >>
  <2>1. SameZones /\ pc' = "authorize"
    BY <1>0, <1>2, ZenonT(60) DEF SameZones, auxVars, Goto
  <2>2. Publishing
    BY <1>0, ZenonT(60) DEF Publishing
  <2> QED
    BY <1>0, <1>2, <2>1, <2>2, KeepsRecords, ZenonT(60)
<1> QED
  BY <1>1, <1>2, ZenonT(60) DEF SetReady

LEMMA FinalizeSafe ==
  ASSUME Shape, Safe, Finalize PROVE Safe'
<1>0. /\ pc = "authorize" /\ pc' = "cleanup" /\ kind' = kind /\ zoneId' = zoneId /\ zones' = zones
      /\ zoneCache' = zoneCache /\ dns' = dns /\ records' = records
      /\ active' = active /\ orders' = orders
  BY ZenonT(60) DEF Finalize, envVars, providerVars, Goto
<1>1. CASE Fault
  BY <1>0, <1>1, DisturbedStep, ZenonT(60) DEF Safe, Fault
<1>2. CASE UNCHANGED auxVars
  <2>1. SameZones
    BY <1>0, <1>2, ZenonT(60) DEF SameZones, auxVars
  <2>2. ~Publishing'
    BY <1>0, ZenonT(60) DEF Publishing
  <2> QED
    BY <1>0, <2>1, <2>2, KeepsRecords, ZenonT(60)
<1> QED
  BY <1>1, <1>2, ZenonT(60) DEF Finalize

\* A step of the teardown: what it leaves is still covered.
LEMMA TeardownSafe ==
  ASSUME Shape, Safe, SameZones, orders' = orders, dns' \subseteq dns, ~Publishing', pc' # "idle",
         pc' \notin {"create", "delete"},
         pc' = "zone" => job'.at = 1,
         \A r \in dns' : r.id[2] \notin blemished /\ r.id[2] = orders /\ Covered(r) => Covered(r)'
  PROVE  Safe'
<1>1. WalkInv'
  <2>1. Undisturbed' /\ kind' = "cloudflare" =>
          \A r \in dns' : r.id[2] \notin blemished' => IsZoneOf(r.name, r.zone)'
    BY RecordZones, SameWalks, ZenonT(60) DEF Safe, SameZones
  <2>2. pc' = "zone" => NothingBefore(job.name, job.at)'
    BY SMTT(60) DEF NothingBefore
  <2> QED
    BY <2>1, <2>2, ZenonT(60) DEF WalkInv
<1>2. CoverInv'
  BY StillCovered, ZenonT(60) DEF Safe, SameZones
<1>3. PublishedInv'
  BY ZenonT(60) DEF PublishedInv
<1> QED
  BY <1>1, <1>2, <1>3, ZenonT(60) DEF Safe

LEMMA CleanUpSafe ==
  ASSUME Shape, Safe, CleanUp PROVE Safe'
<1>0. /\ pc = "cleanup" /\ kind' = kind /\ zoneId' = zoneId /\ zones' = zones
      /\ zoneCache' = zoneCache
  BY CleanUpTurns, ZenonT(60)
<1>1. active \in Seq([name : RecordNames, value : RecordValues])
  BY ZenonT(60) DEF Shape, TypeOK
<1>2. ASSUME active # <<>>, active' = Tail(active), NEW i \in DOMAIN active,
             active[i] # Head(active)
      PROVE  \E j \in DOMAIN active' : active'[j] = active[i]
  <2>1. i # 1 /\ i \in 1..Len(active) /\ Len(active) \in Nat
    BY <1>1, <1>2
  <2>2. i - 1 \in DOMAIN active' /\ active'[i - 1] = active[i]
    BY <1>1, <1>2, <2>1, SMTT(60)
  <2> QED
    BY <2>2, ZenonT(60)
<1>3. CASE TeardownEnds
  <2>1. \A r \in dns : r.id[2] \in blemished
    BY <1>0, <1>3, CoveredByActive DEF TeardownEnds, Safe, CoverInv
  <2>2. dns' = dns /\ blemished' = blemished /\ pc' = "idle"
    BY <1>3, ZenonT(60) DEF TeardownEnds, Return, auxVars
  <2> QED
    BY <2>1, <2>2, ZenonT(60) DEF Safe, WalkInv, CoverInv, PublishedInv, Publishing
<1>4. CASE HookRemoves
  <2>1. CASE (Fault \/ LeftToOperator) /\ UNCHANGED dns
    BY <1>4, <2>1, DisturbedStep, ZenonT(60) DEF HookRemoves, Safe, Fault, LeftToOperator
  <2>2. CASE /\ dns' = {r \in dns : << r.name, r.value >> # << Head(active).name, Head(active).value >>}
             /\ UNCHANGED auxVars
    <3>1. /\ SameZones /\ orders' = orders /\ dns' \subseteq dns /\ pc' = "cleanup" /\ ~Publishing'
          /\ kind = "manual" /\ active # <<>> /\ active' = Tail(active)
      BY <1>0, <1>4, <2>2, ZenonT(60) DEF HookRemoves, SameZones, auxVars, Publishing
    <3>2. ASSUME NEW r \in dns', Covered(r) PROVE Covered(r)'
      <4>1. PICK i \in DOMAIN active : active[i] = [name |-> r.name, value |-> r.value]
        BY <1>0, <3>2, CoveredByActive, ZenonT(60)
      <4>2. active[i] # Head(active)
        BY <2>2, <4>1
      <4>3. \E j \in DOMAIN active' : active'[j] = [name |-> r.name, value |-> r.value]
        BY <1>2, <3>1, <4>1, <4>2, ZenonT(60)
      <4> QED
        BY <1>0, <3>1, <4>3, ZenonT(60) DEF Covered
    <3> QED
      BY <3>1, <3>2, TeardownSafe, ZenonT(60)
  <2> QED
    BY <1>4, <2>1, <2>2, ZenonT(60) DEF HookRemoves
<1>5. CASE TakeEntry
  <2>1. /\ SameZones /\ orders' = orders /\ dns' = dns
        /\ kind = "cloudflare" /\ active # <<>> /\ active' = Tail(active)
        /\ records' = records \ HeadEntries
        /\ pc' = IF HeadEntries = {} THEN "cleanup" ELSE "zone"
    BY <1>0, <1>5, ZenonT(60) DEF TakeEntry, SameZones, auxVars, Goto
  <2>2. HeadEntries # {} =>
          \E e \in HeadEntries : /\ job'.op = "cleanup" /\ job'.id = e.id /\ job'.name = e.name
                                 /\ job'.at = 1
    <3> SUFFICES ASSUME HeadEntries # {}
                 PROVE  \E e \in HeadEntries : /\ job'.op = "cleanup" /\ job'.id = e.id
                                               /\ job'.name = e.name /\ job'.at = 1
      BY ZenonT(60)
    <3>1. PICK e \in HeadEntries : job' = [NoJob EXCEPT !.op = "cleanup", !.name = e.name,
                                                        !.value = e.value, !.id = e.id]
      BY <1>5, ZenonT(60) DEF TakeEntry
    <3>2. job'.op = "cleanup" /\ job'.id = e.id /\ job'.name = e.name /\ job'.at = 1
      BY <3>1, ZenonT(60) DEF NoJob
    <3> QED
      BY <3>2, ZenonT(60)
  <2>3. ASSUME NEW r \in dns', Covered(r) PROVE Covered(r)'
    <3> DEFINE e == [name |-> r.name, value |-> r.value, id |-> r.id]
    <3>1. PICK i \in DOMAIN active : active[i] = [name |-> r.name, value |-> r.value]
      BY <1>0, <2>3, CoveredByActive, ZenonT(60)
    <3>2. e \in records
      BY <1>0, <2>1, <2>3, CoveredByActive, ZenonT(60)
    <3>3. CASE e \in HeadEntries
      <4>1. PICK f \in HeadEntries : job'.op = "cleanup" /\ job'.id = f.id /\ job'.name = f.name
        BY <2>2, <3>3, ZenonT(60)
      <4>2. f = e
        BY <3>3, ZenonT(60) DEF HeadEntries, Shape, OwnersInv
      <4> QED
        BY <1>0, <2>1, <4>1, <4>2, ZenonT(60) DEF Covered
    <3>4. CASE e \notin HeadEntries
      <4>1. active[i] # Head(active)
        BY <3>1, <3>2, <3>4, SMTT(60) DEF HeadEntries
      <4>2. \E j \in DOMAIN active' : active'[j] = [name |-> r.name, value |-> r.value]
        BY <1>2, <2>1, <3>1, <4>1, ZenonT(60)
      <4>3. e \in records'
        BY <2>1, <3>2, <3>4, ZenonT(60)
      <4> QED
        BY <4>2, <4>3, ZenonT(60) DEF Covered
    <3> QED
      BY <3>3, <3>4, ZenonT(60)
  <2>4. ~Publishing' /\ pc' \in {"zone", "cleanup"} /\ (pc' = "zone" => job'.at = 1)
    BY <2>1, <2>2, ZenonT(60) DEF Publishing
  <2> QED
    BY <2>1, <2>3, <2>4, TeardownSafe, ZenonT(60)
<1> QED
  BY <1>3, <1>4, <1>5, CleanUpTurns, ZenonT(60)

LEMMA DeleteSafe ==
  ASSUME Shape, Safe, DeleteRecord PROVE Safe'
<1>0. /\ pc = "delete" /\ kind' = kind /\ zoneId' = zoneId /\ zones' = zones
      /\ zoneCache' = zoneCache /\ records' = records /\ active' = active /\ orders' = orders
      /\ pc' = "cleanup" /\ dns' \subseteq dns
  BY ZenonT(60) DEF DeleteRecord, providerVars, Goto
<1>1. CASE Fault /\ UNCHANGED dns
  BY <1>0, <1>1, DisturbedStep, ZenonT(60) DEF Safe, Fault
<1>2. CASE dns' = {r \in dns : r.id # job.id \/ r.zone # job.zone} /\ UNCHANGED auxVars
  <2>1. SameZones /\ ~Publishing'
    BY <1>0, <1>2, ZenonT(60) DEF SameZones, auxVars, Publishing
  <2>2. ASSUME NEW r \in dns', r.id[2] \notin blemished, r.id[2] = orders, Covered(r)
        PROVE  Covered(r)'
    <3>1. Undisturbed /\ kind = "cloudflare"
      BY <1>0, <2>2, ZenonT(60) DEF Undisturbed, Shape, JobInv
    <3>2. IsZoneOf(r.name, r.zone) /\ IsZoneOf(job.name, job.zone)
      BY <1>0, <2>2, <3>1, ZenonT(60) DEF Safe, WalkInv
    <3>3. r.name \in RecordNames
      BY <1>0, ZenonT(60) DEF Shape, TypeOK, TxtRecords
    <3>4. r.name = job.name => r.zone = job.zone
      BY <3>2, <3>3, ZoneOfIsOne, ZenonT(60)
    <3>5. ~(job.id = r.id /\ job.name = r.name)
      BY <1>2, <3>4, ZenonT(60)
    <3> QED
      BY <1>0, <2>2, <3>5, ZenonT(60) DEF Covered
  <2> QED
    BY <1>0, <2>1, <2>2, TeardownSafe, ZenonT(60)
<1> QED
  BY <1>1, <1>2, ZenonT(60) DEF DeleteRecord

LEMMA OutsideSafe ==
  ASSUME Shape, Safe, ZoneChange \/ Crash PROVE Safe'
<1>1. Blemish /\ orders' = orders /\ dns' \subseteq dns
  BY ReturnOrders, ZenonT(60) DEF ZoneChange, Crash, issueVars, envVars
<1> QED
  BY <1>1, DisturbedStep, ZenonT(60) DEF Safe

-----------------------------------------------------------------------------
(***************************************************************************)
(* The theorems.                                                           *)
(***************************************************************************)

LEMMA InitInv == Init => DnsInv
<1> SUFFICES ASSUME Init PROVE DnsInv
  BY ZenonT(60)
<1>1. TypeOK
  BY InitType, ZenonT(60)
<1>2. /\ dns = {} /\ records = {} /\ active = <<>> /\ pc = "idle" /\ job = NoJob
      /\ zoneCache = [z \in ZoneNames |-> None]
  BY ZenonT(60) DEF Init
<1>3. PICK present \in SUBSET ZoneNames :
        zones = [z \in ZoneNames |-> IF z \in present THEN << z, 0 >> ELSE None]
  BY ZenonT(60) DEF Init
<1>4. ZoneInv
  BY <1>2, <1>3, ZenonT(60) DEF ZoneInv
<1>5. OwnersInv /\ JobInv
  BY <1>2, NoJobType, ZenonT(60) DEF OwnersInv, JobInv
<1>6. WalkInv /\ CoverInv /\ PublishedInv
  BY <1>2 DEF WalkInv, CoverInv, PublishedInv
<1> QED
  BY <1>1, <1>4, <1>5, <1>6, ZenonT(60) DEF DnsInv

LEMMA SafeStep ==
  ASSUME Shape, Safe, [Next]_dnsVars PROVE Safe'
<1>1. CASE UNCHANGED dnsVars
  <2>1. /\ SameZones /\ orders' = orders /\ dns' = dns /\ active' = active /\ records' = records
        /\ pc' = pc /\ job' = job
    BY <1>1, ZenonT(60) DEF dnsVars, envVars, providerVars, issueVars, auxVars, SameZones
  <2>2. CASE pc # "idle"
    <3>1. Publishing' => Publishing
      BY <2>1, ZenonT(60) DEF Publishing
    <3> QED
      BY <2>1, <2>2, <3>1, KeepsRecords, ZenonT(60) DEF Safe, WalkInv
  <2>3. CASE pc = "idle"
    BY <2>1, <2>3, ZenonT(60) DEF Safe, WalkInv, CoverInv, PublishedInv, Publishing, SameZones
  <2> QED
    BY <2>2, <2>3, ZenonT(60)
<1> QED
  BY <1>1, PlaceOrderSafe, AuthorizeSafe, ResolveSafe, CreateSafe, HookSafe, ReadySafe,
     FinalizeSafe, CleanUpSafe, DeleteSafe, OutsideSafe
  DEF Next, ProcessStep

LEMMA InvParts ==
  /\ DnsInv <=> Shape /\ Safe
  /\ DnsInv' <=> Shape' /\ Safe'
  BY ZenonT(60) DEF DnsInv, Shape, Safe

LEMMA DnsInvHolds == Spec => []DnsInv
<1>1. DnsInv /\ [Next]_dnsVars => DnsInv'
  <2> SUFFICES ASSUME DnsInv, [Next]_dnsVars PROVE DnsInv'
    BY ZenonT(60)
  <2>1. Shape /\ Safe
    BY InvParts, ZenonT(60)
  <2>2. Shape'
    BY <2>1, TypeStep, ZoneStep, OwnersStep, JobStep, ZenonT(60) DEF Shape
  <2> QED
    BY <2>1, <2>2, SafeStep, InvParts, ZenonT(60)
<1> QED
  BY <1>1, InitInv, PTL DEF Spec

\* publish, by Cloudflare's API or by a hook, and set_ready: whatever ids the
\* zone cache holds from earlier orders, and however the account's zones changed
\* before, an order that meets no disturbance and is not left to the operator
\* tells the CA only of values that are in the zone that answers for their name.
THEOREM ToldIsPublished == Spec => []ReadyIsPublished
<1>1. DnsInv => ReadyIsPublished
  BY ZenonT(60) DEF DnsInv, PublishedInv, Publishing, ReadyIsPublished, Undisturbed
<1> QED
  BY <1>1, DnsInvHolds, PTL

\* issue()'s teardown with the records map: after any sequence of orders,
\* crashes and faults, every TXT record that is left was created in an order
\* that was disturbed itself, or for which the manual provider lacks a command.
THEOREM UndisturbedLeavesNothing == Spec => []NoOrphanRecords
<1>1. DnsInv => NoOrphanRecords
  BY ZenonT(60) DEF DnsInv, CoverInv, NoOrphanRecords
<1> QED
  BY <1>1, DnsInvHolds, PTL
=============================================================================
