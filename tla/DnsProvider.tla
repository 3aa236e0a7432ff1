----------------------------- MODULE DnsProvider -----------------------------
(***************************************************************************)
(* DNS-01 (src/src/acme.rs): CloudflareDnsProvider and ManualDnsProvider,  *)
(* and the part of AcmeManager::issue that calls them: one publish per     *)
(* authorization, set_ready, the order's end, one cleanup per published    *)
(* record.  One action per request to the Cloudflare API, per hook or per  *)
(* request to the CA.  Orders follow one another; the process can crash in *)
(* any of them, and the account's zones can change.                        *)
(*                                                                         *)
(* A name is a sequence of labels.  The Cloudflare account, the hooks and  *)
(* the CA are external: the CA may offer an authorization that is still    *)
(* pending again, with its token.  The propagation wait is part of publish. *)
(***************************************************************************)
EXTENDS Naturals, FiniteSets, Sequences

CONSTANTS
  Kinds,          \* the providers that can be configured: "cloudflare", "manual"
  Domains,        \* the configured domains: [wildcard, base] records
  ZoneNames,      \* names of zones the account can have
  MaxOrders,      \* bound: orders
  MaxFaults,      \* bound: requests and hooks that fail
  MaxCrashes,     \* bound: crashes
  MaxZoneChanges, \* bound: zones created or deleted
  None            \* Option::None

ASSUME DnsConstants ==
  /\ Kinds \subseteq {"cloudflare", "manual"}
  /\ Domains \subseteq [wildcard : BOOLEAN, base : Seq(STRING) \ {<<>>}]
  /\ None \notin ZoneNames \X Nat
  /\ MaxOrders \in Nat /\ MaxFaults \in Nat /\ MaxCrashes \in Nat /\ MaxZoneChanges \in Nat

VARIABLES
  kind,      \* cfg.dns.provider
  hooks,     \* cfg.dns: the commands the manual provider has, of HookCommands
  zoneId,    \* cfg.dns.zone_id
  zones,     \* the account: [ZoneNames -> zone id or None]
  dns,       \* the TXT records there are: [id, zone, name, value]
  pending,   \* [Domains -> token of its pending authorization, 0 for none]
  zoneCache, \* zone_cache: [ZoneNames -> zone id or None]
  records,   \* records: created records by name and value, [name, value, id]
  todo,      \* domains whose authorization is still to come
  active,    \* active_dns: published and not yet cleaned up, [name, value]
  pc,        \* where issue() is
  job,       \* the publish or cleanup under way: [op, name, value, at, zone, id]
  orders,    \* orders placed so far
  used,      \* how much of the bounds was used, and the last zone id given
  blemished  \* auxiliary: the orders in which something failed, was refused,
             \* crashed, was left to the operator or had its zones changed

envVars == << kind, hooks, zoneId, zones, dns, pending >>
providerVars == << zoneCache, records >>
issueVars == << todo, active, pc, job, orders >>
auxVars == << used, blemished >>
dnsVars == << envVars, providerVars, issueVars, auxVars >>

\* hook_command and cleanup_command, each of which can be left out.
HookCommands == {"hook_command", "cleanup_command"}

\* dns_record_name: "*." is stripped, so a wildcard and its base share a name.
DnsRecordName(d) == d.base

\* The TXT value: the digest of the authorization's token.
Value(d, token) == << d, token >>

\* zone_candidates: the name and its parents, the most specific first.
ZoneCandidates(name) == [i \in 1..Len(name) |-> SubSeq(name, i, Len(name))]

NoJob == [op |-> "none", name |-> <<>>, value |-> None, at |-> 1, zone |-> None, id |-> None]

\* The zone that answers for a name: the most specific one there is.
Authoritative(name) ==
  LET zs == {i \in 1..Len(name) : ZoneCandidates(name)[i] \in ZoneNames
                                  /\ zones[ZoneCandidates(name)[i]] # None}
  IN  IF zs = {} THEN None
      ELSE zones[ZoneCandidates(name)[CHOOSE i \in zs : \A j \in zs : i <= j]]

Init ==
  /\ kind \in Kinds
  /\ hooks \in IF kind = "manual" THEN SUBSET HookCommands ELSE {{}}
  /\ \E present \in SUBSET ZoneNames :
       /\ zones = [z \in ZoneNames |-> IF z \in present THEN << z, 0 >> ELSE None]
       /\ zoneId \in {None} \cup {zones[z] : z \in present}
       /\ kind = "manual" => zoneId = None
  /\ dns = {} /\ pending = [d \in Domains |-> 0]
  /\ zoneCache = [z \in ZoneNames |-> None]
  /\ records = {}
  /\ todo = {} /\ active = <<>> /\ pc = "idle" /\ job = NoJob /\ orders = 0
  /\ used = [faults |-> 0, crashes |-> 0, zones |-> 0]
  /\ blemished = {}

Blemish == blemished' = blemished \cup {orders}

Fault ==
  /\ used.faults < MaxFaults
  /\ used' = [used EXCEPT !.faults = @ + 1]
  /\ Blemish

\* The provider has no command to run: what is to be done is the operator's.
LeftToOperator == Blemish /\ UNCHANGED used

Goto(label) == pc' = label

\* issue() returns; what it held goes with it.
Return == pc' = "idle" /\ todo' = {} /\ active' = <<>> /\ job' = NoJob /\ UNCHANGED orders

-----------------------------------------------------------------------------
\* A zone is created or deleted; a deleted zone's records go with it, and a
\* zone that is created again gets another id.
ZoneChange ==
  /\ used.zones < MaxZoneChanges
  /\ used' = [used EXCEPT !.zones = @ + 1]
  /\ \E z \in ZoneNames :
       \/ /\ zones[z] = None
          /\ zones' = [zones EXCEPT ![z] = << z, used.zones + 1 >>]
          /\ UNCHANGED dns
       \/ /\ zones[z] # None
          /\ zones' = [zones EXCEPT ![z] = None]
          /\ dns' = {r \in dns : r.zone # zones[z]}
  /\ Blemish
  /\ UNCHANGED << kind, hooks, zoneId, pending, providerVars, issueVars >>

\* The process dies and is started again: its maps are empty.
Crash ==
  /\ used.crashes < MaxCrashes /\ pc # "idle"
  /\ used' = [used EXCEPT !.crashes = @ + 1]
  /\ Blemish
  /\ zoneCache' = [z \in ZoneNames |-> None] /\ records' = {}
  /\ Return
  /\ UNCHANGED envVars

\* issue() up to the loop over the authorizations.
PlaceOrder ==
  /\ pc = "idle" /\ orders < MaxOrders
  /\ orders' = orders + 1
  /\ todo' = Domains /\ active' = <<>> /\ job' = NoJob
  /\ Goto("authorize")
  /\ UNCHANGED << envVars, providerVars, auxVars >>

\* One turn of the loop, up to the call of publish.
Authorize ==
  /\ pc = "authorize" /\ todo # {}
  /\ \/ \E d \in todo :
          /\ todo' = todo \ {d}
          /\ \/ UNCHANGED << pc, job, pending >>
             \/ \E token \in {orders} \cup ({pending[d]} \ {0}) :
                  /\ pending' = [pending EXCEPT ![d] = token]
                  /\ job' = [NoJob EXCEPT !.op = "publish", !.name = DnsRecordName(d),
                                          !.value = Value(d, token), !.id = << d, orders >>]
                  /\ Goto(IF kind = "manual" THEN "hook" ELSE "zone")
          /\ UNCHANGED << active, orders, auxVars >>
     \/ Fault /\ Return /\ UNCHANGED pending
  /\ UNCHANGED << kind, hooks, zoneId, zones, dns, providerVars >>

\* publish or cleanup gives up: publish's error ends issue() before its
\* teardown, a cleanup's is logged and the next one runs.
GiveUp ==
  \/ job.op = "publish" /\ Return
  \/ job.op = "cleanup" /\ Goto("cleanup") /\ job' = NoJob /\ UNCHANGED << todo, active, orders >>

Found(zone) ==
  /\ job' = [job EXCEPT !.zone = zone]
  /\ Goto(IF job.op = "publish" THEN "create" ELSE "delete")
  /\ UNCHANGED << todo, active, orders >>

Candidate == ZoneCandidates(job.name)[job.at]
Known(zmap, z) == z \in ZoneNames /\ zmap[z] # None

\* The cache is asked for every candidate before the API is asked for one.
LookUpMutant ==
  LET hits == {i \in 1..Len(job.name) : Known(zoneCache, ZoneCandidates(job.name)[i])} IN
  \/ /\ hits # {}
     /\ Found(zoneCache[ZoneCandidates(job.name)[CHOOSE i \in hits : \A j \in hits : i <= j]])
     /\ UNCHANGED << zoneCache, auxVars >>
  \/ /\ hits = {} /\ job.at <= Len(job.name) /\ Known(zones, Candidate)
     /\ Found(zones[Candidate])
     /\ zoneCache' = [zoneCache EXCEPT ![Candidate] = zones[Candidate]]
     /\ UNCHANGED auxVars
  \/ /\ hits = {} /\ job.at <= Len(job.name) /\ ~Known(zones, Candidate)
     /\ job' = [job EXCEPT !.at = @ + 1]
     /\ UNCHANGED << pc, todo, active, orders, zoneCache, auxVars >>
  \/ job.at > Len(job.name) /\ GiveUp /\ Blemish /\ UNCHANGED << zoneCache, used >>

\* One candidate: its cached id, or a GET that finds the zone, finds none or
\* fails; after the last candidate an error.
LookUp ==
  \/ /\ job.at <= Len(job.name) /\ Known(zoneCache, Candidate)
     /\ Found(zoneCache[Candidate])
     /\ UNCHANGED << zoneCache, auxVars >>
  \/ /\ job.at <= Len(job.name) /\ ~Known(zoneCache, Candidate) /\ Known(zones, Candidate)
     /\ Found(zones[Candidate])
     /\ zoneCache' = [zoneCache EXCEPT ![Candidate] = zones[Candidate]]
     /\ UNCHANGED auxVars
  \/ /\ job.at <= Len(job.name) /\ ~Known(zoneCache, Candidate) /\ ~Known(zones, Candidate)
     /\ job' = [job EXCEPT !.at = @ + 1]
     /\ UNCHANGED << pc, todo, active, orders, zoneCache, auxVars >>
  \/ /\ job.at <= Len(job.name) /\ ~Known(zoneCache, Candidate)
     /\ Fault /\ GiveUp /\ UNCHANGED zoneCache
  \/ /\ job.at > Len(job.name)
     /\ GiveUp /\ Blemish /\ UNCHANGED << zoneCache, used >>

\* resolve_zone_id: the configured id, or the walk over the candidates.
ResolveZoneId ==
  /\ pc = "zone"
  /\ \/ zoneId # None /\ Found(zoneId) /\ UNCHANGED << zoneCache, auxVars >>
     \/ zoneId = None /\ LookUp
  /\ UNCHANGED << envVars, records >>

TxtRecord == [id |-> job.id, zone |-> job.zone, name |-> job.name, value |-> job.value]
Entry == [name |-> job.name, value |-> job.value, id |-> job.id]

\* A map from names to record ids.
TrackMutant == records' = {e \in records : e.name # job.name} \cup {Entry}

\* records.insert((record_name, value), id).
Track == records' = {e \in records : << e.name, e.value >> # << job.name, job.value >>} \cup {Entry}

\* publish has returned Ok: active_dns.push.
Published ==
  /\ active' = Append(active, [name |-> job.name, value |-> job.value])
  /\ Goto("ready")
  /\ UNCHANGED << todo, job, orders >>

\* The zone is still there, and if it has the very record already, the API may
\* refuse to add another.
ZoneThere == \E z \in ZoneNames : zones[z] = job.zone
Duplicate == \E r \in dns : r.zone = job.zone /\ r.name = job.name /\ r.value = job.value

\* The POST of publish: the record is created and tracked; refused; or the
\* request or its answer is lost, before or after the record was created.
CreateRecord ==
  /\ pc = "create"
  /\ \/ /\ ZoneThere
        /\ dns' = dns \cup {TxtRecord}
        /\ Track /\ Published
        /\ UNCHANGED auxVars
     \/ /\ ~ZoneThere \/ Duplicate
        /\ Return /\ Blemish
        /\ UNCHANGED << dns, records, used >>
     \/ /\ Fault /\ Return
        /\ dns' \in {dns} \cup (IF ZoneThere THEN {dns \cup {TxtRecord}} ELSE {})
        /\ UNCHANGED records
  /\ UNCHANGED << kind, hooks, zoneId, zones, pending, zoneCache >>

\* The manual publish: the hook publishes where the name belongs, or fails,
\* before or after it did.  Without a hook the record is logged and publish
\* returns Ok once the wait is over, whether the operator created it or not.
PublishHook ==
  LET record == [TxtRecord EXCEPT !.zone = Authoritative(job.name)] IN
  /\ pc = "hook"
  /\ \/ /\ "hook_command" \in hooks
        /\ dns' = dns \cup {record}
        /\ Published /\ UNCHANGED auxVars
     \/ /\ "hook_command" \in hooks
        /\ dns' \in {dns, dns \cup {record}}
        /\ Fault /\ Return
     \/ /\ "hook_command" \notin hooks
        /\ dns' \in {dns, dns \cup {record}}
        /\ LeftToOperator /\ Published
  /\ UNCHANGED << kind, hooks, zoneId, zones, pending, providerVars >>

\* challenge.set_ready().await?; the authorization is no longer pending.
SetReady ==
  /\ pc = "ready"
  /\ \/ /\ Goto("authorize")
        /\ pending' = [pending EXCEPT ![job.id[1]] = 0]
        /\ job' = NoJob
        /\ UNCHANGED << todo, active, orders, auxVars >>
     \/ Fault /\ Return /\ UNCHANGED pending
  /\ UNCHANGED << kind, hooks, zoneId, zones, dns, providerVars >>

\* finalize_and_fetch returns, with a certificate or an error.
Finalize ==
  /\ pc = "authorize" /\ todo = {}
  /\ \/ UNCHANGED auxVars
     \/ Fault
  /\ Goto("cleanup")
  /\ UNCHANGED << envVars, providerVars, todo, active, job, orders >>

\* The teardown loop over active_dns, up to the next await: the hook, if
\* there is one, removes the record; Cloudflare's entry is removed, and its zone is resolved next.
CleanUp ==
  /\ pc = "cleanup"
  /\ \/ active = <<>> /\ Return /\ UNCHANGED << dns, records, auxVars >>
     \/ /\ active # <<>> /\ kind = "manual"
        /\ active' = Tail(active)
        /\ \/ /\ "cleanup_command" \in hooks
              /\ dns' = {r \in dns : << r.name, r.value >> # << Head(active).name, Head(active).value >>}
              /\ UNCHANGED auxVars
           \/ "cleanup_command" \in hooks /\ Fault /\ UNCHANGED dns
           \/ "cleanup_command" \notin hooks /\ LeftToOperator /\ UNCHANGED dns
        /\ UNCHANGED << records, todo, pc, job, orders >>
     \/ /\ active # <<>> /\ kind = "cloudflare"
        /\ active' = Tail(active)
        /\ LET mine == {e \in records : << e.name, e.value >>
                                          = << Head(active).name, Head(active).value >>}
           IN  /\ records' = records \ mine
               /\ job' \in IF mine = {} THEN {NoJob}
                          ELSE {[NoJob EXCEPT !.op = "cleanup", !.name = e.name,
                                              !.value = e.value, !.id = e.id] : e \in mine}
               /\ Goto(IF mine = {} THEN "cleanup" ELSE "zone")
        /\ UNCHANGED << dns, todo, orders, auxVars >>
  /\ UNCHANGED << kind, hooks, zoneId, zones, pending, zoneCache >>

\* The DELETE of cleanup: best effort, and the entry is gone already.
DeleteRecord ==
  /\ pc = "delete"
  /\ \/ /\ dns' = {r \in dns : r.id # job.id \/ r.zone # job.zone}
        /\ UNCHANGED auxVars
     \/ Fault /\ UNCHANGED dns
  /\ Goto("cleanup") /\ job' = NoJob
  /\ UNCHANGED << kind, hooks, zoneId, zones, pending, providerVars, todo, active, orders >>

ProcessStep ==
  \/ PlaceOrder \/ Authorize \/ ResolveZoneId \/ CreateRecord \/ PublishHook \/ SetReady
  \/ Finalize \/ CleanUp \/ DeleteRecord

Next == ZoneChange \/ Crash \/ ProcessStep

Spec == Init /\ [][Next]_dnsVars
-----------------------------------------------------------------------------
\* Whatever zone ids the cache holds from earlier orders, when the CA is asked
\* to validate, every value it was told is ready is in the zone that answers
\* for its name, unless the order met a zone change or its records were left to
\* the operator: Cloudflare and a hook publish before they return, the manual
\* provider without a hook only waits.  A configured zone id is taken at its
\* word.
ReadyIsPublished ==
  pc = "authorize" /\ zoneId = None /\ orders \notin blemished =>
    \A i \in DOMAIN active :
      \E r \in dns : /\ r.name = active[i].name /\ r.value = active[i].value
                     /\ r.zone = Authoritative(r.name)

\* A TXT record that outlives its order was created in an order that was
\* disturbed itself, or the operator's to create or to remove: an order in which
\* no request failed or was refused, and for which the provider has its commands,
\* removes all of its records, also where a wildcard and its base share a name,
\* and whatever earlier orders left behind.
NoOrphanRecords ==
  pc = "idle" => \A r \in dns : r.id[2] \in blemished
=============================================================================
