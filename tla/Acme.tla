-------------------------------- MODULE Acme --------------------------------
(***************************************************************************)
(* The ACME certificate's life (src/src/acme.rs, setup_acme in main.rs,    *)
(* AcmeResolver in tls.rs): start-up from the cache or by issuance, the    *)
(* renewal loop, the challenge responses, the cache files, and crashes and *)
(* restarts, possibly with another configuration.                          *)
(*                                                                         *)
(* Issuance is split where the code awaits or writes a file.  The CA, the  *)
(* disk and whatever restarts the process are external; each of their      *)
(* faults is drawn from a budget.  Publishing a TXT record is one step     *)
(* that can fail (its requests are in DnsProvider).  Time is counted in    *)
(* units of RENEW_BEFORE.                                                  *)
(***************************************************************************)
EXTENDS Integers, FiniteSets

CONSTANTS
  Configs,       \* [challenge, domains, directory] records a start can find
  HasCache,      \* cache_dir is set
  Lifetime,      \* validity of an issued certificate
  MaxNow,        \* bound: time
  MaxCrashes,    \* bound: crashes
  MaxCaFaults,   \* bound: failures of the CA, of DNS or of the network
  MaxDiskFaults, \* bound: failed writes
  None,          \* nothing there
  Torn           \* a file that was cut off while it was written

ASSUME AcmeConstants ==
  /\ HasCache \in BOOLEAN
  /\ Lifetime \in Nat /\ MaxNow \in Nat /\ MaxCrashes \in Nat
  /\ MaxCaFaults \in Nat /\ MaxDiskFaults \in Nat

VARIABLES
  now,        \* the clock
  config,     \* the configuration this process started with
  pc,         \* what the one task that can issue does
  why,        \* who called issue(): "startup" or "renewal"
  bound,      \* the TLS listener accepts connections
  responder,  \* the HTTP-01 responder: none, spawned, listening
  live,       \* AcmeResolver.current: [cert, key], or None
  disk,       \* the cache: [cert, key, account]
  responses,  \* Http01Tokens or AcmeResolver.challenges: [domain, age]
  order,      \* the order: [todo, active, directory]
  issued,     \* the IssuedCert in hand
  faults      \* how many crashes, CA faults and disk faults there have been

setting == << now, config >>
listening == << bound, responder >>
work == << responses, order, issued >>
acmeVars == << setting, pc, why, listening, live, disk, work, faults >>

Domains == UNION {c.domains : c \in Configs}
Response(d, age) == [domain |-> d, age |-> age]
NoOrder == [todo |-> {}, active |-> {}, directory |-> None]

\* A key has its certificate's serial; three pairs exist at once at most.
Serials == 1..4

Directories == {c.directory : c \in Configs}
Certs == [serial : Serials, expires : 0..MaxNow + Lifetime,
          domains : {c.domains : c \in Configs}, directory : Directories]
Pairs == [cert : Certs, key : Serials]

\* AcmeChallenge's variants; and nothing that is there looks as if it were not.
ASSUME AcmeValues ==
  /\ \A c \in Configs : c.challenge \in {"http-01", "tls-alpn-01", "dns-01"}
  /\ None # Torn
  /\ \A absent \in {None, Torn} : /\ absent \notin Serials /\ absent \notin Directories
                                 /\ absent \notin Certs /\ absent \notin Pairs

\* IssuedCert::needs_renewal, RENEW_BEFORE being one unit of time.
NeedsRenewal(cert) == cert # Torn => cert.expires - now <= 1

\* into_certified_key accepts a pair only if the key is the certificate's.
IntoCertifiedKeyMutant(pair) == pair.cert # Torn /\ pair.key # Torn
IntoCertifiedKey(pair) == pair.cert # Torn /\ pair.key = pair.cert.serial

Init ==
  /\ now = 0
  /\ config \in Configs
  /\ pc = "down" /\ why = "startup" /\ bound = FALSE /\ responder = "none"
  /\ live = None
  /\ disk = [cert |-> None, key |-> None, account |-> None]
  /\ responses = {} /\ order = NoOrder /\ issued = None
  /\ faults = [crash |-> 0, ca |-> 0, disk |-> 0]

Budget(kind) ==
  faults[kind] < CASE kind = "crash" -> MaxCrashes
                   [] kind = "ca" -> MaxCaFaults
                   [] kind = "disk" -> MaxDiskFaults

Fault(kind) == Budget(kind) /\ faults' = [faults EXCEPT ![kind] = @ + 1]

\* The process is gone, and its memory with it.
Exit ==
  /\ pc' = "down" /\ why' = "startup" /\ bound' = FALSE /\ responder' = "none"
  /\ live' = None /\ responses' = {} /\ order' = NoOrder /\ issued' = None
  /\ UNCHANGED setting

\* issue() returns an error: start-up aborts, the renewal loop sleeps again.
IssueFails ==
  \/ why = "startup" /\ Exit
  \/ /\ why = "renewal"
     /\ pc' = "idle"
     /\ order' = NoOrder /\ issued' = None
     /\ UNCHANGED << setting, why, listening, live, responses >>

Goto(label) == pc' = label

\* Cache::load_cert: both files are there.
HasPair == HasCache /\ disk.cert # None /\ disk.key # None
Cached == [cert |-> disk.cert, key |-> disk.key]
HasAccount == HasCache /\ disk.account \notin {None, Torn}

\* The file that is written at this point, cut off.
CutOff ==
  CASE pc = "write_cert" -> {[disk EXCEPT !.cert = Torn]}
    [] pc = "write_key" -> {[disk EXCEPT !.key = Torn]}
    [] pc = "account" /\ HasCache /\ ~HasAccount -> {[disk EXCEPT !.account = Torn]}
    [] OTHER -> {}

\* A write fails: the old file is left, or part of the new one.
WriteFails == Fault("disk") /\ disk' \in {disk} \cup CutOff /\ IssueFails

\* A loop that asks only whether there is a certificate.
RenewalDueMutant == live = None

\* What renewal_loop goes by: whether there is a live certificate, and then
\* the certificate in the cache, or that there is none.
RenewalDue == live # None /\ HasPair => NeedsRenewal(disk.cert)

-----------------------------------------------------------------------------
\* Start-up and issuance take no time on a scale of 30 days, and of the sixty
\* checks in such a unit one succeeds once the CA does: the clock does not pass
\* a unit in which the loop would renew a certificate that is due.
Tick ==
  /\ now < MaxNow
  /\ pc \in {"down", "idle"}
  /\ pc = "idle" /\ RenewalDue => ~NeedsRenewal(live.cert)
  /\ now' = now + 1
  /\ UNCHANGED << config, pc, why, listening, live, disk, work, faults >>

\* The process dies, in the middle of a write too.
Crash == pc # "down" /\ Fault("crash") /\ disk' \in {disk} \cup CutOff /\ Exit

\* setup_acme: an empty resolver and token store; the responder is spawned,
\* not awaited.
Start ==
  /\ pc = "down"
  /\ config' \in Configs
  /\ responder' = IF config'.challenge = "http-01" THEN "spawned" ELSE "none"
  /\ Goto("load")
  /\ UNCHANGED << now, why, bound, live, disk, work, faults >>

\* The spawned responder binds its port, or exits the process.
ResponderBinds ==
  /\ responder = "spawned"
  /\ \/ /\ responder' = "listening"
        /\ UNCHANGED << setting, pc, why, bound, live, work, faults >>
     \/ Fault("ca") /\ Exit
  /\ UNCHANGED disk

\* A start that gives up on an unusable cache.
LoadCachedAbortsMutant ==
  /\ pc = "load"
  /\ \/ /\ HasPair /\ ~NeedsRenewal(disk.cert) /\ IntoCertifiedKey(Cached)
        /\ live' = Cached
        /\ Goto("listen")
     \/ /\ HasPair => NeedsRenewal(disk.cert)
        /\ Goto("account")
        /\ UNCHANGED live
     \/ /\ HasPair /\ ~NeedsRenewal(disk.cert) /\ ~IntoCertifiedKey(Cached)
        /\ Goto("down")
        /\ UNCHANGED live
  /\ UNCHANGED << setting, why, listening, disk, work, faults >>

\* load_cached: both files, not due for renewal, and a pair that matches.
LoadCached ==
  /\ pc = "load"
  /\ \/ /\ HasPair /\ ~NeedsRenewal(disk.cert) /\ IntoCertifiedKey(Cached)
        /\ live' = Cached
        /\ Goto("listen")
     \/ /\ HasPair => NeedsRenewal(disk.cert) \/ ~IntoCertifiedKey(Cached)
        /\ Goto("account")
        /\ UNCHANGED live
  /\ UNCHANGED << setting, why, listening, disk, work, faults >>

\* The renewal loop is spawned and the listener bound.
Listen ==
  /\ pc = "listen"
  /\ bound' = TRUE
  /\ why' = "renewal"
  /\ Goto("idle")
  /\ UNCHANGED << setting, responder, live, disk, work, faults >>

RenewalCheck ==
  /\ pc = "idle"
  /\ RenewalDue
  /\ Goto("account")
  /\ UNCHANGED << setting, why, listening, live, disk, work, faults >>

-----------------------------------------------------------------------------
\* account(): the cached account, whatever directory it belongs to, or, when
\* there is none that can be read, a new one at the configured directory, saved
\* to the cache.
GetAccount ==
  /\ pc = "account"
  /\ \/ /\ order' = [NoOrder EXCEPT !.directory =
                       IF HasAccount THEN disk.account ELSE config.directory]
        /\ disk' = IF HasCache /\ ~HasAccount
                   THEN [disk EXCEPT !.account = config.directory] ELSE disk
        /\ Goto("order")
        /\ UNCHANGED << setting, why, listening, live, responses, issued, faults >>
     \/ Fault("ca") /\ IssueFails /\ UNCHANGED disk
     \/ HasCache /\ ~HasAccount /\ WriteFails

PlaceOrder ==
  /\ pc = "order"
  /\ \/ /\ order' = [order EXCEPT !.todo = config.domains]
        /\ responses' = {Response(r.domain, "stale") : r \in responses}
        /\ Goto("authorize")
        /\ UNCHANGED << setting, why, listening, live, issued, faults >>
     \/ Fault("ca") /\ IssueFails
  /\ UNCHANGED disk

\* set_challenge that keeps what it finds.
SetChallengeMutant(d) ==
  responses' = responses \cup
    {r \in {Response(d, "current")} : ~\E old \in responses : old.domain = d}

\* AcmeResolver::set_challenge: one validation certificate per name.
SetChallenge(d) ==
  responses' = {r \in responses : r.domain # d} \cup {Response(d, "current")}

\* The response to d's challenge is installed: a token of its own, the
\* validation certificate for its name, or a TXT record.
Installed(d) ==
  CASE config.challenge = "http-01" -> responses' = responses \cup {Response(d, "current")}
    [] config.challenge = "tls-alpn-01" -> SetChallenge(d)
    [] config.challenge = "dns-01" -> UNCHANGED responses

\* One turn of the authorization loop up to set_ready: a domain the CA holds
\* valid is skipped; for another the response is installed.
Respond ==
  /\ pc = "authorize" /\ order.todo # {}
  /\ \/ /\ \E d \in order.todo :
             \/ /\ order' = [order EXCEPT !.todo = @ \ {d}]
                /\ UNCHANGED << pc, responses >>
             \/ /\ order' = [order EXCEPT !.todo = @ \ {d}, !.active = @ \cup {d}]
                /\ Goto("ready")
                /\ Installed(d)
        /\ UNCHANGED << setting, why, listening, live, issued, faults >>
     \/ Fault("ca") /\ IssueFails
  /\ UNCHANGED disk

\* challenge.set_ready().await?.
SetReady ==
  /\ pc = "ready"
  /\ \/ Goto("authorize") /\ UNCHANGED << setting, why, listening, live, work, faults >>
     \/ Fault("ca") /\ IssueFails
  /\ UNCHANGED disk

\* The protocols the listener was built with.
AlpnProtocols ==
  {"h2", "http/1.1"} \cup (IF config.challenge = "tls-alpn-01" THEN {"acme-tls/1"} ELSE {})

\* AcmeResolver::resolve: what a handshake that offers a protocol is shown.
Resolve(sni, alpn) ==
  LET held == {r \in responses : r.domain = sni} IN
  CASE alpn # "acme-tls/1" -> live
    [] alpn = "acme-tls/1" /\ held = {} -> None
    [] OTHER -> CHOOSE r \in held : TRUE

\* What the CA has to see when it validates d in this order.
Answered(d) ==
  CASE config.challenge = "http-01" -> Response(d, "current") \in responses
    [] config.challenge = "tls-alpn-01" -> Resolve(d, "acme-tls/1") = Response(d, "current")
    [] config.challenge = "dns-01" -> TRUE

\* The CA can see the response to every challenge it was told is ready.
Reachable ==
  \A d \in order.active :
    /\ Answered(d)
    /\ config.challenge = "http-01" => responder = "listening"
    /\ config.challenge = "tls-alpn-01" => bound /\ "acme-tls/1" \in AlpnProtocols

\* A pair that no file and no listener has.
FreshSerial ==
  CHOOSE s \in Serials :
    /\ live # None => s \notin {live.cert.serial, live.key}
    /\ disk.cert \notin {None, Torn} => s # disk.cert.serial
    /\ disk.key # s

IssuedCert(serial) ==
  [cert |-> [serial |-> serial, expires |-> now + Lifetime, domains |-> config.domains,
             directory |-> order.directory],
   key |-> serial]

\* The teardown loops: what is left of the responses.  A token is removed by
\* itself, a validation certificate by its name.
TornDown ==
  CASE config.challenge = "http-01" ->
         responses \ {Response(d, "current") : d \in order.active}
    [] config.challenge = "tls-alpn-01" -> {r \in responses : r.domain \notin order.active}
    [] config.challenge = "dns-01" -> responses

\* A success that leaves the responses up.
FinalizeMutant ==
  /\ pc = "authorize" /\ order.todo = {} /\ Reachable
  /\ issued' = IssuedCert(FreshSerial)
  /\ order' = NoOrder
  /\ Goto(IF HasCache THEN "write_cert" ELSE "install")
  /\ UNCHANGED << setting, why, listening, live, disk, responses, faults >>

\* finalize_and_fetch succeeds and the responses are torn down.
Finalize ==
  /\ pc = "authorize" /\ order.todo = {} /\ Reachable
  /\ issued' = IssuedCert(FreshSerial)
  /\ responses' = TornDown
  /\ order' = NoOrder
  /\ Goto(IF HasCache THEN "write_cert" ELSE "install")
  /\ UNCHANGED << setting, why, listening, live, disk, faults >>

\* finalize_and_fetch fails: the responses are torn down, then the error is
\* returned.
FinalizeFails ==
  /\ pc = "authorize" /\ order.todo = {}
  /\ \/ ~Reachable /\ UNCHANGED faults
     \/ Fault("ca")
  /\ \/ why = "startup" /\ Exit
     \/ /\ why = "renewal"
        /\ pc' = "idle"
        /\ responses' = TornDown
        /\ order' = NoOrder /\ issued' = None
        /\ UNCHANGED << setting, why, listening, live >>
  /\ UNCHANGED disk

\* store_cert: the chain, then the key; a failed write returns the error.
WriteCert ==
  /\ pc = "write_cert"
  /\ \/ /\ disk' = [disk EXCEPT !.cert = issued.cert]
        /\ Goto("write_key")
        /\ UNCHANGED << setting, why, listening, live, work, faults >>
     \/ WriteFails

WriteKey ==
  /\ pc = "write_key"
  /\ \/ /\ disk' = [disk EXCEPT !.key = issued.key]
        /\ Goto("install")
        /\ UNCHANGED << setting, why, listening, live, work, faults >>
     \/ WriteFails

\* The resolver takes the new pair.
Install ==
  /\ pc = "install"
  /\ IntoCertifiedKey(issued)
  /\ live' = issued
  /\ issued' = None
  /\ Goto(IF why = "startup" THEN "listen" ELSE "idle")
  /\ UNCHANGED << setting, why, listening, disk, responses, order, faults >>

\* The steps of the process, in start-up, in issuance and in the renewal loop.
ProcessStep ==
  \/ LoadCached \/ Listen \/ RenewalCheck \/ GetAccount \/ PlaceOrder \/ Respond
  \/ SetReady \/ Finalize \/ FinalizeFails \/ WriteCert \/ WriteKey \/ Install

Next == Tick \/ Crash \/ Start \/ ResponderBinds \/ ProcessStep

Spec == Init /\ [][Next]_acmeVars

\* The runtime runs the process and the responder, a supervisor restarts it.
\* Of restarts in a row some let the responder bind before the CA validates,
\* as a bind is local and an order is not.  The clock need not move.
FairSpec ==
  Spec /\ WF_acmeVars(Start) /\ SF_acmeVars(ResponderBinds) /\ WF_acmeVars(ProcessStep)
-----------------------------------------------------------------------------
\* The certificate that is served has its own key, however the process was
\* stopped in or between the two writes of store_cert.
ServedPairMatches ==
  \A d \in Domains : LET shown == Resolve(d, "h2")
                    IN  shown # None => shown.key = shown.cert.serial

\* As long as no cache write has failed, the sleeping loop, which looks at the
\* cache, decides as if it looked at the certificate that is served, whatever
\* crashes and restarts lie behind.
LoopJudgesLive ==
  HasCache /\ faults.disk = 0 /\ pc = "idle" => (RenewalDue <=> NeedsRenewal(live.cert))

\* A validation is answered with this order's response, although failed orders
\* leave theirs behind: it is in place for every domain the CA was told of.
ChallengesAnswered == pc = "authorize" => \A d \in order.active : Answered(d)

\* When no CA or network call has failed, the sleeping loop has left neither a
\* token nor a validation certificate behind: every response is torn down.
NothingLeftInstalled == pc = "idle" /\ faults.ca = 0 => responses = {}

\* Whatever crashed or failed before, the process gets to serve, unless it is
\* started for tls-alpn-01 again and again.
EventuallyServes ==
  <>[](config.challenge # "tls-alpn-01") => (pc = "down" ~> bound)

\* While cache writes succeed, a certificate that is being served and is due is
\* replaced by one for the configured domains, whatever else failed.
DueIsRenewed ==
  bound /\ NeedsRenewal(live.cert) ~>
    \/ ~bound \/ faults.disk > 0
    \/ ~NeedsRenewal(live.cert) /\ config.domains \subseteq live.cert.domains

\* README: renewal "re-issues when under 30 days remain", so that, once the CA
\* works, no client is shown an expired certificate.
ServedNotExpired == bound => now <= live.cert.expires

\* README on tls-alpn-01: "CA reaches inbound :443": when the CA is asked to
\* validate, the listener that answers it is bound.
ValidationIsServed ==
  pc = "authorize" /\ order.todo = {} /\ order.active # {}
    /\ config.challenge = "tls-alpn-01" => bound
=============================================================================
