# Verification of archetype-proxy-server

TLA+ models of the proxy in `src/src/`, checked with TLC on small instances,
and theorems about them checked with TLAPS. `PROJECT.json` maps every
definition to the lines it models and lists the runs, mutants, findings,
hazards and theorems.

    tlc -config MCProxy.cfg MCProxy      # one run
    tlapm PipelineProofs.tla             # one module of proofs

## 1. The system

A client attests the proxy (`/attest`), gets a session, and sends sealed
requests; the proxy opens each one, picks an upstream from a live route table,
forwards it and streams the answer back sealed. Around that path several tasks
run concurrently on one tokio runtime.

| Part | Source | State | Operations | What is hard about it |
|---|---|---|---|---|
| Route table | `config.rs` | sorted list of routes | build, select | ties, prefix boundaries, spelling of prefixes |
| Route manager | `discovery/mod.rs`, `main.rs` | newest snapshot per provider, `ArcSwap` table | receive, recompute, stop | one bounded channel for two providers |
| Docker provider | `discovery/docker.rs`, `labels.rs` | connection, last snapshot sent | connect, poll, send, sleep | socket vanishing at any await |
| Kubernetes provider | `discovery/k8s.rs` | a committed store and a relist buffer per kind | watcher events, errors, send | relists interrupted by errors |
| Request path | `proxy.rs` | none of its own; reads table, registry, replay window | gate, decrypt, route, forward, stream | table swaps, replays, drops at awaits |
| WebSocket bridge | `ws.rs` | two pumps, two counters | receive, send, end | `select!` dropping a pump that holds a message |
| ACME | `acme.rs`, `main.rs`, `tls.rs` | cache files, live certificate, challenge responses | load, issue, renew, install | crashes in and between writes, failed steps, restarts |
| DNS-01 providers | `acme.rs` | cached zone ids, ids of created records | resolve a zone, publish, clean up | stale zones, names that share a record, lost answers |
| Start-up | `cli.rs`, `config.rs`, `attestation.rs`, `tls.rs`, `main.rs` | layers, resolved config, provenance | resolve, validate, dump, guard, build, bind | several layers and several gates decide together; files change while they are read |
| Metrics | `metrics.rs` | relaxed atomics | observe, scrape | a scrape during an observation |

The manager writes the table that the request path and the bridge read. The
registry holds the sessions that both use. ACME and the static certificate are
alternative sources of the listener's certificate; start-up decides which.

## 2. Modules

| Module | Models | State and actions against the code |
|---|---|---|
| `Routing` | `RouteTable` | operators only: `Matches`, `Specificity`, `RouteTable`, `Select`. A path is a sequence of characters |
| `RouteList` | what a table promises of any list | the list given to `RouteTable::new`, grown route by route; the reference definitions of matching and selection |
| `RouteManager` | `RouteManager`, the channel | `channel`, `providerRoutes`, `table`; one action per turn of `run` |
| `DockerProvider` | `DockerProvider::run` | one action per stretch between awaits: connect, poll, send, wake |
| `KubernetesProvider` | `KindStore` and the watch loop | one action per watcher event; the list and the objects are external |
| `RouteFeed` | what discovery promises | abstract: per source, the table moves forward from one real state to another |
| `Discovery` | `main.rs` wiring | the composition of the four; its properties |
| `Proxy` | extractor and `proxy_handler` | a `pc` per request; one action between two awaits; `Disconnect` drops a handler at an await, `Restart` the process with its registry and replay windows |
| `AttestedRequest` | what the request path promises its clients | abstract: a request is refused before, or answered after, it is forwarded, and a ticket is used once |
| `WsBridge` | `ws_upgrade_handler`, `run_bridge` | a pump is receiving, sending a message or sending a Close; a peer closes or its stream ends; `Ended` is the end of `select!` |
| `Acme` | `setup_acme`, `AcmeManager`, `AcmeResolver` | issuance split at awaits and file writes; `Resolve` chooses by ALPN and SNI; crash, restart, torn files, fault budgets |
| `DnsProvider` | `ManualDnsProvider`, `CloudflareDnsProvider` under `issue()` | one action per API request or hook, either of which the manual provider may lack (`hooks`); `records` and `zoneCache` are the provider's maps, `zones` and `dns` the account |
| `Startup` | `Args` and `Config::load` to the bind | an operator makes settings, then boot runs through its stages; roots, certificate and key can be replaced meanwhile |
| `Histogram` | the latency histogram | every `fetch_add` and every `load` is a step; observations are numbered in the order they begin |
| `Labels` | `routes_from_labels` | a label map grown label by label; a key is the sequence of its dotted parts, a name may have several; the parser as operators |
| `DiscoveryProofs`, `PipelineProofs`, `FeedProofs` | routing and discovery | lemmas and theorems, each module about one link of the chain from provider to table |
| `ProxyProofs`, `AcmeProofs`, `DnsProofs` | the component of the name | lemmas and theorems |
| `TrafficProofs` | `WsBridge`, `Histogram` | lemmas and theorems |
| `InputProofs` | `Startup`, `RouteList`, `Labels` | lemmas and theorems about what the operator writes |
| `MC*` | | instances for TLC |

Discovery carries an auxiliary number with every snapshot, the state of the
source it shows (`at`, `shown`, `served`). No guard reads it. `Proxy` keeps the
list of all published tables, `booted`, `since` and `given`, `DnsProvider` which
orders were disturbed, and `WsBridge` and `Histogram` what was read or begun,
for the same reason.

Operators named `...Mutant` are plausible bugs in the definition that follows
them; each one, put in its place, breaks the property `PROJECT.json` names.

## 3. Runs

| Run | Instance | Shows |
|---|---|---|
| `routing` | all lists of up to three of 24 routes, six paths, three hosts; label maps of up to 5 labels, fields in either case, a name with a dot | matching is by segment, selection is the reference choice, discovered beats file on the same rule as written; the routes of a container are the ones its labels declare, name by name |
| `discovery_docker` | two containers, 3 changes, 2 socket faults, channel of 2 | no lost update; table is file routes plus one real listing; convergence |
| `discovery_kubernetes` | two keys per kind, 2 changes, 1 watch error, channel of 1 | no partial store; refinement of `RouteFeed`; convergence |
| `discovery_both` | both providers, 2 changes, channel of 2 | with a shared channel the table still refines `RouteFeed` |
| `proxy` | two requests, two sessions one after the other, one nonce, one table swap or restart, cap 100 | retry safety, replay across handlers and restarts, routing by a live table, one cap on the plaintext, counters, refinement of `AttestedRequest` |
| `ws` | 3 messages each way, counters to 2 | order, no gaps, counters increase, a peer that is gone ends the bridge unless a send hangs |
| `acme` | three configurations, one crash, one CA fault, one failed write, time 5 | matching pairs, correct renewal decision, challenges answered with this order's response, teardown, progress |
| `acme_write_fails` | one failed write | **violation**: a served certificate expires |
| `acme_first_alpn` | tls-alpn-01 | **violation**: the first validation meets no listener |
| `dns01` | Cloudflare, and manual with and without its two commands; a wildcard, its base and their parent; one zone change, 2 orders, one fault, one crash | records are where the CA looks; only disturbed orders, and those left to the operator, leave records behind |
| `startup` | the settings of `MCStartup`, 3 edits, 2 file changes | no mock in a release build, TPM trust, whole TPM sections, no plaintext fallback, no mixed static pair, dump names the layer, highest layer wins |
| `histogram` | two observers, 3 observations, 2 buckets | each rendered cell lies between the finished and the begun observations |

Bounds. A channel of 1 or 2 makes backpressure happen at once; 16 would only
lengthen the runs. Two keys are the fewest that make a half-filled buffer
differ from a full one. Two requests are the fewest that share a nonce.
Sessions are numbered, so a third adds nothing but an unused one. Counter 2
makes the outbound counter run out, which in the code is 2^64 frames away.
Three units of certificate life give a time when it is fresh, due and expired.
A second order is the first that meets what an earlier one left behind: cached
zones, records, a pending authorization. A configuration field matters with at
most three layers, so three edits set every layer of a field, and the edits are
grouped so that three are enough for a release build to serve; two changes of
files replace both halves of a static pair between their readings.

Deadlock is checked where the system never stops (the runs with Docker, whose
loop polls for ever, and the histogram, which can always be scraped); the other
cfgs say `CHECK_DEADLOCK FALSE`, because boots, bridges, requests, orders and
Kubernetes streams end, and a bounded list of routes or labels is full.

Fairness. Discovery: every task is scheduled again and again (tokio), and the
API server answers a list or watch request with an event or an error, so that a
watcher that is behind moves; `DockerConverges` assumes a socket that stays up,
`KubernetesConverges` a provider that has not returned. Proxy: none, and no
liveness is stated. A body that does not arrive or an upstream that does not
answer holds a handler for as long as the client stays, because the code sets no
timeout. Bridge: a pump that receives is polled and sees that its peer is gone;
no send need complete, so `ClosedEndsBridge` allows for one that hangs. ACME: the
process runs, a supervisor restarts it, and, strongly, the local bind of the
responder wins against the CA in some restart; time need not pass, and does not
pass a unit of 30 days in which the loop (12-hourly) would have renewed a due
certificate. `EventuallyServes` therefore says nothing of a responder that never
binds in time.

## 4. Proofs

All are for every value of the constants, under the named assumptions of the
modules: capacities and bounds are numbers, routes are well formed, the values
that stand for "nothing" or "half written" differ from what can be there
(`AcmeValues`, `NoneIsNoResponse`, `DnsConstants`), a process has finitely many
requests, and what is buffered has a length that is a `usize` (`EnvelopesFit`).
`LabelsConstants` says that keys are made of words and that lower-casing a word
gives a word, `SilentIsNoValue` that a setting which is not made differs from
every value.
TLC agrees with the strengthened invariants `CountInv`, `WsInv`, `AcmeInv`,
`StartupInv`, `DnsInv` and `HistogramInv` on the instances of section 3.

- `DiscoveryProofs`: of routing, `TableHasTheRoutes` (the table is the list
  in a stable order, the more specific route first and equals as listed), `SelectIsBest` (what is selected matches, and no matching route comes
  before it) and its consequence `DiscoveredOutranksFile`, for every list and
  request. They rest on a lemma that sorting a finite set by a strict total order
  yields a sequence in that order. `SelectionIsTheReference` and
  `DiscoveredWinsTies` are from them the two properties of `RouteList` that the run
  checks. Of discovery, `TypeCorrect`,
  `Spec => []TypeOK`, from lemmas about the lists that providers and manager
  build and one case per action.
- `PipelineProofs`: `UpdatesAreNotLost`, `Spec => []NoLostUpdate`.
  `NoLostUpdate` with `TypeOK` is inductive: a send appends the provider's
  newest update, and a receive moves a provider's oldest. And
  `StoresShowRealStates`, `Spec => []CommittedIsPastState`, which
  needs strengthening on two sides. The committed map alone does not say
  what a relist buffer will commit, so `StoreShows` adds that a buffer holds, of
  the state its list shows, exactly the keys applied so far. And a watch event
  carries one object, so `HistoryInv` adds that each state of a kind differs
  from the one before in one object.
- `FeedProofs`: `TablesAreTruthful`, `Spec => []TableIsTruthful`, and
  `DiscoveryImplementsFeed`, the refinement `Spec => Feed!FeedSpec`. The table
  alone says nothing of what comes next, so `FeedInv` follows snapshots back to
  their origin: `PipeInv` (in `PipelineProofs`, with the lemmas about sends and
  receives) says that an update in the channel shows real states, no older than
  the table's and, for one provider, in the order they were sent; `HandInv` that
  a provider holds a snapshot of the newest state it has seen. A relist cannot
  go back because a store is never ahead of its watcher's version. A step then
  adds a state to one source, or publishes states that are no older.
- `ProxyProofs`: for any number of requests, sessions, nonces, tables, swaps and
  restarts, `BareErrorsAreSafeToRetry`, `NoReplayIsForwarded`,
  `CompleteStreamsAreWhole`, `RoutesAreLive` and `ProxyKeepsContract`, which is
  the refinement `Spec => Client!Contract` of `AttestedRequest`. None of them is
  inductive as it stands. `ProxyInv` adds to a little shape information
  `Progress`, what client and upstream have got when a handler is at a given
  place, and `TicketInv`: the ticket of every request that was opened is in its
  session's replay window, or the session is dead, that is, out of the registry
  and held by no handler that could still open something; a session number is
  never given again, so a dead one stays dead. The second alternative is what
  makes a restart, which empties the windows, harmless.
  From the same invariant, `BodiesWithinCapPass` says with the saturating
  arithmetic of the caps that of the bodies that arrive whole just those over
  `max_body_bytes` are refused as too large, and that no other reaches an upstream:
  `BodyInv` follows the length from the envelope to the plaintext. `CountersAgree` counts sets: a request contributes to what was
  forwarded, is not yet timed, or failed, and `Tallies` says that each step of a
  handler changes its own contribution just as it moves the counters. That is not
  enough at a restart, which zeroes the counters: `BootedInv` adds that a handler
  that runs arrived in this process, so what arrived before is not counted.
  All this rests on two lemmas: a step of one request's handler leaves every other
  request alone, and what it changes of its own is one of the moves `Moves` lists.
- `TrafficProofs`: of the bridge, `InboundInOrder`, `NoReplayIsPassed` and `OutboundIsInOrder`.
  What was passed on says nothing of the frame that a pump holds while it sends,
  and `select!` can drop it there. `PlaceInv` gives each frame passed on its place
  among those read, the held one being the last; `CounterInv` puts `last_counter`
  at or above every counter passed on and the held one above them; `OutboundInv`
  is the same for the other direction.
  Of the metrics, `ScrapesAreWithinBounds`, `HistogramSpec => []ScrapeWithinBounds`,
  for any number of observers, observations and buckets. The property speaks only
  of finished scrapes. `CellsInv` says that a cell counts the observations that
  have added to it, and needs `PendingInv`: an observation is added by one task and
  once to each cell. `ScrapeInv` says that what a scrape has loaded lies between
  what was finished when it began and what the cell holds now. The two bounds
  follow because a larger set of observations counts for no less.
- `AcmeProofs`: `ServedPairIsMatched`, `LoopIsRightAboutLive`, `OrderAnswersItself` and `TeardownIsComplete`, for every
  number of crashes, faults and restarts. `AcmeInv` follows a certificate
  from order to listener: `PairInv` (what is issued and not yet installed matches
  its key), `CacheInv` (where in issuance the files are those of the live pair, the new
  certificate with the old key, or the new pair), `AnswerInv` (each response of the
  order is up, and for tls-alpn-01 alone under its name) and `TokenInv` (with no
  CA fault, no other response is).
- `DnsProofs`: `ToldIsPublished`, `Spec => []ReadyIsPublished`, and
  `UndisturbedLeavesNothing`, `Spec => []NoOrphanRecords`, for every set of domains,
  every account and any number of orders, faults, crashes and zone changes. Both
  follow a record from `publish` to teardown (`DnsInv`). `WalkInv`: while an order
  is undisturbed, the zones that `resolve_zone_id` has found are those it would find
  again, whatever is in the cache. So cleanup deletes in the zone publish created
  in. An order for which the manual provider lacks a
  command counts as disturbed: its records are the operator's. `CoverInv`: a record
  of an undisturbed order is in `active_dns` and, for
  Cloudflare, in the map of ids, or is just being deleted. `PublishedInv` is
  `ReadyIsPublished` all through the loop over the authorizations. `OwnersInv` says
  that a record's id tells whose it is; without it, cleaning up one of two names
  that share a record name could take the other's id.
- `InputProofs`: of start-up, `ServesWhatItIs`, `TpmIsTrusted`,
  `TpmSectionIsOneLayers`, `TlsNeverFallsBack`, `DumpIsRight` and `PrecedenceHolds`
  (each field is what the highest layer that mentions it means, or the default).
  `LoadInv` says that the configuration and its provenance are still what the
  layers resolve to; `BootInv` what each stage of boot has settled for those after
  it, so that no later change of a file undoes it.
  Of routing, `PrefixMatchesSegments`: for every prefix and every path,
  `path_prefix_matches`, which compares characters, holds just when the segments
  of the prefix, less its trailing empty ones, are segments of the path at the same
  places. `MatchingIsSegmentwise` is the property the run checks.
  In place of an induction over the characters, the proof takes the slashes on
  either side of a character, and where the trailing slashes begin: least
  elements of sets of numbers (`LeastNumber`), which the library's theorem on
  well-founded relations gives without an induction schema. Of labels, `LabelsAreTheSchema`,
  `LabelsSpec => []RoutesAsDeclared`: grouping the flat map by the last dot and the
  lower-cased field gives each name the labels that the schema gives it. The heart is
  that a key is the prefix, a name and one more word in one way only (`KeyParts`).

Only model-checked, and why:

- all liveness (`DockerConverges`, `KubernetesConverges`, `ClosedEndsBridge`,
  `EventuallyServes`, `DueIsRenewed`): the prover does not handle fairness.

Every safety property that a passing run checks is also proved, the two
refinements included.

## 5. Disagreements between code and documentation

Shown by runs:

- `acme_write_fails`: when the key write at `acme.rs:599` fails, the new chain
  is in the cache and the old pair on the listener. `cert_needs_renewal`
  (`acme.rs:885`) looks at the cache, so nothing is renewed until the live
  certificate has expired; the README (369) says renewal "re-issues when under
  30 days remain".
- `acme_first_alpn`: `main.rs:281` awaits `issue()` before the listener is bound,
  so the first tls-alpn-01 validation cannot be answered (README 388).

Met while reading, without a run:

- `config.rs:64` says a discovered route overrides a file route with the same
  match rule; prefixes `/v` and `/v/` match the same requests, but the longer
  spelling wins. `DiscoveredWinsTie` is stated of rules as written.
- `docker.rs:112` warns "serving file/env routes only" while the last Docker
  routes stay in the table.
- README 507 lists a 504 for an upstream timeout; the client (`main.rs:161`) has
  no timeout, so `proxy.rs:431` waits for ever for an upstream that stays silent.
- `proxy.rs:122` answers every error of reading the envelope as 413 "too large",
  a body that breaks off included (`BodyBreaks`); `CapIsOnPlaintext` is therefore
  stated of bodies that arrive whole.
- `config.rs:347` says that without a hook command "the record is logged and the
  manager polls DNS until present"; `acme.rs:263` logs it, sleeps for
  `propagation_secs` and returns Ok, whether the record is there or not.
- Without a cleanup command `acme.rs:281` does nothing, so the records of every
  manual order stay; `acme.rs:199` speaks of best-effort cleanup.
- README 520 promises a sealed 413 for an over-cap stream; once the head is out,
  `proxy.rs:499` can only abort it.
- README 509 lists a 400 for an invalid method; `proxy.rs:249` falls back to the
  wire method.
- Without `cache_dir`, `acme.rs:888` makes every check renew.
- `acme.rs:155` says the token store is empty unless a challenge is in flight; an
  error at `acme.rs:812` returns before the teardown.
- `main.rs:270` says the responder must listen before `issue()`; it is spawned
  and not awaited.
- After a restart a cached certificate is used whatever domains are configured
  (`acme.rs:680`).
- README 381 and `acme.rs:604` let `directory_url` and `staging` choose the CA; a
  cached account is restored with the directory it was made at and whatever is
  configured now (`acme.rs:702`), so a switch from staging to production has no
  effect until the cache is removed.
- `config.rs:570` calls `pcr_selection` the PCRs "the provider quotes" and README
  219 and 234 show how to set it; `attestation.rs:174` builds the provider without
  it.
- `labels.rs:56` says that names may not contain dots; the split at the last dot
  gives `archetype.route.a.b.host` to a route named `a.b`.
- README 245 says to configure exactly one AK-trust mode; `Config::validate`
  refuses only none.
- README 104 says each resolved static field records the layer that set it, and
  `cli.rs:82` that dump prints it; `dump` looks up `attestation.tpm.*`, while the
  provenance is recorded as `attestation.tpm` (`config.rs:839`), so the section of
  a file shows as default. `DumpNamesTheLayer` excepts those lines.
- `acme.rs:818` says "Tear down challenge responses regardless of outcome"; an
  error of `publish` or `set_ready` (`acme.rs:807`, `acme.rs:812`) returns before.
  `ChallengesAnswered` shows that what is left does no harm to later orders, and
  `NoOrphanRecords` that only such orders leave TXT records.
- `metrics.rs:33` calls the buckets cumulative; a scrape in the middle of an
  observation can show one above the next.
- `labels.rs:12` gives the implicit route to a container without route keys;
  `labels.rs:91` also gives it to one whose route keys yield no route.

## 6. Abstractions, and what is not modelled

- Cryptography is a frame's or ticket's first defect; quotes, keys and nonces
  are not computed. The session registry, the replay window, the channel, the
  watcher and the CA are external and modelled by how the code uses them.
- A response's counters are moved between two awaits in one step of `Proxy`; the
  single atomic operations are the subject of `Histogram`.
- Route hosts are looked up in a table of lower-case forms (`Lower`).
- `Startup` keeps the settings that decide about boot. TOML, numbers and URLs are
  "well formed" or "do not parse"; of a TPM section the model keeps which of its
  parts are set, and that an empty table is a section; of `dump` the value and the source of each line
  are modelled, not their layout. Every key's public half is
  taken to be known; the code accepts an `InconsistentKeys::Unknown` (`tls.rs:186`).
- In `Acme` publishing a TXT record is one step that can fail; its requests are in
  `DnsProvider`, where in turn the CA and the cache are left out. A hook publishes
  where the name belongs or fails, before or after it did. Without a hook command
  the operator has created the record when the wait is over, or has not; a record
  created later still, or removed by hand, is left out. `acme` runs with a cache.
- In `Acme` a chain and key that the CA and the key generator gave make a
  `CertifiedKey`; the error of `acme.rs:834`, after the cache was written, is left
  out.
- In `Proxy`, a method that parsed as an `http::Method` parses again
  (`proxy.rs:420`), so that branch is left out.
- A pong that a pump writes is a message like another one. A Close has a state of
  its own, since its result is ignored.
- Not modelled: the rate limiter (external crate), `/healthz` and `/readyz`
  (no state), `envelope.rs` and `lib.rs` (definitions only), PEM parsing, the log
  level and log output.

## 7. Plan

Done: every component with state of its own; a contract for the request path
and one for discovery, each refined by the detailed model; proofs of both
refinements and of every safety property the runs check.

Next, most important first:

1. `Proxy` with the bridge on one session: both draw from one replay window.
2. `Acme` over `DnsProvider`, in place of the one step that stands for it.
