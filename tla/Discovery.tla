----------------------------- MODULE Discovery -----------------------------
(***************************************************************************)
(* Discovery as main.rs wires it: the enabled providers and the route      *)
(* manager as concurrent tasks around one channel, with the Docker daemon  *)
(* and the Kubernetes API server changing under them.                      *)
(***************************************************************************)
EXTENDS DockerProvider, KubernetesProvider

CONSTANTS
  MaxChanges,   \* bound: changes of containers and objects
  MaxFaults     \* bound: socket changes and watch errors

ASSUME BoundConstants == MaxChanges \in Nat /\ MaxFaults \in Nat

VARIABLES changes, faults   \* how often the two bounds were used

worldVars == << changes, faults >>
kubeVars == << apiVars, storeVars, loopVars >>
vars == << managerVars, daemonVars, dockerVars, kubeVars, worldVars >>

Init ==
  /\ ManagerInit
  /\ DockerInit
  /\ KubernetesInit
  /\ changes = 0
  /\ faults = 0

\* Containers start and stop.
DaemonChanges ==
  /\ "docker" \in Enabled
  /\ changes < MaxChanges
  /\ changes' = changes + 1
  /\ \E c \in Containers : ContainerStarts(c) \/ ContainerStops(c)
  /\ UNCHANGED << managerVars, dockerVars, kubeVars, faults >>

DaemonFails ==
  /\ "docker" \in Enabled
  /\ faults < MaxFaults
  /\ faults' = faults + 1
  /\ \E s \in {"up", "dead", "absent"} : SocketBecomes(s)
  /\ UNCHANGED << managerVars, dockerVars, kubeVars, changes >>

DockerStep ==
  /\ \/ DockerSend
     \/ (DockerConnect \/ DockerCannotConnect \/ DockerPoll \/ DockerWake)
          /\ UNCHANGED managerVars
  /\ UNCHANGED << daemonVars, kubeVars, worldVars >>

ClusterChanges ==
  /\ "kubernetes" \in Enabled
  /\ changes < MaxChanges
  /\ changes' = changes + 1
  /\ \E kind \in Kinds, key \in Keys, o \in ObjectRoutes \cup {NotOptedIn, Absent} :
       ObjectBecomes(kind, key, o)
  /\ UNCHANGED << managerVars, daemonVars, dockerVars, storeVars, loopVars, faults >>

\* The loop takes an item of one kind's stream, or the watcher lists.
WatchStep(kind) ==
  /\ \/ WatchInit(kind)
     \/ WatchList(kind)
     \/ WatchInitApply(kind)
     \/ WatchInitDone(kind)
     \/ WatchEvent(kind)
  /\ UNCHANGED << managerVars, daemonVars, dockerVars, worldVars >>

WatchFails ==
  /\ faults < MaxFaults
  /\ faults' = faults + 1
  /\ \E kind \in Kinds : WatchError(kind)
  /\ UNCHANGED << managerVars, daemonVars, dockerVars, changes >>

KubernetesStep ==
  /\ \/ KubernetesSend
     \/ KubernetesConnect /\ UNCHANGED managerVars
  /\ UNCHANGED << daemonVars, dockerVars, apiVars, storeVars, worldVars >>

KubernetesEnds ==
  /\ StreamsEnd
  /\ UNCHANGED << managerVars, daemonVars, dockerVars, apiVars, storeVars, worldVars >>

ManagerStep ==
  /\ ManagerRecv \/ ManagerStop(dockerPc = "off" /\ k8sPc = "off")
  /\ UNCHANGED << daemonVars, dockerVars, kubeVars, worldVars >>

Next ==
  \/ DaemonChanges
  \/ DaemonFails
  \/ DockerStep
  \/ ClusterChanges
  \/ \E kind \in Kinds : WatchStep(kind)
  \/ WatchFails
  \/ KubernetesStep
  \/ KubernetesEnds
  \/ ManagerStep

Spec == Init /\ [][Next]_vars

\* Every task is scheduled again and again, and the API server answers a list
\* or a watch with an event or an error.  Nothing else is assumed of the world.
Fairness ==
  /\ WF_vars(DockerStep)
  /\ \A kind \in Kinds : WF_vars(WatchStep(kind))
  /\ WF_vars(KubernetesStep)
  /\ WF_vars(ManagerStep)

FairSpec == Spec /\ Fairness
-----------------------------------------------------------------------------
Update ==
  [provider : Providers, routes : Seq(Routes), at : [{"docker"} -> Nat] \cup [Kinds -> Nat]]

MaybeSnapshot == Seq(Routes) \cup {NoSnapshot}

ManagerTypeOK ==
  /\ channel \in Seq(Update) /\ Len(channel) <= ChanCap
  /\ providerRoutes \in [Providers -> MaybeSnapshot]
  /\ table \in Seq(Routes)
  /\ served \in [Sources3 -> Nat]
  /\ manager \in {"off", "running", "stopped"}

DockerTypeOK ==
  /\ listings \in Seq(Seq(Containers)) /\ listings # <<>>
  /\ socket \in {"up", "dead", "absent"}
  /\ dockerPc \in {"top", "poll", "send", "sleep", "off"}
  /\ docker \in BOOLEAN /\ warnedConnect \in BOOLEAN
  /\ last \in MaybeSnapshot /\ polledAt \in Nat
  /\ polled \in MaybeSnapshot /\ (dockerPc = "send" => polled # NoSnapshot)

KubernetesTypeOK ==
  /\ objects \in [Kinds -> Seq([Keys -> ObjectRoutes \cup {NotOptedIn, Absent}])]
  /\ \A kind \in Kinds :
       /\ objects[kind] # <<>>
       /\ rv[kind] <= Len(objects[kind])
       /\ phase[kind] \in {"listing", "watching"} => rv[kind] # 0
  /\ phase \in [Kinds -> {"start", "page", "listing", "watching"}]
  /\ rv \in [Kinds -> Nat] /\ shown \in [Kinds -> Nat]
  /\ todo \in [Kinds -> SUBSET Keys]
  /\ committed \in [Kinds -> Store]
  /\ buffer \in [Kinds -> Store \cup {NoBuffer}]
  /\ k8sPc \in {"connect", "next", "send", "off"}
  /\ lastSent \in MaybeSnapshot
  /\ pending \in MaybeSnapshot /\ (k8sPc = "send" => pending # NoSnapshot)

\* The values every variable of the providers, the channel and the manager
\* can have.  The channel never holds more than its capacity, and a provider
\* waiting to send has something to send.
TypeOK ==
  /\ ManagerTypeOK
  /\ DockerTypeOK
  /\ KubernetesTypeOK
  /\ changes \in Nat /\ faults \in Nat

\* The newest snapshot of provider p on its way to the table, or in it.
Newest(p, routes) ==
  \/ \E i \in DOMAIN channel :
       /\ channel[i].provider = p /\ channel[i].routes = routes
       /\ \A j \in DOMAIN channel : j > i => channel[j].provider # p
  \/ /\ \A i \in DOMAIN channel : channel[i].provider # p
     /\ providerRoutes[p] = routes

\* No update is lost or overtaken: what a provider remembers as its last
\* snapshot (and will not send again) is the newest one in the channel, or is
\* in the table once the channel holds none of that provider's.
NoLostUpdate == Newest("docker", last) /\ Newest("kubernetes", lastSent)

\* The routes of a kind's objects in its state number n, nothing for 0.
KindAt(kind, n) ==
  IF n = 0 THEN EmptyStore
  ELSE [k \in Keys |-> RouteFromObject(objects[kind][n][k])]

\* A reconnect never exposes a partial snapshot: each KindStore's committed
\* map is, at every moment, exactly the routes of one state that the API
\* server's objects of that kind were in.
CommittedIsPastState ==
  \A kind \in Kinds :
    shown[kind] <= Len(objects[kind]) /\ committed[kind] = KindAt(kind, shown[kind])

ListingAt(n) == IF n = 0 THEN <<>> ELSE RoutesOfListing(listings[n])

\* The live table is the file's routes and, per source, one real state: it
\* never mixes two polls of the daemon, two lists of a kind, or an old
\* snapshot with a new one.
TableIsTruthful ==
  /\ served["docker"] <= Len(listings)
  /\ \A kind \in Kinds : served[kind] <= Len(objects[kind])
  /\ table = RouteTable(FileRoutes \o ListingAt(served["docker"])
                          \o StoreRoutes(KindAt("Service", served["Service"]))
                          \o StoreRoutes(KindAt("Ingress", served["Ingress"])))

\* The refinement: the states of the sources, as route lists, are RouteFeed's
\* past; the table it shows and the states it serves are this module's.
Past ==
  [s \in Sources3 |->
     IF s = "docker" THEN [i \in DOMAIN listings |-> RoutesOfListing(listings[i])]
     ELSE [i \in DOMAIN objects[s] |-> StoreRoutes(KindAt(s, i))]]

Feed == INSTANCE RouteFeed WITH SourceNames <- Sources3, past <- Past

\* Discovery implements RouteFeed: per source the table only moves forward,
\* in one step, from one real state to another.
ImplementsRouteFeed == Feed!FeedSpec

\* Once the daemon stays reachable and its containers stay the same, the
\* table ends up with exactly the routes of the running containers.
DockerConverges ==
  <>[](socket = "up") =>
    <>[](Snapshot(providerRoutes["docker"])
           = RoutesOfListing(listings[Len(listings)]))

\* Unless the provider has returned, the table ends up with exactly the
\* routes of the opted-in Services and Ingresses, whatever watch errors and
\* relists came in between.
KubernetesConverges ==
  <>[](k8sPc # "off") =>
    <>[](Snapshot(providerRoutes["kubernetes"])
           = AllRoutes([kind \in Kinds |-> KindAt(kind, Len(objects[kind]))]))
=============================================================================
