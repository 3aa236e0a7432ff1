---------------------------- MODULE RouteManager ----------------------------
(***************************************************************************)
(* The route manager (src/src/discovery/mod.rs) and the bounded channel    *)
(* that the discovery providers feed it through.  The providers are in     *)
(* DockerProvider and KubernetesProvider, which extend this module;        *)
(* Discovery puts the three together.                                      *)
(*                                                                         *)
(* A snapshot is a sequence of routes.  Every update also carries the      *)
(* auxiliary field at: for each source the snapshot was computed from, the *)
(* number of the source's state it shows.  The code has no such field, and *)
(* no guard reads it; it is what "never older" is stated with.             *)
(***************************************************************************)
EXTENDS Routing

CONSTANTS
  Routes,       \* the routes that files, labels and annotations can give
  FileRoutes,   \* the config file's routes, in order
  Enabled,      \* the providers build_providers returns
  ChanCap,      \* capacity of the channel: 16 in main.rs
  NoSnapshot    \* None: nothing sent yet, nothing to send

Providers == {"docker", "kubernetes"}

\* The histories that snapshots come from: the container list, and the two
\* kinds of Kubernetes object.
Sources3 == {"docker", "Service", "Ingress"}

ASSUME ManagerConstants ==
  /\ \A r \in Routes : r.path_prefix \in Seq(STRING)
  /\ FileRoutes \in Seq(Routes)
  /\ NoSnapshot \notin Seq(Routes)
  /\ Enabled \subseteq Providers
  /\ ChanCap \in Nat \ {0}

VARIABLES
  channel,         \* mpsc channel: a sequence of ProviderUpdates
  providerRoutes,  \* the manager's newest snapshot of each provider
  table,           \* the ArcSwap that requests read
  served,          \* auxiliary: the state of each source that table shows
  manager          \* "off" (no provider enabled), "running" or "stopped"

managerVars == << channel, providerRoutes, table, served, manager >>

Snapshot(routes) == IF routes = NoSnapshot THEN <<>> ELSE routes

\* A recompute that loses the file routes once a provider has any.
RecomputeMutant(pr) ==
  LET discovered == Snapshot(pr["docker"]) \o Snapshot(pr["kubernetes"])
  IN  RouteTable(IF discovered = <<>> THEN FileRoutes ELSE discovered)

\* RouteManager::recompute: file routes, then the providers' in BTreeMap order.
Recompute(pr) ==
  RouteTable(FileRoutes \o Snapshot(pr["docker"]) \o Snapshot(pr["kubernetes"]))

\* RouteManager::new and the spawns of main: the manager task only runs when
\* some provider does.
ManagerInit ==
  /\ channel = <<>>
  /\ providerRoutes = [p \in Providers |-> NoSnapshot]
  /\ table = RouteTable(FileRoutes)
  /\ served = [s \in Sources3 |-> 0]
  /\ manager = IF Enabled = {} THEN "off" ELSE "running"

\* try_send: a full channel drops the update.
SendDropsMutant(p, routes, at) ==
  /\ channel' = IF Len(channel) = ChanCap THEN channel
                ELSE Append(channel, [provider |-> p, routes |-> routes, at |-> at])
  /\ UNCHANGED << providerRoutes, table, served, manager >>

\* A send from a task of its own may overtake the update sent before it.
SendOvertakesMutant(p, routes, at) ==
  LET update == [provider |-> p, routes |-> routes, at |-> at] IN
  /\ Len(channel) < ChanCap
  /\ channel' \in {Append(channel, update), << update >> \o channel}
  /\ UNCHANGED << providerRoutes, table, served, manager >>

\* A channel without a bound.
SendUnboundedMutant(p, routes, at) ==
  /\ channel' = Append(channel, [provider |-> p, routes |-> routes, at |-> at])
  /\ UNCHANGED << providerRoutes, table, served, manager >>

\* tx.send(..).await by provider p: waits while the channel is full.
Send(p, routes, at) ==
  /\ Len(channel) < ChanCap
  /\ channel' = Append(channel, [provider |-> p, routes |-> routes, at |-> at])
  /\ UNCHANGED << providerRoutes, table, served, manager >>

\* RouteManager::run, one turn of the loop: no await between the receive and
\* the store into the ArcSwap.
ManagerRecv ==
  /\ manager = "running"
  /\ channel # <<>>
  /\ LET update == Head(channel) IN
       /\ channel' = Tail(channel)
       /\ providerRoutes' =
            [providerRoutes EXCEPT ![update.provider] = update.routes]
       /\ table' = Recompute(providerRoutes')
       /\ served' = [s \in Sources3 |-> IF s \in DOMAIN update.at
                                        THEN update.at[s] ELSE served[s]]
  /\ UNCHANGED manager

\* recv() returns None: every sender is gone and the channel is drained.
ManagerStop(sendersGone) ==
  /\ manager = "running"
  /\ channel = <<>>
  /\ sendersGone
  /\ manager' = "stopped"
  /\ UNCHANGED << channel, providerRoutes, table, served >>
=============================================================================
