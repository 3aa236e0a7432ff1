------------------------- MODULE KubernetesProvider -------------------------
(***************************************************************************)
(* Kubernetes discovery (src/src/discovery/k8s.rs): the KindStore of each  *)
(* watched kind, the provider's loop, and the kube-rs watcher streams and  *)
(* API server the loop draws its events from (external).                   *)
(*                                                                         *)
(* A BTreeMap<String, Route> is a total function on Keys whose value is    *)
(* NoRoute where the map has no entry; keys are numbers, in map order.     *)
(***************************************************************************)
EXTENDS RouteManager

CONSTANTS
  Keys,          \* namespace/name of the objects there can be: a set of numbers
  ObjectRoutes,  \* the routes that opted-in annotations can map to
  NotOptedIn,    \* an object that route_from_annotations maps to None
  Absent,        \* no such object
  NoBuffer       \* KindStore.buffer = None

Kinds == {"Service", "Ingress"}

ASSUME KubernetesConstants ==
  /\ Keys \subseteq Nat
  /\ IsFiniteSet(Keys)
  /\ ObjectRoutes \subseteq Routes
  /\ {NoRoute, NotOptedIn, Absent} \cap ObjectRoutes = {}
  /\ NotOptedIn # Absent
  /\ NoBuffer \notin [Keys -> ObjectRoutes \cup {NoRoute}]

VARIABLES
  objects,     \* [Kinds -> Seq]: the states of the API server's objects so far
  phase,       \* the watcher: "start", "page", "listing" or "watching"
  rv,          \* resource version: the state the watcher listed or reached
  todo,        \* listed keys whose InitApply is still to come
  committed,   \* KindStore.committed
  buffer,      \* KindStore.buffer
  k8sPc,       \* the loop: "connect", "next", "send" or "off"
  pending,     \* routes in hand while the send waits
  lastSent,    \* the last snapshot sent
  shown        \* auxiliary: the state of each kind that committed shows

apiVars == << objects, phase, rv, todo >>
storeVars == << committed, buffer, shown >>
loopVars == << k8sPc, pending, lastSent >>

Store == [Keys -> ObjectRoutes \cup {NoRoute}]

EmptyStore == [k \in Keys |-> NoRoute]

\* route_from_object: an object without the annotations has no route.
RouteFromObject(o) == IF o \in {NotOptedIn, Absent} THEN NoRoute ELSE o

\* KindStore::routes of a store: its routes, in the order of their keys.
StoreRoutes(store) ==
  LET keys == {k \in Keys : store[k] # NoRoute}
      order == Ordered(keys, {p \in keys \X keys : p[1] < p[2]})
  IN  [n \in DOMAIN order |-> store[order[n]]]

\* What the loop sends: Services, then Ingresses.
AllRoutes(stores) == StoreRoutes(stores["Service"]) \o StoreRoutes(stores["Ingress"])

KubernetesInit ==
  /\ objects = [kind \in Kinds |-> << [k \in Keys |-> Absent] >>]
  /\ phase = [kind \in Kinds |-> "start"]
  /\ rv = [kind \in Kinds |-> 0]
  /\ todo = [kind \in Kinds |-> {}]
  /\ committed = [kind \in Kinds |-> EmptyStore]
  /\ buffer = [kind \in Kinds |-> NoBuffer]
  /\ shown = [kind \in Kinds |-> 0]
  /\ k8sPc = IF "kubernetes" \in Enabled THEN "connect" ELSE "off"
  /\ pending = NoSnapshot
  /\ lastSent = NoSnapshot

\* An object is created, edited or deleted on the API server.
ObjectBecomes(kind, key, o) ==
  LET now == objects[kind][Len(objects[kind])] IN
  /\ now[key] # o
  /\ objects' = [objects EXCEPT ![kind] = Append(@, [now EXCEPT ![key] = o])]
  /\ UNCHANGED << phase, rv, todo >>

\* Client::try_default: without a client the provider returns for good.
KubernetesConnect ==
  /\ k8sPc = "connect"
  /\ k8sPc' \in {"next", "off"}
  /\ UNCHANGED << pending, lastSent >>

\* A comparison by size alone: an edited route is not a change.
CommitMutant(kind, new) ==
  /\ committed' = [committed EXCEPT ![kind] = new]
  /\ LET routes == AllRoutes(committed') IN
       \/ /\ Len(routes) = Len(AllRoutes(committed))
          /\ UNCHANGED << k8sPc, pending >>
       \/ /\ Len(routes) # Len(AllRoutes(committed))
          /\ pending' = routes
          /\ k8sPc' = "send"
  /\ UNCHANGED lastSent

\* The end of the loop body once the kind's store holds new: nothing to send
\* unless the committed routes changed and differ from the last ones sent.
Commit(kind, new) ==
  /\ committed' = [committed EXCEPT ![kind] = new]
  /\ LET routes == AllRoutes(committed') IN
       \/ /\ new = committed[kind] \/ routes = lastSent
          /\ UNCHANGED << k8sPc, pending >>
       \/ /\ new # committed[kind] /\ routes # lastSent
          /\ pending' = routes
          /\ k8sPc' = "send"
  /\ UNCHANGED lastSent

\* A restart that goes on filling the buffer of the list it interrupts.
WatchInitMutant(kind) ==
  /\ k8sPc = "next" /\ phase[kind] = "start"
  /\ phase' = [phase EXCEPT ![kind] = "page"]
  /\ buffer' = [buffer EXCEPT ![kind] = IF @ = NoBuffer THEN EmptyStore ELSE @]
  /\ UNCHANGED << objects, rv, todo, committed, shown, loopVars >>

\* Op::Init: the watch (re)starts and a fresh buffer replaces any other.
WatchInit(kind) ==
  /\ k8sPc = "next" /\ phase[kind] = "start"
  /\ phase' = [phase EXCEPT ![kind] = "page"]
  /\ buffer' = [buffer EXCEPT ![kind] = EmptyStore]
  /\ UNCHANGED << objects, rv, todo, committed, shown, loopVars >>

\* The watcher's list request is answered; no item reaches the loop yet.
WatchList(kind) ==
  /\ k8sPc \in {"next", "send"} /\ phase[kind] = "page"
  /\ LET now == objects[kind][Len(objects[kind])] IN
       todo' = [todo EXCEPT ![kind] = {k \in Keys : now[k] # Absent}]
  /\ rv' = [rv EXCEPT ![kind] = Len(objects[kind])]
  /\ phase' = [phase EXCEPT ![kind] = "listing"]
  /\ UNCHANGED << objects, storeVars, loopVars >>

\* Op::InitApply: an opted-in object goes into the buffer.
WatchInitApply(kind) ==
  /\ k8sPc = "next" /\ phase[kind] = "listing"
  /\ \E key \in todo[kind] :
       LET route == RouteFromObject(objects[kind][rv[kind]][key]) IN
       /\ todo' = [todo EXCEPT ![kind] = @ \ {key}]
       /\ buffer' = IF buffer[kind] # NoBuffer /\ route # NoRoute
                    THEN [buffer EXCEPT ![kind][key] = route]
                    ELSE buffer
  /\ UNCHANGED << objects, phase, rv, committed, shown, loopVars >>

\* Op::InitDone: the buffer becomes the store.
WatchInitDone(kind) ==
  /\ k8sPc = "next" /\ phase[kind] = "listing" /\ todo[kind] = {}
  /\ phase' = [phase EXCEPT ![kind] = "watching"]
  /\ buffer' = [buffer EXCEPT ![kind] = NoBuffer]
  /\ Commit(kind, IF buffer[kind] = NoBuffer THEN EmptyStore ELSE buffer[kind])
  /\ shown' = [shown EXCEPT ![kind] = rv[kind]]
  /\ UNCHANGED << objects, rv, todo >>

\* Op::Apply or Op::Delete: the watcher delivers the next change of the kind.
WatchEvent(kind) ==
  /\ k8sPc = "next" /\ phase[kind] = "watching" /\ rv[kind] < Len(objects[kind])
  /\ LET next == rv[kind] + 1
         key == CHOOSE k \in Keys :
                  objects[kind][next][k] # objects[kind][rv[kind]][k]
     IN  /\ Commit(kind, [committed[kind] EXCEPT ![key] =
                            RouteFromObject(objects[kind][next][key])])
         /\ rv' = [rv EXCEPT ![kind] = next]
         /\ shown' = [shown EXCEPT ![kind] = next]
  /\ UNCHANGED << objects, phase, todo, buffer >>

\* An Err item: the loop rides through it.  The watcher that lost its place,
\* or failed to list, starts over (one that resumes where it was changes
\* nothing here).
WatchError(kind) ==
  /\ k8sPc = "next"
  /\ phase[kind] \in {"page", "listing", "watching"}
  /\ phase' = [phase EXCEPT ![kind] = "start"]
  /\ todo' = [todo EXCEPT ![kind] = {}]
  /\ UNCHANGED << objects, rv, storeVars, loopVars >>

\* The send completes (its error arm is unreachable, as in DockerSend).
KubernetesSend ==
  /\ k8sPc = "send"
  /\ Send("kubernetes", pending, shown)
  /\ lastSent' = pending
  /\ pending' = NoSnapshot
  /\ k8sPc' = "next"

\* Both streams end: the provider warns and returns.
StreamsEnd ==
  /\ k8sPc = "next"
  /\ k8sPc' = "off"
  /\ UNCHANGED << pending, lastSent >>
=============================================================================
