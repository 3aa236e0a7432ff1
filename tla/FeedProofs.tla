----------------------------- MODULE FeedProofs -----------------------------
(***************************************************************************)
(* The theorems about what Discovery as a whole delivers: the live table   *)
(* is always made of real states of the sources, and it moves only forward,*)
(* as RouteFeed promises.                                                  *)
(***************************************************************************)
EXTENDS PipelineProofs

\* No containers, no routes.
LEMMA NoContainersNoRoutes == RoutesOfListing(<<>>) = <<>>
<1> DEFINE list == <<>>
           places == UNION {{<< i, j >> : j \in DOMAIN ContainerRoutes[list[i]]} : i \in DOMAIN list}
           R == {p \in places \X places : \/ p[1][1] < p[2][1]
                                          \/ p[1][1] = p[2][1] /\ p[1][2] < p[2][2]}
           order == Ordered(places, R)
<1>1. DOMAIN list = {}
  OBVIOUS
<1>2. places = {}
  BY <1>1, ZenonT(60)
<1>3. RoutesOfListing(list) = [n \in DOMAIN order |-> ContainerRoutes[list[order[n][1]]][order[n][2]]]
  BY ZenonT(60) DEF RoutesOfListing
<1> HIDE DEF places, R
<1>4. DOMAIN order = {}
  <2>1. Cardinality(places) = 0
    BY <1>2, FS_EmptySet, ZenonT(60)
  <2> QED
    BY <2>1 DEF Ordered
<1> HIDE DEF order
<1> QED
  BY <1>3, <1>4

\* An empty store has no routes.
LEMMA EmptyStoreNoRoutes == StoreRoutes(EmptyStore) = <<>>
<1> DEFINE keys == {k \in Keys : EmptyStore[k] # NoRoute}
           R == {p \in keys \X keys : p[1] < p[2]}
           order == Ordered(keys, R)
<1>1. keys = {}
  BY ZenonT(60) DEF EmptyStore
<1>2. StoreRoutes(EmptyStore) = [n \in DOMAIN order |-> EmptyStore[order[n]]]
  BY ZenonT(60) DEF StoreRoutes
<1> HIDE DEF keys, R
<1>3. DOMAIN order = {}
  <2>1. Cardinality(keys) = 0
    BY <1>1, FS_EmptySet, ZenonT(60)
  <2> QED
    BY <2>1 DEF Ordered
<1> HIDE DEF order
<1> QED
  BY <1>2, <1>3

\* The histories are sequences of route lists, one per state of the source.
PastShape ==
  /\ Past \in Histories
  /\ Len(Past["docker"]) = Len(listings)
  /\ \A n \in 1..Len(listings) : Past["docker"][n] = RoutesOfListing(listings[n])
  /\ \A kind \in Kinds : Len(Past[kind]) = Len(objects[kind])
  /\ \A kind \in Kinds : \A n \in 1..Len(objects[kind]) :
       Past[kind][n] = StoreRoutes(KindAt(kind, n))

LEMMA PastStates == TypeOK => PastShape
<1> SUFFICES ASSUME TypeOK PROVE PastShape
  BY ZenonT(60)
<1> DEFINE D == [i \in DOMAIN listings |-> RoutesOfListing(listings[i])]
           K(s) == [i \in DOMAIN objects[s] |-> StoreRoutes(KindAt(s, i))]
<1>1. Past["docker"] = D /\ DOMAIN Past = Sources3
  BY SourceNames3, ZenonT(60) DEF Past
<1>2. \A kind \in Kinds : Past[kind] = K(kind)
  BY SourceNames3, ZenonT(60) DEF Past
<1>3. listings \in Seq(Seq(Containers)) /\ Len(listings) \in Nat /\ DOMAIN listings = 1..Len(listings)
  BY DEF TypeOK, DockerTypeOK
<1>4. D \in Seq(Seq(Routes)) /\ Len(D) = Len(listings)
  <2>1. \A i \in 1..Len(listings) : RoutesOfListing(listings[i]) \in Seq(Routes)
    BY <1>3, RoutesOfListingType
  <2> QED
    BY <1>3, <2>1
<1>5. ASSUME NEW kind \in Kinds
      PROVE  /\ K(kind) \in Seq(Seq(Routes)) /\ Len(K(kind)) = Len(objects[kind])
             /\ DOMAIN objects[kind] = 1..Len(objects[kind])
  <2>1. Len(objects[kind]) \in Nat /\ DOMAIN objects[kind] = 1..Len(objects[kind])
    BY DEF TypeOK, KubernetesTypeOK
  <2>2. \A i \in 1..Len(objects[kind]) : StoreRoutes(KindAt(kind, i)) \in Seq(Routes)
    BY <2>1, KindAtType, StoreRoutesType, SMTT(60) DEF TypeOK
  <2> QED
    BY <2>1, <2>2
<1> HIDE DEF D
<1>6. Past \in Histories
  <2>1. \A s \in Sources3 : Past[s] \in Seq(Seq(Routes))
    BY <1>1, <1>2, <1>4, <1>5, SourceNames3, ZenonT(60)
  <2> QED
    BY <1>1, <2>1, ZenonT(60) DEF Histories, Past
<1> QED
  BY <1>1, <1>2, <1>3, <1>4, <1>5, <1>6, ZenonT(60) DEF D, PastShape

\* The same of the next state.
LEMMA PastStatesNext == TypeOK' => PastShape'
  BY PastStates, PTL

\* A step adds a state to one source, or leaves the sources alone.
Adds(s) ==
  /\ Len(Past'[s]) = Len(Past[s]) + 1
  /\ \A n \in 1..Len(Past[s]) : Past'[s][n] = Past[s][n]
  /\ \A t \in Sources3 \ {s} : Past'[t] = Past[t]

\* A container that starts or stops adds a listing.
LEMMA DaemonAdds ==
  ASSUME TypeOK, TypeOK', DaemonChanges
  PROVE  Adds("docker")
<1>1. PICK x : listings' = Append(listings, x)
  BY ZenonT(60) DEF DaemonChanges, ContainerStarts, ContainerStops
<1>2. objects' = objects
  BY ZenonT(60) DEF DaemonChanges, kubeVars, apiVars
<1>3. PastShape /\ PastShape'
  BY PastStates, PastStatesNext, ZenonT(60)
<1>4. /\ Len(listings) \in Nat /\ Len(listings') = Len(listings) + 1
      /\ \A n \in 1..Len(listings) : listings'[n] = listings[n]
  BY <1>1 DEF TypeOK, DockerTypeOK
<1>5. \A n \in 1..Len(listings) : Past'["docker"][n] = Past["docker"][n]
  <2> SUFFICES ASSUME NEW n \in 1..Len(listings) PROVE Past'["docker"][n] = Past["docker"][n]
    BY ZenonT(60)
  <2>1. n \in 1..Len(listings') /\ listings'[n] = listings[n]
    BY <1>4
  <2>2. Past'["docker"][n] = RoutesOfListing(listings'[n])
    BY <1>3, <2>1, ZenonT(60) DEF PastShape
  <2> QED
    BY <1>3, <2>1, <2>2, ZenonT(60) DEF PastShape
<1>6. \A t \in Sources3 \ {"docker"} : Past'[t] = Past[t]
  <2> SUFFICES ASSUME NEW t \in Sources3, t # "docker" PROVE Past'[t] = Past[t]
    BY ZenonT(60)
  <2>1. \A i : KindAt(t, i)' = KindAt(t, i)
    BY <1>2, ZenonT(60) DEF KindAt
  <2> QED
    BY <1>2, <2>1, ZenonT(60) DEF Past
<1> QED
  BY <1>3, <1>4, <1>5, <1>6, ZenonT(60) DEF Adds, PastShape

\* A changed object adds a state to its kind.
LEMMA ClusterAdds ==
  ASSUME TypeOK, TypeOK', ClusterChanges
  PROVE  \E kind \in Kinds : Adds(kind)
<1>1. PICK kind \in Kinds, key \in Keys, o \in ObjectRoutes \cup {NotOptedIn, Absent} :
        ObjectBecomes(kind, key, o)
  BY ZenonT(60) DEF ClusterChanges
<1>2. PICK new : objects' = [objects EXCEPT ![kind] = Append(@, new)]
  BY <1>1, ZenonT(60) DEF ObjectBecomes
<1>3. listings' = listings
  BY ZenonT(60) DEF ClusterChanges, daemonVars
<1>4. PastShape /\ PastShape'
  BY PastStates, PastStatesNext, ZenonT(60)
<1>5. /\ objects'[kind] = Append(objects[kind], new)
      /\ \A t \in Kinds \ {kind} : objects'[t] = objects[t]
  BY <1>2, ZenonT(60) DEF TypeOK, KubernetesTypeOK
<1>6. /\ Len(objects[kind]) \in Nat /\ Len(objects'[kind]) = Len(objects[kind]) + 1
      /\ \A n \in 1..Len(objects[kind]) : objects'[kind][n] = objects[kind][n]
  BY <1>5, SMTT(60) DEF TypeOK, KubernetesTypeOK
<1>7. \A n \in 1..Len(objects[kind]) : Past'[kind][n] = Past[kind][n]
  <2> SUFFICES ASSUME NEW n \in 1..Len(objects[kind]) PROVE Past'[kind][n] = Past[kind][n]
    BY ZenonT(60)
  <2>1. n \in 1..Len(objects'[kind]) /\ objects'[kind][n] = objects[kind][n]
    BY <1>6
  <2>2. KindAt(kind, n)' = KindAt(kind, n)
    BY <2>1, ZenonT(60) DEF KindAt
  <2> QED
    BY <1>4, <2>1, <2>2, ZenonT(60) DEF PastShape
<1>8. \A t \in Sources3 \ {kind} : Past'[t] = Past[t]
  <2> SUFFICES ASSUME NEW t \in Sources3, t # kind PROVE Past'[t] = Past[t]
    BY ZenonT(60)
  <2>1. CASE t = "docker"
    BY <1>3, <2>1, ZenonT(60) DEF Past
  <2>2. CASE t # "docker"
    <3>1. objects'[t] = objects[t]
      BY <1>5, <2>2, SourceNames3, ZenonT(60)
    <3>2. \A i : KindAt(t, i)' = KindAt(t, i)
      BY <3>1, ZenonT(60) DEF KindAt
    <3> QED
      BY <2>2, <3>1, <3>2, ZenonT(60) DEF Past
  <2> QED
    BY <2>1, <2>2, ZenonT(60)
<1> QED
  BY <1>4, <1>6, <1>7, <1>8, ZenonT(60) DEF Adds, PastShape

\* The histories are those of the listings and the objects.
LEMMA PastFrame ==
  ASSUME UNCHANGED << listings, objects >>
  PROVE  Past' = Past
  BY ZenonT(60) DEF Past, KindAt

\* What is added leaves the earlier states as they were.
LEMMA AddsGrows ==
  ASSUME PastShape, NEW s \in Sources3, Adds(s) \/ Past' = Past
  PROVE  Growing(Past, Past')
<1>1. \A t \in Sources3 : Len(Past[t]) \in Nat
  BY DEF PastShape, Histories
<1> QED
  BY <1>1 DEF Adds, Growing
-----------------------------------------------------------------------------
\* The stores' routes are the snapshot of the states they show.
LEMMA CommittedRoutes ==
  TypeOK /\ CommittedIsPastState => AllRoutes(committed) = Carried(Past, "kubernetes", Hand)
<1> SUFFICES ASSUME TypeOK, CommittedIsPastState
             PROVE  AllRoutes(committed) = Carried(Past, "kubernetes", Hand)
  BY ZenonT(60)
<1>1. \A kind \in Kinds : StoreRoutes(committed[kind]) = Slice(Past, Hand, kind)
  <2> SUFFICES ASSUME NEW kind \in Kinds PROVE StoreRoutes(committed[kind]) = Slice(Past, Hand, kind)
    BY ZenonT(60)
  <2>1. /\ shown[kind] \in Nat /\ shown[kind] <= Len(objects[kind]) /\ Len(objects[kind]) \in Nat
        /\ committed[kind] = KindAt(kind, shown[kind])
    BY DEF TypeOK, KubernetesTypeOK, CommittedIsPastState
  <2>2. Hand[kind] = shown[kind]
    BY SourceNames3, ZenonT(60) DEF Hand
  <2>3. CASE shown[kind] = 0
    BY <2>1, <2>2, <2>3, EmptyStoreNoRoutes, ZenonT(60) DEF KindAt, Slice
  <2>4. CASE shown[kind] # 0
    <3>1. shown[kind] \in 1..Len(objects[kind])
      BY <2>1, <2>4
    <3> QED
      BY <2>1, <2>2, <2>4, <3>1, PastStates, ZenonT(60) DEF PastShape, Slice
  <2> QED
    BY <2>3, <2>4, ZenonT(60)
<1> QED
  BY <1>1, SourceNames3, ZenonT(60) DEF AllRoutes, Carried

\* The same of the next state.
LEMMA CommittedRoutesNext ==
  TypeOK' /\ CommittedIsPastState' => AllRoutes(committed') = Carried(Past', "kubernetes", Hand')
<1>1. (TypeOK /\ CommittedIsPastState => AllRoutes(committed) = Carried(Past, "kubernetes", Hand))'
  BY CommittedRoutes, PTL
<1> QED
  BY <1>1, ZenonT(60) DEF AllRoutes, Carried

-----------------------------------------------------------------------------
\* The Docker provider holds the newest listing it polled.
LEMMA DockerHand ==
  ASSUME TypeOK, TypeOK', FeedInv, [Next]_vars, Growing(Past, Past')
  PROVE  /\ Hand["docker"] <= Hand'["docker"] /\ Hand'["docker"] <= Len(Past'["docker"])
         /\ dockerPc' = "send" => polled' = Carried(Past', "docker", Hand')
<1>1. /\ Past \in Histories /\ Past' \in Histories /\ PastShape /\ "docker" \in Providers
      /\ Hand["docker"] = polledAt /\ Hand'["docker"] = polledAt' /\ polledAt \in Nat
      /\ SourcesOf("docker") = {"docker"}
  BY PastStates, PastStatesNext, SourceNames3, ZenonT(60)
     DEF PastShape, Providers, Hand, TypeOK, DockerTypeOK, SourcesOf
<1>2. /\ Len(Past["docker"]) \in Nat /\ Len(Past'["docker"]) \in Nat
      /\ polledAt <= Len(Past["docker"]) /\ Len(Past["docker"]) <= Len(Past'["docker"])
  BY <1>1, SourceNames3 DEF FeedInv, HandInv, Growing, Histories
<1>3. CASE polledAt' = polledAt /\ (dockerPc' = "send" => dockerPc = "send" /\ polled' = polled)
  <2>1. Carried(Past', "docker", Hand') = Carried(Past', "docker", Hand)
    BY <1>1, <1>3, CarriedBy, SMTT(60)
  <2>2. Carried(Past', "docker", Hand) = Carried(Past, "docker", Hand)
    BY <1>1, <1>2, CarriedStays, ZenonT(60)
  <2>3. dockerPc = "send" => polled = Carried(Past, "docker", Hand)
    BY ZenonT(60) DEF FeedInv, HandInv
  <2> QED
    BY <1>1, <1>2, <1>3, <2>1, <2>2, <2>3, SMTT(60)
<1>4. CASE DockerPoll /\ dockerPc' = "send" /\ UNCHANGED << listings, objects >>
  <2>1. polled' = RoutesOfListing(listings[Len(listings)]) /\ polledAt' = Len(listings)
    BY <1>4, ZenonT(60) DEF DockerPoll
  <2>2. Len(listings) \in 1..Len(listings) /\ Len(listings) # 0 /\ Len(listings) = Len(Past["docker"])
    BY <1>1, SMTT(60) DEF PastShape, TypeOK, DockerTypeOK
  <2>3. Past' = Past /\ Past["docker"][Len(listings)] = RoutesOfListing(listings[Len(listings)])
    BY <1>1, <1>4, <2>2, PastFrame, ZenonT(60) DEF PastShape
  <2> QED
    BY <1>1, <1>2, <2>1, <2>2, <2>3, ZenonT(60) DEF Carried, Slice
<1>5. CASE DockerStep
  <2>1. UNCHANGED << listings, objects >>
    BY <1>5, ZenonT(60) DEF DockerStep, daemonVars, kubeVars, apiVars
  <2>2. CASE DockerPoll
    BY <1>3, <1>4, <2>1, <2>2, ZenonT(60) DEF DockerPoll
  <2>3. CASE DockerSend \/ DockerConnect \/ DockerCannotConnect \/ DockerWake
    BY <1>3, <2>3, ZenonT(60) DEF DockerSend, DockerConnect, DockerCannotConnect, DockerWake
  <2> QED
    BY <1>5, <2>2, <2>3, ZenonT(60) DEF DockerStep
<1>6. CASE UNCHANGED dockerVars
  BY <1>3, <1>6, ZenonT(60) DEF dockerVars
<1>7. DockerStep \/ UNCHANGED dockerVars
  BY ZenonT(60) DEF Next, DaemonChanges, DaemonFails, ClusterChanges, WatchStep, WatchFails, KubernetesStep,
     KubernetesEnds, ManagerStep, vars
<1> QED
  BY <1>5, <1>6, <1>7, ZenonT(60)

\* The Kubernetes provider holds what its stores show.
LEMMA KubernetesHand ==
  ASSUME TypeOK, TypeOK', CommittedIsPastState', FeedInv, [Next]_vars, Growing(Past, Past')
  PROVE  /\ \A kind \in Kinds : /\ Hand[kind] <= Hand'[kind] /\ Hand'[kind] <= Len(Past'[kind])
                                /\ shown'[kind] <= rv'[kind]
         /\ k8sPc' = "send" => pending' = Carried(Past', "kubernetes", Hand')
<1>1. VersionsMove
  <2>1. CASE \E kind \in Kinds : WatchStep(kind) \/ WatchError(kind)
    <3>1. \A kind \in Kinds : shown[kind] <= rv[kind]
      BY ZenonT(60) DEF FeedInv, HandInv
    <3> QED
      BY <2>1, <3>1, WatchMoves, ZenonT(60)
  <2>2. CASE UNCHANGED << shown, rv, pending >> /\ (k8sPc' = "send" => k8sPc = "send")
    <3>1. \A kind \in Kinds : shown[kind] \in Nat /\ shown[kind] <= rv[kind]
      BY ZenonT(60) DEF FeedInv, HandInv, TypeOK, KubernetesTypeOK
    <3> QED
      BY <2>2, <3>1, SMTT(60) DEF VersionsMove
  <2>3. CASE KubernetesSend /\ UNCHANGED << shown, rv >>
    <3>1. \A kind \in Kinds : shown[kind] \in Nat /\ shown[kind] <= rv[kind]
      BY ZenonT(60) DEF FeedInv, HandInv, TypeOK, KubernetesTypeOK
    <3>2. k8sPc' # "send"
      BY <2>3, ZenonT(60) DEF KubernetesSend
    <3> QED
      BY <2>3, <3>1, <3>2, SMTT(60) DEF VersionsMove
  <2>4. \/ \E kind \in Kinds : WatchStep(kind) \/ WatchError(kind)
        \/ UNCHANGED << shown, rv, pending >> /\ (k8sPc' = "send" => k8sPc = "send")
        \/ KubernetesSend /\ UNCHANGED << shown, rv >>
    <3> USE DEF kubeVars, apiVars, storeVars, loopVars
    <3>1. CASE DaemonChanges \/ DaemonFails \/ DockerStep \/ ManagerStep \/ UNCHANGED vars
      BY <3>1, ZenonT(60) DEF DaemonChanges, DaemonFails, DockerStep, ManagerStep, vars
    <3>2. CASE ClusterChanges
      BY <3>2, ZenonT(60) DEF ClusterChanges, ObjectBecomes
    <3>3. CASE KubernetesStep \/ KubernetesEnds
      BY <3>3, ZenonT(60) DEF KubernetesStep, KubernetesEnds, KubernetesConnect, StreamsEnd
    <3>4. CASE WatchFails \/ \E kind \in Kinds : WatchStep(kind)
      BY <3>4, ZenonT(60) DEF WatchFails
    <3> QED
      BY <3>1, <3>2, <3>3, <3>4, ZenonT(60) DEF Next
  <2> QED
    BY <2>1, <2>2, <2>3, <2>4, ZenonT(60)
<1>2. \A kind \in Kinds : /\ Hand[kind] = shown[kind] /\ Hand'[kind] = shown'[kind]
                          /\ shown'[kind] <= Len(objects'[kind])
                          /\ Len(Past'[kind]) = Len(objects'[kind])
  BY PastStatesNext, SourceNames3, ZenonT(60) DEF Hand, CommittedIsPastState, PastShape
<1>3. CASE k8sPc' = "send" => pending' = AllRoutes(committed')
  BY <1>1, <1>2, <1>3, CommittedRoutesNext, ZenonT(60) DEF VersionsMove
<1>4. CASE UNCHANGED << shown, pending >> /\ (k8sPc' = "send" => k8sPc = "send")
  <2>1. /\ Past \in Histories /\ Past' \in Histories /\ "kubernetes" \in Providers
        /\ SourcesOf("kubernetes") = Kinds
    BY PastStates, PastStatesNext, ZenonT(60) DEF PastShape, Providers, SourcesOf
  <2>2. Carried(Past', "kubernetes", Hand') = Carried(Past', "kubernetes", Hand)
    BY <1>2, <1>4, <2>1, CarriedBy, ZenonT(60)
  <2>3. \A kind \in Kinds : Hand[kind] \in Nat /\ Hand[kind] <= Len(Past[kind])
    BY <1>2, SourceNames3, ZenonT(60) DEF FeedInv, HandInv, TypeOK, KubernetesTypeOK
  <2>4. Carried(Past', "kubernetes", Hand) = Carried(Past, "kubernetes", Hand)
    BY <2>1, <2>3, CarriedStays, ZenonT(60)
  <2>5. k8sPc = "send" => pending = Carried(Past, "kubernetes", Hand)
    BY ZenonT(60) DEF FeedInv, HandInv
  <2> QED
    BY <1>1, <1>2, <1>4, <2>2, <2>4, <2>5, ZenonT(60) DEF VersionsMove
<1> QED
  BY <1>1, <1>3, <1>4, ZenonT(60) DEF VersionsMove
-----------------------------------------------------------------------------
\* One step of discovery, as RouteFeed sees it.
PastMoves ==
  \/ (\E s \in Sources3 : Adds(s)) /\ UNCHANGED managerVars
  \/ Past' = Past

\* Only containers and objects that change add states, and they do not touch
\* the table.
LEMMA StepMovesPast ==
  ASSUME TypeOK, TypeOK', [Next]_vars
  PROVE  PastMoves /\ Growing(Past, Past')
<1>1. PastShape
  BY PastStates, ZenonT(60)
<1>2. CASE DaemonChanges \/ ClusterChanges
  <2>1. \E s \in Sources3 : Adds(s)
    BY <1>2, DaemonAdds, ClusterAdds, SourceNames3, ZenonT(60)
  <2>2. UNCHANGED managerVars
    BY <1>2, ZenonT(60) DEF DaemonChanges, ClusterChanges
  <2> QED
    BY <1>1, <2>1, <2>2, AddsGrows, ZenonT(60) DEF PastMoves
<1>3. CASE UNCHANGED << listings, objects >>
  BY <1>1, <1>3, PastFrame, AddsGrows, SourceNames3, ZenonT(60) DEF PastMoves
<1>4. DaemonChanges \/ ClusterChanges \/ UNCHANGED << listings, objects >>
  <2> USE DEF daemonVars, kubeVars, apiVars
  <2>1. CASE DaemonFails \/ DockerStep \/ ManagerStep \/ KubernetesStep \/ KubernetesEnds \/ UNCHANGED vars
    BY <2>1, ZenonT(60) DEF DaemonFails, SocketBecomes, DockerStep, ManagerStep, KubernetesStep, KubernetesEnds, vars
  <2>2. CASE WatchFails \/ \E kind \in Kinds : WatchStep(kind)
    BY <2>2, ZenonT(60) DEF WatchFails, WatchError, WatchStep, WatchInit, WatchList, WatchInitApply,
       WatchInitDone, WatchEvent
  <2> QED
    BY <2>1, <2>2, ZenonT(60) DEF Next
<1> QED
  BY <1>2, <1>3, <1>4, ZenonT(60)

\* FeedInv is inductive, with the types and the stores, and the states served
\* never go back.
LEMMA FeedStep ==
  ASSUME TypeOK, TypeOK', CommittedIsPastState', FeedInv, [Next]_vars
  PROVE  /\ FeedInv'
         /\ \A s \in Sources3 : served[s] <= served'[s]
<1>1. /\ Growing(Past, Past') /\ served \in [Sources3 -> Nat]
      /\ Past \in Histories /\ Past' \in Histories
  BY StepMovesPast, PastStates, PastStatesNext, ZenonT(60) DEF PastShape, TypeOK, ManagerTypeOK
<1>2. HandInv' /\ \A s \in Sources3 : Hand[s] <= Hand'[s]
  <2>1. \A s \in Sources3 : Hand[s] <= Hand'[s] /\ Hand'[s] <= Len(Past'[s])
    BY <1>1, DockerHand, KubernetesHand, SourceNames3, ZenonT(60)
  <2>2. /\ \A kind \in Kinds : shown'[kind] <= rv'[kind]
        /\ dockerPc' = "send" => polled' = Carried(Past', "docker", Hand')
        /\ k8sPc' = "send" => pending' = Carried(Past', "kubernetes", Hand')
    BY <1>1, DockerHand, KubernetesHand, ZenonT(60)
  <2> QED
    BY <2>1, <2>2, ZenonT(60) DEF HandInv, Carried, Slice
<1>3. CASE UNCHANGED << channel, providerRoutes, table, served >>
  BY <1>1, <1>2, <1>3, PipeStays, SMTT(60) DEF FeedInv
<1>4. CASE ManagerRecv /\ ManagerStep
  <2>1. Past' = Past /\ Hand' = Hand
    BY <1>4, PastFrame, ZenonT(60) DEF ManagerStep, daemonVars, dockerVars, kubeVars, apiVars, storeVars, Hand
  <2> QED
    BY <1>2, <1>4, <2>1, PipeRecv, ZenonT(60) DEF FeedInv
<1>5. CASE DockerSend /\ DockerStep
  <2> DEFINE at == [s \in {"docker"} |-> polledAt]
  <2>1. Past' = Past /\ Hand' = Hand /\ UNCHANGED served
    BY <1>5, PastFrame, ZenonT(60) DEF DockerStep, DockerSend, Send, daemonVars, kubeVars, apiVars, storeVars, Hand
  <2>2. Send("docker", polled, at) /\ polled = Carried(Past, "docker", Hand)
    BY <1>5, ZenonT(60) DEF DockerSend, FeedInv, HandInv
  <2>3. /\ DOMAIN at = SourcesOf("docker") /\ "docker" \in Providers
        /\ \A s \in SourcesOf("docker") : at[s] = Hand[s]
    BY SourceNames3, ZenonT(60) DEF SourcesOf, Providers, Hand
  <2> HIDE DEF at
  <2> QED
    BY <1>1, <1>2, <2>1, <2>2, <2>3, PipeSend, SMTT(60) DEF FeedInv
<1>6. CASE KubernetesSend /\ KubernetesStep
  <2>1. Past' = Past /\ Hand' = Hand /\ UNCHANGED served
    BY <1>6, PastFrame, ZenonT(60)
       DEF KubernetesStep, KubernetesSend, Send, daemonVars, dockerVars, apiVars, storeVars, Hand
  <2>2. Send("kubernetes", pending, shown) /\ pending = Carried(Past, "kubernetes", Hand)
    BY <1>6, ZenonT(60) DEF KubernetesSend, FeedInv, HandInv
  <2>3. /\ DOMAIN shown = SourcesOf("kubernetes") /\ "kubernetes" \in Providers
        /\ \A s \in SourcesOf("kubernetes") : shown[s] = Hand[s]
    BY SourceNames3, ZenonT(60) DEF SourcesOf, Providers, Hand, TypeOK, KubernetesTypeOK
  <2> QED
    BY <1>1, <1>2, <2>1, <2>2, <2>3, PipeSend, SMTT(60) DEF FeedInv
<1>7. \/ UNCHANGED << channel, providerRoutes, table, served >>
      \/ ManagerRecv /\ ManagerStep
      \/ DockerSend /\ DockerStep
      \/ KubernetesSend /\ KubernetesStep
  BY ZenonT(60) DEF Next, DaemonChanges, DaemonFails, DockerStep, ClusterChanges, WatchStep, WatchFails,
     KubernetesStep, KubernetesEnds, ManagerStep, ManagerStop, managerVars, vars
<1> QED
  BY <1>3, <1>4, <1>5, <1>6, <1>7, ZenonT(60)

\* In the beginning every source has one state, without routes.
LEMMA FeedInitially == Init => Past = [s \in Sources3 |-> << <<>> >>] /\ FeedInv
<1> SUFFICES ASSUME Init PROVE Past = [s \in Sources3 |-> << <<>> >>] /\ FeedInv
  BY ZenonT(60)
<1>1. /\ listings = << <<>> >> /\ polledAt = 0 /\ dockerPc # "send"
      /\ channel = <<>> /\ table = RouteTable(FileRoutes)
      /\ served = [s \in Sources3 |-> 0]
      /\ providerRoutes = [p \in Providers |-> NoSnapshot]
      /\ objects = [kind \in Kinds |-> << [k \in Keys |-> Absent] >>]
      /\ shown = [kind \in Kinds |-> 0] /\ rv = [kind \in Kinds |-> 0] /\ k8sPc # "send"
  BY ZenonT(60) DEF Init, ManagerInit, DockerInit, KubernetesInit
<1>2. Past["docker"] = << <<>> >>
  <2>1. Past["docker"] = [i \in DOMAIN listings |-> RoutesOfListing(listings[i])]
    BY SourceNames3, ZenonT(60) DEF Past
  <2>2. DOMAIN listings = 1..1 /\ listings[1] = <<>>
    BY <1>1
  <2>3. \A i \in 1..1 : RoutesOfListing(listings[i]) = <<>>
    BY <2>2, NoContainersNoRoutes, SMTT(60)
  <2> QED
    BY <2>1, <2>2, <2>3, SMTT(60)
<1>3. \A kind \in Kinds : Past[kind] = << <<>> >>
  <2> SUFFICES ASSUME NEW kind \in Kinds PROVE Past[kind] = << <<>> >>
    BY ZenonT(60)
  <2>1. Past[kind] = [i \in DOMAIN objects[kind] |-> StoreRoutes(KindAt(kind, i))]
    BY SourceNames3, ZenonT(60) DEF Past
  <2>2. DOMAIN objects[kind] = 1..1 /\ objects[kind][1] = [k \in Keys |-> Absent]
    BY <1>1, SMTT(60)
  <2>3. KindAt(kind, 1) = EmptyStore
    BY <2>2, ZenonT(60) DEF KindAt, EmptyStore, RouteFromObject
  <2>4. \A i \in 1..1 : StoreRoutes(KindAt(kind, i)) = <<>>
    BY <2>3, EmptyStoreNoRoutes, SMTT(60)
  <2> QED
    BY <2>1, <2>2, <2>4, SMTT(60)
<1>4. Past = [s \in Sources3 |-> << <<>> >>]
  <2>1. \A s \in Sources3 : Past[s] = << <<>> >>
    BY <1>2, <1>3, SourceNames3, ZenonT(60)
  <2> QED
    BY <2>1, ZenonT(60) DEF Past
<1>5. \A s \in Sources3 : Hand[s] = 0 /\ served[s] = 0 /\ Len(Past[s]) = 1
  BY <1>1, <1>4, SourceNames3, ZenonT(60) DEF Hand
<1>6. HandInv
  BY <1>1, <1>5, SMTT(60) DEF HandInv
<1>7. \A p \in Providers : Carried(Past, p, served) = <<>> /\ Snapshot(providerRoutes[p]) = <<>>
  BY <1>1, <1>5, SourceNames3, SMTT(60) DEF Carried, Slice, Snapshot
<1>8. table = Recompute(providerRoutes)
  <2>1. FileRoutes \o <<>> \o <<>> = FileRoutes
    BY ManagerConstants, Joined, ZenonT(60)
  <2> QED
    BY <1>1, <1>7, <2>1, ZenonT(60) DEF Recompute, Providers
<1>9. DOMAIN channel = {}
  BY <1>1
<1> QED
  BY <1>4, <1>5, <1>6, <1>7, <1>8, <1>9, SMTT(60) DEF FeedInv, PipeInv

\* The inductive invariant holds throughout.
LEMMA FeedInvariant == Spec => []FeedInv
<1>1. Init => FeedInv
  BY FeedInitially, ZenonT(60)
<1>2. TypeOK /\ TypeOK' /\ CommittedIsPastState' /\ FeedInv /\ [Next]_vars => FeedInv'
  BY FeedStep, ZenonT(60)
<1> QED
  BY <1>1, <1>2, TypeCorrect, StoresShowRealStates, PTL DEF Spec

\* The table, in the states served.
TableOf(past, at) ==
  RouteTable(FileRoutes \o Slice(past, at, "docker")
               \o Slice(past, at, "Service") \o Slice(past, at, "Ingress"))

\* The table shows exactly the states that are served.
LEMMA TableShows ==
  TypeOK /\ FeedInv =>
    /\ \A s \in Sources3 : served[s] \in Nat /\ served[s] <= Len(Past[s])
    /\ table = TableOf(Past, served)
<1> SUFFICES ASSUME TypeOK, FeedInv
             PROVE  /\ \A s \in Sources3 : served[s] \in Nat /\ served[s] <= Len(Past[s])
                    /\ table = TableOf(Past, served)
  BY ZenonT(60)
<1>1. Past \in Histories /\ Hand \in [Sources3 -> Nat] /\ served \in [Sources3 -> Nat]
  BY PastStates, HandType, ZenonT(60) DEF PastShape, TypeOK, ManagerTypeOK
<1>2. \A s \in Sources3 : served[s] <= Hand[s] /\ Hand[s] <= Len(Past[s]) /\ Len(Past[s]) \in Nat
  BY <1>1 DEF FeedInv, PipeInv, HandInv, Histories
<1>3. \A s \in Sources3 : served[s] \in Nat /\ served[s] <= Len(Past[s])
  BY <1>1, <1>2, SMTT(60)
<1>4. \A s \in Sources3 : Slice(Past, served, s) \in Seq(Routes)
  <2> SUFFICES ASSUME NEW s \in Sources3, served[s] # 0 PROVE Past[s][served[s]] \in Seq(Routes)
    BY DEF Slice
  <2>1. Past[s] \in Seq(Seq(Routes)) /\ served[s] \in 1..Len(Past[s])
    BY <1>1, <1>2, <1>3, SMTT(60) DEF Histories
  <2> QED
    BY <2>1
<1> DEFINE D == Slice(Past, served, "docker")
           S == Slice(Past, served, "Service")
           I == Slice(Past, served, "Ingress")
<1>5. table = RouteTable(FileRoutes \o D \o (S \o I))
  BY ZenonT(60) DEF FeedInv, PipeInv, Recompute, Providers, Carried
<1>6. D \in Seq(Routes) /\ S \in Seq(Routes) /\ I \in Seq(Routes) /\ FileRoutes \in Seq(Routes)
  BY <1>4, SourceNames3, ManagerConstants, ZenonT(60)
<1> HIDE DEF D, S, I
<1>7. (FileRoutes \o D \o S) \o I = (FileRoutes \o D) \o (S \o I)
  <2>1. FileRoutes \o D \in Seq(Routes)
    BY <1>6, Joined, ZenonT(60)
  <2>2. \A a, b, c \in Seq(Routes) : (a \o b) \o c = a \o (b \o c)
    BY Joined, SMTT(60)
  <2> QED
    BY <1>6, <2>1, <2>2, ZenonT(60)
<1> QED
  BY <1>3, <1>5, <1>7, ZenonT(60) DEF TableOf, D, S, I

\* The same of the next state.
LEMMA TableShowsNext ==
  TypeOK' /\ FeedInv' =>
    /\ \A s \in Sources3 : served'[s] \in Nat /\ served'[s] <= Len(Past'[s])
    /\ table' = TableOf(Past', served')
<1>1. (TypeOK /\ FeedInv =>
         /\ \A s \in Sources3 : served[s] \in Nat /\ served[s] <= Len(Past[s])
         /\ table = TableOf(Past, served))'
  BY TableShows, PTL
<1> QED
  BY <1>1, ZenonT(60) DEF TableOf, Slice

\* At every moment the live table is the file's routes and, per source, one
\* real state of it, however polls, relists, sends and receives interleave.
THEOREM TablesAreTruthful == Spec => []TableIsTruthful
<1>1. TypeOK /\ FeedInv => TableIsTruthful
  <2> SUFFICES ASSUME TypeOK, FeedInv PROVE TableIsTruthful
    BY ZenonT(60)
  <2>1. /\ \A s \in Sources3 : served[s] \in Nat /\ served[s] <= Len(Past[s])
        /\ table = TableOf(Past, served) /\ PastShape
    BY TableShows, PastStates, ZenonT(60)
  <2>2. served["docker"] <= Len(listings) /\ \A kind \in Kinds : served[kind] <= Len(objects[kind])
    BY <2>1, SourceNames3, ZenonT(60) DEF PastShape
  <2>3. Slice(Past, served, "docker") = ListingAt(served["docker"])
    <3>1. served["docker"] # 0 => served["docker"] \in 1..Len(listings)
      BY <2>1, <2>2, SourceNames3, SMTT(60) DEF TypeOK, DockerTypeOK
    <3> QED
      BY <2>1, <3>1, ZenonT(60) DEF PastShape, Slice, ListingAt
  <2>4. ASSUME NEW kind \in Kinds
        PROVE  Slice(Past, served, kind) = StoreRoutes(KindAt(kind, served[kind]))
    <3>1. served[kind] # 0 => served[kind] \in 1..Len(objects[kind])
      BY <2>1, <2>2, SourceNames3, SMTT(60) DEF TypeOK, KubernetesTypeOK
    <3>2. CASE served[kind] = 0
      BY <3>2, EmptyStoreNoRoutes, ZenonT(60) DEF Slice, KindAt
    <3>3. CASE served[kind] # 0
      BY <2>1, <3>1, <3>3, ZenonT(60) DEF PastShape, Slice
    <3> QED
      BY <3>2, <3>3, ZenonT(60)
  <2> QED
    BY <2>1, <2>2, <2>3, <2>4, SourceNames3, ZenonT(60) DEF TableIsTruthful, TableOf
<1> QED
  BY <1>1, FeedInvariant, TypeCorrect, PTL

\* Discovery implements RouteFeed: a step adds a state to one source, or moves
\* the table to states that are no older than the ones it showed.
THEOREM DiscoveryImplementsFeed == Spec => ImplementsRouteFeed
<1>1. Init => Feed!FeedInit
  BY FeedInitially, ZenonT(60) DEF Feed!FeedInit, Init, ManagerInit
<1>2. TypeOK /\ TypeOK' /\ CommittedIsPastState' /\ FeedInv /\ FeedInv' /\ [Next]_vars
        => [Feed!FeedNext]_(Feed!feedVars)
  <2> SUFFICES ASSUME TypeOK, TypeOK', CommittedIsPastState', FeedInv, FeedInv', [Next]_vars
               PROVE  Feed!FeedNext
    BY ZenonT(60) DEF Feed!feedVars
  <2>1. /\ Past \in Histories /\ Past' \in Histories /\ served \in [Sources3 -> Nat]
        /\ served' \in [Sources3 -> Nat]
    BY PastStates, PastStatesNext, ZenonT(60) DEF PastShape, TypeOK, ManagerTypeOK
  <2>2. ASSUME NEW s \in Sources3, Adds(s), UNCHANGED managerVars
        PROVE  Feed!SourceChanges
    <3>1. Past[s] \in Seq(Seq(Routes)) /\ Past'[s] \in Seq(Seq(Routes)) /\ Len(Past[s]) \in Nat
      BY <2>1, SMTT(60) DEF Histories
    <3>2. SubSeq(Past'[s], 1, Len(Past[s])) = Past[s]
      <4> DEFINE sub == SubSeq(Past'[s], 1, Len(Past[s]))
      <4>1. \A i \in 1..Len(Past[s]) : Past'[s][i] = Past[s][i] /\ Past[s][i] \in Seq(Routes)
        BY <2>2, <3>1, SMTT(60) DEF Adds
      <4>2. /\ sub \in Seq(Seq(Routes)) /\ Len(sub) = Len(Past[s])
            /\ \A i \in 1..Len(Past[s]) : sub[i] = Past[s][i]
        BY <2>2, <3>1, <4>1, SMTT(60) DEF Adds
      <4> HIDE DEF sub
      <4>3. sub = Past[s]
        BY <3>1, <4>2, SameSeq, ZenonT(60)
      <4> QED
        BY <4>3, ZenonT(60) DEF sub
    <3>3. UNCHANGED << served, table >> /\ DOMAIN Past' = Sources3
      BY <2>1, <2>2, ZenonT(60) DEF managerVars, Histories
    <3> QED
      BY <2>2, <3>2, <3>3, ZenonT(60) DEF Feed!SourceChanges, Adds
  <2>3. CASE Past' = Past
    <3>1. \A s \in Sources3 : served[s] <= served'[s]
      BY FeedStep, ZenonT(60)
    <3>2. /\ \A s \in Sources3 : served'[s] <= Len(Past[s]) /\ Len(Past[s]) \in Nat
          /\ table' = TableOf(Past, served')
      BY <2>1, <2>3, TableShowsNext, SMTT(60) DEF Histories
    <3>3. \A s \in Sources3 : served'[s] \in served[s]..Len(Past[s])
      BY <2>1, <3>1, <3>2, SMTT(60)
    <3>4. table' = Feed!LiveTable(Past, served')
      BY <3>2, ZenonT(60) DEF TableOf, Slice, Feed!LiveTable, Feed!Shows
    <3>5. DOMAIN served' = Sources3
      BY <2>1, ZenonT(60)
    <3>6. Feed!Publish
      BY <2>3, <3>3, <3>4, <3>5, ZenonT(60) DEF Feed!Publish
    <3> QED
      BY <3>6, ZenonT(60) DEF Feed!FeedNext
  <2> QED
    BY <2>2, <2>3, StepMovesPast, ZenonT(60) DEF PastMoves, Feed!FeedNext
<1> QED
  BY <1>1, <1>2, FeedInvariant, TypeCorrect, StoresShowRealStates, PTL
     DEF Spec, ImplementsRouteFeed, Feed!FeedSpec
=============================================================================
