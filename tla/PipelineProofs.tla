--------------------------- MODULE PipelineProofs ---------------------------
(***************************************************************************)
(* The theorems of the two halves of Discovery: a KindStore only ever      *)
(* shows a real state of its kind, and no update is lost or overtaken on   *)
(* its way to the table.  After them, for FeedProofs, what the updates on  *)
(* their way show, and that sends and receives keep it so.                 *)
(***************************************************************************)
EXTENDS DiscoveryProofs

\* What an append adds to a sequence.
OneMore(c, d, e) ==
  \E n \in Nat : /\ DOMAIN d = DOMAIN c \cup {n} /\ d[n] = e
                 /\ \A i \in DOMAIN c : d[i] = c[i] /\ i < n /\ i \in Nat
                 /\ \A i, j \in DOMAIN d : i < j => i \in DOMAIN c

LEMMA Appended ==
  ASSUME NEW S, NEW c \in Seq(S), NEW e
  PROVE  OneMore(c, Append(c, e), e)
<1> USE DEF OneMore
<1> WITNESS Len(c) + 1 \in Nat
<1> QED
  BY SMTT(60)

\* Two states of a kind's objects that differ in one object.
OneObjectDiffers(a, b) ==
  \E key \in Keys : /\ a[key] # b[key]
                    /\ \A k \in Keys \ {key} : a[k] = b[k]

\* A watcher that watches has delivered everything up to its version.  A
\* buffer being filled holds the listed state's routes for the objects
\* delivered so far and nothing for the others.
StoreShows(kind) ==
  /\ shown[kind] <= Len(objects[kind])
  /\ committed[kind] = KindAt(kind, shown[kind])
  /\ phase[kind] = "watching" => shown[kind] = rv[kind]
  /\ phase[kind] = "page" => buffer[kind] = EmptyStore
  /\ phase[kind] = "listing" =>
       buffer[kind] = [k \in Keys |-> IF k \in todo[kind] THEN NoRoute
                                      ELSE KindAt(kind, rv[kind])[k]]

\* Each state of a kind differs from the one before in one object, which is
\* what lets one event carry the difference.
HistoryInv(kind) ==
  \A n \in 1..Len(objects[kind]) - 1 :
    OneObjectDiffers(objects[kind][n], objects[kind][n + 1])

\* The inductive invariant behind CommittedIsPastState.
KindInv(kind) == StoreShows(kind) /\ HistoryInv(kind)

StoreInv == \A kind \in Kinds : KindInv(kind)

\* A step that leaves a kind's objects, watcher and store alone.
KindUnchanged(kind) ==
  /\ objects'[kind] = objects[kind] /\ phase'[kind] = phase[kind]
  /\ rv'[kind] = rv[kind] /\ todo'[kind] = todo[kind]
  /\ committed'[kind] = committed[kind] /\ buffer'[kind] = buffer[kind]
  /\ shown'[kind] = shown[kind]

\* A kind's history is the same while its objects are.
LEMMA HistoryFrame ==
  ASSUME NEW kind \in Kinds, HistoryInv(kind), objects'[kind] = objects[kind]
  PROVE  HistoryInv(kind)'
<1>1. \A n \in 1..Len(objects'[kind]) - 1 :
        OneObjectDiffers(objects'[kind][n], objects'[kind][n + 1])
  BY ZenonT(60) DEF HistoryInv
<1> QED
  BY <1>1, ZenonT(60) DEF HistoryInv, OneObjectDiffers

\* A kind's invariant depends on that kind's variables only.
LEMMA KindFrame ==
  ASSUME NEW kind \in Kinds, KindInv(kind), KindUnchanged(kind)
  PROVE  KindInv(kind)'
<1>1. KindAt(kind, shown[kind])' = KindAt(kind, shown[kind])
  BY ZenonT(60) DEF KindAt, KindUnchanged
<1>2. KindAt(kind, rv[kind])' = KindAt(kind, rv[kind])
  BY ZenonT(60) DEF KindAt, KindUnchanged
<1>3. StoreShows(kind)'
  BY <1>1, <1>2, ZenonT(60) DEF KindInv, StoreShows, KindUnchanged
<1>4. HistoryInv(kind)'
  BY HistoryFrame, ZenonT(60) DEF KindInv, KindUnchanged
<1> QED
  BY <1>3, <1>4, ZenonT(60) DEF KindInv

\* An earlier state's routes do not change when a state is added.
LEMMA KindAtStable ==
  ASSUME KubernetesTypeOK, NEW kind \in Kinds, NEW new,
         objects'[kind] = Append(objects[kind], new),
         NEW n \in 0..Len(objects[kind])
  PROVE  (IF n = 0 THEN EmptyStore ELSE [k \in Keys |-> RouteFromObject(objects'[kind][n][k])])
           = KindAt(kind, n)
<1>1. n # 0 => objects'[kind][n] = objects[kind][n]
  BY DEF KubernetesTypeOK
<1> QED
  BY <1>1, ZenonT(60) DEF KindAt

\* The routes of a kind's state are a store.
LEMMA KindAtType ==
  ASSUME KubernetesTypeOK, NEW kind \in Kinds, NEW n \in 0..Len(objects[kind])
  PROVE  KindAt(kind, n) \in Store
<1>1. CASE n = 0
  BY <1>1, EmptyStoreType, ZenonT(60) DEF KindAt
<1>2. CASE n # 0
  <2>1. n \in 1..Len(objects[kind])
    BY <1>2
  <2>2. objects[kind][n] \in [Keys -> ObjectRoutes \cup {NotOptedIn, Absent}]
    BY <2>1, ObjectsAt, ZenonT(60)
  <2>3. \A k \in Keys : RouteFromObject(objects[kind][n][k]) \in ObjectRoutes \cup {NoRoute}
    BY <2>2, ZenonT(60) DEF RouteFromObject
  <2> QED
    BY <1>2, <2>3, ZenonT(60) DEF KindAt, Store
<1> QED
  BY <1>1, <1>2, ZenonT(60)

\* A change of an object keeps every kind's invariant.
LEMMA ClusterKeepsKind ==
  ASSUME KubernetesTypeOK, StoreInv, ClusterChanges, NEW kind \in Kinds
  PROVE  KindInv(kind)'
<1> DEFINE Value == ObjectRoutes \cup {NotOptedIn, Absent}
<1>1. PICK changed \in Kinds, key \in Keys, o \in Value : ObjectBecomes(changed, key, o)
  BY ZenonT(60) DEF ClusterChanges
<1> DEFINE now == objects[changed][Len(objects[changed])]
           new == [now EXCEPT ![key] = o]
<1>2. /\ now[key] # o
      /\ objects' = [objects EXCEPT ![changed] = Append(@, new)]
      /\ UNCHANGED << phase, rv, todo, committed, buffer, shown >>
  BY <1>1, ZenonT(60) DEF ObjectBecomes, ClusterChanges, storeVars
<1>3. now \in [Keys -> Value]
  BY CurrentObjects, ZenonT(60)
<1>4. OneObjectDiffers(now, new)
  BY <1>2, <1>3, ZenonT(60) DEF OneObjectDiffers
<1>5. KindInv(kind)
  BY ZenonT(60) DEF StoreInv
<1> HIDE DEF new
<1>6. CASE kind # changed
  <2>1. objects'[kind] = objects[kind]
    BY <1>2, <1>6, ZenonT(60) DEF KubernetesTypeOK
  <2> QED
    BY <1>2, <1>5, <2>1, KindFrame, ZenonT(60) DEF KindUnchanged
<1>7. CASE kind = changed
  <2>1. objects'[kind] = Append(objects[kind], new)
    BY <1>2, <1>7, ZenonT(60) DEF KubernetesTypeOK
  <2>2. Len(objects[kind]) \in Nat \ {0} /\ rv[kind] \in 0..Len(objects[kind])
        /\ shown[kind] \in 0..Len(objects[kind])
    BY <1>5, CurrentObjects DEF KubernetesTypeOK, KindInv, StoreShows
  <2>3. objects[kind] \in Seq([Keys -> Value])
    BY ZenonT(60) DEF KubernetesTypeOK
  <2>4. KindAt(kind, shown[kind])' = KindAt(kind, shown[kind])
    BY <1>2, <2>1, <2>2, KindAtStable, SMTT(60) DEF KindAt
  <2>5. KindAt(kind, rv[kind])' = KindAt(kind, rv[kind])
    BY <1>2, <2>1, <2>2, KindAtStable, SMTT(60) DEF KindAt
  <2> DEFINE L == Len(objects[kind])
  <2>6. /\ Len(objects'[kind]) = L + 1
        /\ objects'[kind][L + 1] = new
        /\ \A n \in 1..L : objects'[kind][n] = objects[kind][n]
    BY <2>1, <2>3
  <2>7. ASSUME NEW n \in 1..Len(objects'[kind]) - 1
        PROVE  OneObjectDiffers(objects'[kind][n], objects'[kind][n + 1])
    <3>1. CASE n = L
      BY <1>4, <1>7, <2>2, <2>6, <3>1, SMTT(60)
    <3>2. CASE n # L
      <4>1. n \in 1..L - 1 /\ n \in 1..L /\ n + 1 \in 1..L
        BY <2>2, <2>6, <3>2, SMTT(60)
      <4> QED
        BY <1>5, <2>6, <4>1, ZenonT(60) DEF KindInv, HistoryInv
    <3> QED
      BY <3>1, <3>2, ZenonT(60)
  <2>8. StoreShows(kind)'
    BY <1>2, <1>5, <2>2, <2>4, <2>5, <2>6, SMTT(60) DEF KindInv, StoreShows
  <2>9. HistoryInv(kind)'
    BY <2>7, ZenonT(60) DEF HistoryInv, OneObjectDiffers
  <2> QED
    BY <2>8, <2>9, ZenonT(60) DEF KindInv
<1> QED
  BY <1>6, <1>7, ZenonT(60)

\* A watch step touches one kind.
LEMMA WatchStepFrame ==
  ASSUME KubernetesTypeOK, NEW kind \in Kinds, NEW other \in Kinds \ {kind},
         WatchStep(kind) \/ WatchError(kind)
  PROVE  KindUnchanged(other)
<1>1. CASE WatchInit(kind)
  BY <1>1, ZenonT(60) DEF WatchInit, KindUnchanged, KubernetesTypeOK
<1>2. CASE WatchList(kind)
  BY <1>2, ZenonT(60) DEF WatchList, KindUnchanged, KubernetesTypeOK, storeVars
<1>3. CASE WatchInitApply(kind)
  <2>1. buffer'[other] = buffer[other] /\ todo'[other] = todo[other]
    BY <1>3, ZenonT(60) DEF WatchInitApply, KubernetesTypeOK
  <2> QED
    BY <1>3, <2>1, ZenonT(60) DEF WatchInitApply, KindUnchanged
<1>4. CASE WatchInitDone(kind)
  <2>1. committed'[other] = committed[other]
    BY <1>4, ZenonT(60) DEF WatchInitDone, Commit, KubernetesTypeOK
  <2> QED
    BY <1>4, <2>1, ZenonT(60) DEF WatchInitDone, KindUnchanged, KubernetesTypeOK
<1>5. CASE WatchEvent(kind)
  <2>1. committed'[other] = committed[other]
    BY <1>5, ZenonT(60) DEF WatchEvent, Commit, KubernetesTypeOK
  <2> QED
    BY <1>5, <2>1, ZenonT(60) DEF WatchEvent, KindUnchanged, KubernetesTypeOK
<1>6. CASE WatchError(kind)
  BY <1>6, ZenonT(60) DEF WatchError, KindUnchanged, KubernetesTypeOK, storeVars
<1> QED
  BY <1>1, <1>2, <1>3, <1>4, <1>5, <1>6, ZenonT(60) DEF WatchStep

\* Every delivery of the watcher keeps its kind's invariant.
LEMMA WatchStepKeepsKind ==
  ASSUME KubernetesTypeOK, NEW kind \in Kinds, KindInv(kind), WatchStep(kind) \/ WatchError(kind)
  PROVE  KindInv(kind)'
<1>1. objects' = objects
  BY ZenonT(60) DEF WatchStep, WatchInit, WatchList, WatchInitApply, WatchInitDone, WatchEvent, WatchError
<1>2. /\ shown[kind] <= Len(objects[kind])
      /\ committed[kind] = KindAt(kind, shown[kind])
  BY ZenonT(60) DEF KindInv, StoreShows
<1> SUFFICES StoreShows(kind)'
  <2>1. HistoryInv(kind)'
    BY <1>1, HistoryFrame, ZenonT(60) DEF KindInv
  <2> QED
    BY <2>1, ZenonT(60) DEF KindInv
<1>3. CASE WatchInit(kind)
  <2>1. phase'[kind] = "page" /\ buffer'[kind] = EmptyStore /\ UNCHANGED << rv, todo, committed, shown >>
    BY <1>3, ZenonT(60) DEF WatchInit, KubernetesTypeOK
  <2> QED
    BY <1>1, <1>2, <2>1, ZenonT(60) DEF StoreShows, KindAt
<1>4. CASE WatchList(kind)
  <2> DEFINE now == objects[kind][Len(objects[kind])]
  <2>1. /\ phase[kind] = "page" /\ phase'[kind] = "listing"
        /\ rv'[kind] = Len(objects[kind])
        /\ todo'[kind] = {k \in Keys : now[k] # Absent}
        /\ UNCHANGED << committed, buffer, shown >>
    BY <1>4, ZenonT(60) DEF WatchList, KubernetesTypeOK, storeVars
  <2>2. buffer[kind] = EmptyStore
    BY <2>1, ZenonT(60) DEF KindInv, StoreShows
  <2>3. Len(objects[kind]) # 0
    BY CurrentObjects, ZenonT(60)
  <2>4. KindAt(kind, rv[kind])' = [k \in Keys |-> RouteFromObject(now[k])]
    BY <1>1, <2>1, <2>3, ZenonT(60) DEF KindAt
  <2>5. \A k \in Keys : k \notin todo'[kind] => RouteFromObject(now[k]) = NoRoute
    BY <2>1, ZenonT(60) DEF RouteFromObject
  <2>6. buffer'[kind] = [k \in Keys |-> IF k \in todo'[kind] THEN NoRoute
                                         ELSE KindAt(kind, rv[kind])'[k]]
    BY <2>1, <2>2, <2>4, <2>5, ZenonT(60) DEF EmptyStore
  <2>7. KindAt(kind, shown[kind])' = KindAt(kind, shown[kind])
    BY <1>1, <2>1, ZenonT(60) DEF KindAt
  <2> HIDE DEF now
  <2> QED
    BY <1>1, <1>2, <2>1, <2>6, <2>7, ZenonT(60) DEF StoreShows
<1>5. CASE WatchInitApply(kind)
  <2> DEFINE seen == KindAt(kind, rv[kind])
  <2>1. PICK key \in todo[kind] :
          LET route == RouteFromObject(objects[kind][rv[kind]][key]) IN
          /\ todo' = [todo EXCEPT ![kind] = @ \ {key}]
          /\ buffer' = IF buffer[kind] # NoBuffer /\ route # NoRoute
                       THEN [buffer EXCEPT ![kind][key] = route]
                       ELSE buffer
    BY <1>5, ZenonT(60) DEF WatchInitApply
  <2>2. phase[kind] = "listing" /\ UNCHANGED << phase, rv, committed, shown >>
    BY <1>5, ZenonT(60) DEF WatchInitApply
  <2>3. rv[kind] # 0 /\ key \in Keys
    BY <2>2, ZenonT(60) DEF KubernetesTypeOK
  <2>4. seen[key] = RouteFromObject(objects[kind][rv[kind]][key])
    BY <2>3, ZenonT(60) DEF KindAt
  <2>5. buffer[kind] = [k \in Keys |-> IF k \in todo[kind] THEN NoRoute ELSE seen[k]]
    BY <2>2, ZenonT(60) DEF KindInv, StoreShows
  <2>6. buffer[kind] # NoBuffer
    <3>1. seen \in Store
      BY <2>2, ListedVersion, KindAtType
    <3> HIDE DEF seen
    <3>2. buffer[kind] \in Store
      BY <2>5, <3>1, ZenonT(60) DEF Store
    <3> QED
      BY <3>2, KubernetesConstants, ZenonT(60) DEF Store
  <2> HIDE DEF seen
  <2>7. todo'[kind] = todo[kind] \ {key}
    BY <2>1, ZenonT(60) DEF KubernetesTypeOK
  <2>8. buffer'[kind] = IF seen[key] # NoRoute THEN [buffer[kind] EXCEPT ![key] = seen[key]]
                        ELSE buffer[kind]
    BY <2>1, <2>4, <2>6, ZenonT(60) DEF KubernetesTypeOK
  <2>9. buffer'[kind] = [k \in Keys |-> IF k \in todo'[kind] THEN NoRoute ELSE seen[k]]
    BY <2>3, <2>5, <2>7, <2>8, ZenonT(60)
  <2>10. KindAt(kind, rv[kind])' = seen /\ KindAt(kind, shown[kind])' = KindAt(kind, shown[kind])
    BY <1>1, <2>2, ZenonT(60) DEF KindAt, seen
  <2> QED
    BY <1>1, <1>2, <2>2, <2>9, <2>10, ZenonT(60) DEF StoreShows
<1>6. CASE WatchInitDone(kind)
  <2>1. /\ phase[kind] = "listing" /\ phase'[kind] = "watching" /\ todo[kind] = {}
        /\ shown'[kind] = rv[kind] /\ rv' = rv
        /\ Commit(kind, IF buffer[kind] = NoBuffer THEN EmptyStore ELSE buffer[kind])
    BY <1>6, ZenonT(60) DEF WatchInitDone, KubernetesTypeOK
  <2>2. rv[kind] \in 0..Len(objects[kind])
    BY <2>1, ListedVersion, SMTT(60)
  <2> DEFINE seen == KindAt(kind, rv[kind])
  <2>3. seen \in Store
    BY <2>2, KindAtType, ZenonT(60)
  <2>4. buffer[kind] = [k \in Keys |-> IF k \in todo[kind] THEN NoRoute ELSE seen[k]]
    BY <2>1, ZenonT(60) DEF KindInv, StoreShows
  <2> HIDE DEF seen
  <2>5. buffer[kind] = seen
    BY <2>1, <2>3, <2>4, ZenonT(60) DEF Store
  <2>6. committed'[kind] = seen
    BY <2>1, <2>3, <2>5, KubernetesConstants, ZenonT(60) DEF Commit, Store, KubernetesTypeOK
  <2>7. KindAt(kind, shown[kind])' = seen
    BY <1>1, <2>1, ZenonT(60) DEF KindAt, seen
  <2>8. shown'[kind] <= Len(objects[kind])
    BY <2>1, <2>2
  <2> QED
    BY <1>1, <1>2, <2>1, <2>6, <2>7, <2>8, ZenonT(60) DEF StoreShows
<1>7. CASE WatchEvent(kind)
  <2> DEFINE next == rv[kind] + 1
             key == CHOOSE k \in Keys : objects[kind][next][k] # objects[kind][rv[kind]][k]
             new == [committed[kind] EXCEPT ![key] = RouteFromObject(objects[kind][next][key])]
  <2>1. /\ phase[kind] = "watching" /\ phase' = phase
        /\ rv'[kind] = next /\ shown'[kind] = next /\ rv[kind] < Len(objects[kind])
    BY <1>7, ZenonT(60) DEF WatchEvent, KubernetesTypeOK
  <2>2. Commit(kind, new)
    BY <1>7, ZenonT(60) DEF WatchEvent
  <2>3. Len(objects[kind]) \in Nat /\ rv[kind] \in 1..Len(objects[kind]) - 1
    BY <2>1, ListedVersion, CurrentObjects
  <2>4. next \in 1..Len(objects[kind]) /\ next # 0 /\ rv[kind] # 0
    BY <2>3
  <2>5. OneObjectDiffers(objects[kind][rv[kind]], objects[kind][next])
    BY <2>3, ZenonT(60) DEF KindInv, HistoryInv
  <2>6. committed[kind] = [k \in Keys |-> RouteFromObject(objects[kind][rv[kind]][k])]
    BY <1>2, <2>1, <2>4, ZenonT(60) DEF KindAt, KindInv, StoreShows
  <2>7. new = [k \in Keys |-> RouteFromObject(objects[kind][next][k])]
    <3> HIDE DEF next
    <3>1. /\ key \in Keys
          /\ \A k \in Keys \ {key} : objects[kind][next][k] = objects[kind][rv[kind]][k]
      BY <2>5, ZenonT(60) DEF OneObjectDiffers
    <3> HIDE DEF key
    <3> QED
      BY <2>6, <3>1, ZenonT(60)
  <2>8. committed'[kind] = new
    BY <2>2, ZenonT(60) DEF Commit, KubernetesTypeOK
  <2> HIDE DEF new
  <2>9. committed'[kind] = KindAt(kind, shown[kind])'
    BY <1>1, <2>1, <2>4, <2>7, <2>8, ZenonT(60) DEF KindAt
  <2>10. shown'[kind] <= Len(objects[kind])
    BY <2>1, <2>3, SMTT(60)
  <2> HIDE DEF next
  <2> QED
    BY <1>1, <1>2, <2>1, <2>9, <2>10, ZenonT(60) DEF StoreShows
<1>8. CASE WatchError(kind)
  <2>1. phase'[kind] = "start" /\ UNCHANGED << committed, shown >>
    BY <1>8, ZenonT(60) DEF WatchError, KubernetesTypeOK, storeVars
  <2>2. KindAt(kind, shown[kind])' = KindAt(kind, shown[kind])
    BY <1>1, <2>1, ZenonT(60) DEF KindAt
  <2> QED
    BY <1>1, <1>2, <2>1, <2>2, ZenonT(60) DEF StoreShows
<1> QED
  BY <1>3, <1>4, <1>5, <1>6, <1>7, <1>8, ZenonT(60) DEF WatchStep

\* A reconnect never exposes a partial snapshot: whatever lists, restarts,
\* errors and events come, each committed map is one real state of its kind.
THEOREM StoresShowRealStates == Spec => []CommittedIsPastState
<1>1. Init => StoreInv
  <2> SUFFICES ASSUME Init, NEW kind \in Kinds PROVE KindInv(kind)
    BY ZenonT(60) DEF StoreInv
  <2>1. /\ objects[kind] = << [k \in Keys |-> Absent] >> /\ phase[kind] = "start"
        /\ committed[kind] = EmptyStore /\ shown[kind] = 0
    BY ZenonT(60) DEF Init, KubernetesInit
  <2>2. Len(objects[kind]) = 1
    BY <2>1, ZenonT(60)
  <2>3. KindAt(kind, shown[kind]) = EmptyStore
    BY <2>1, ZenonT(60) DEF KindAt
  <2>4. StoreShows(kind)
    <3>1. /\ shown[kind] <= Len(objects[kind])
          /\ phase[kind] # "watching" /\ phase[kind] # "page" /\ phase[kind] # "listing"
      BY <2>1, <2>2
    <3> QED
      BY <2>1, <2>3, <3>1, ZenonT(60) DEF StoreShows
  <2>5. HistoryInv(kind)
    <3>1. 1..Len(objects[kind]) - 1 = {}
      BY <2>2
    <3> QED
      BY <3>1, ZenonT(60) DEF HistoryInv
  <2> QED
    BY <2>4, <2>5, ZenonT(60) DEF KindInv
<1>2. TypeOK /\ StoreInv /\ [Next]_vars => StoreInv'
  <2> SUFFICES ASSUME TypeOK, StoreInv, [Next]_vars, NEW kind \in Kinds PROVE KindInv(kind)'
    BY ZenonT(60) DEF StoreInv
  <2>1. KubernetesTypeOK /\ KindInv(kind)
    BY ZenonT(60) DEF TypeOK, StoreInv
  <2>2. CASE ClusterChanges
    BY <2>1, <2>2, ClusterKeepsKind, ZenonT(60)
  <2>3. ASSUME NEW k \in Kinds, WatchStep(k) \/ WatchError(k)
        PROVE  KindInv(kind)'
    <3>1. CASE k = kind
      BY <2>1, <2>3, <3>1, WatchStepKeepsKind, ZenonT(60)
    <3>2. CASE k # kind
      BY <2>1, <2>3, <3>2, WatchStepFrame, KindFrame, ZenonT(60)
    <3> QED
      BY <3>1, <3>2, ZenonT(60)
  <2>4. CASE UNCHANGED << apiVars, storeVars >>
    BY <2>1, <2>4, KindFrame, ZenonT(60) DEF KindUnchanged, apiVars, storeVars
  <2>5. \/ ClusterChanges
        \/ \E k \in Kinds : WatchStep(k) \/ WatchError(k)
        \/ UNCHANGED << apiVars, storeVars >>
    BY ZenonT(60) DEF Next, DaemonChanges, DaemonFails, DockerStep, WatchFails, KubernetesStep,
       KubernetesEnds, ManagerStep, vars, kubeVars
  <2> QED
    BY <2>2, <2>3, <2>4, <2>5, ZenonT(60)
<1>3. StoreInv => CommittedIsPastState
  BY ZenonT(60) DEF StoreInv, KindInv, StoreShows, CommittedIsPastState
<1> QED
  BY <1>1, <1>2, <1>3, TypeCorrect, PTL DEF Spec

\* A turn of the Kubernetes loop, as far as versions and the snapshot to send
\* are concerned.
VersionsMove ==
  /\ \A kind \in Kinds : shown[kind] <= shown'[kind] /\ shown'[kind] <= rv'[kind]
  /\ \/ UNCHANGED << shown, pending >> /\ (k8sPc' = "send" => k8sPc = "send")
     \/ k8sPc' = "send" => pending' = AllRoutes(committed')

\* A watcher and its store never go back to an older version.
LEMMA WatchMoves ==
  ASSUME TypeOK, \A k \in Kinds : shown[k] <= rv[k],
         NEW kind \in Kinds, WatchStep(kind) \/ WatchError(kind)
  PROVE  VersionsMove
<1>1. /\ rv \in [Kinds -> Nat] /\ shown \in [Kinds -> Nat]
      /\ \A k \in Kinds : /\ shown[k] \in Nat /\ rv[k] \in Nat /\ shown[k] <= rv[k]
                          /\ rv[k] <= Len(objects[k]) /\ Len(objects[k]) \in Nat
  BY DEF TypeOK, KubernetesTypeOK
<1>2. CASE UNCHANGED << shown, rv, k8sPc, pending >>
  BY <1>1, <1>2, SMTT(60) DEF VersionsMove
<1>3. CASE WatchInit(kind) \/ WatchInitApply(kind) \/ WatchError(kind)
  BY <1>2, <1>3, ZenonT(60) DEF WatchInit, WatchInitApply, WatchError, loopVars, storeVars
<1>4. CASE WatchList(kind)
  <2>1. UNCHANGED << shown, k8sPc, pending >> /\ rv' = [rv EXCEPT ![kind] = Len(objects[kind])]
    BY <1>4, ZenonT(60) DEF WatchList, storeVars, loopVars
  <2> QED
    BY <1>1, <2>1, SMTT(60) DEF VersionsMove
<1>5. ASSUME NEW new, Commit(kind, new), k8sPc = "next"
      PROVE  k8sPc' = "send" => pending' = AllRoutes(committed')
  BY <1>5, ZenonT(60) DEF Commit
<1>6. CASE WatchInitDone(kind)
  <2>1. shown' = [shown EXCEPT ![kind] = rv[kind]] /\ rv' = rv
    BY <1>6, ZenonT(60) DEF WatchInitDone
  <2>2. k8sPc' = "send" => pending' = AllRoutes(committed')
    BY <1>5, <1>6, ZenonT(60) DEF WatchInitDone
  <2> QED
    BY <1>1, <2>1, <2>2, SMTT(60) DEF VersionsMove
<1>7. CASE WatchEvent(kind)
  <2>1. shown' = [shown EXCEPT ![kind] = rv[kind] + 1] /\ rv' = [rv EXCEPT ![kind] = rv[kind] + 1]
    BY <1>7, ZenonT(60) DEF WatchEvent
  <2>2. k8sPc' = "send" => pending' = AllRoutes(committed')
    BY <1>5, <1>7, ZenonT(60) DEF WatchEvent
  <2> QED
    BY <1>1, <2>1, <2>2, SMTT(60) DEF VersionsMove
<1> QED
  BY <1>3, <1>4, <1>6, <1>7, ZenonT(60) DEF WatchStep
-----------------------------------------------------------------------------
\* A send makes its snapshot the newest of its provider.
LEMMA SendIsNewest ==
  ASSUME ManagerTypeOK, NEW p, NEW routes, NEW at, Send(p, routes, at)
  PROVE  Newest(p, routes)'
<1> DEFINE u == [provider |-> p, routes |-> routes, at |-> at]
           n == Len(channel) + 1
<1>1. channel' = Append(channel, u) /\ channel \in Seq(Update)
  BY DEF Send, ManagerTypeOK
<1> HIDE DEF u
<1>2. n \in DOMAIN channel' /\ channel'[n] = u /\ \A j \in DOMAIN channel' : ~(j > n)
  BY <1>1
<1>3. u.provider = p /\ u.routes = routes
  BY DEF u
<1> HIDE DEF n
<1> QED
  BY <1>2, <1>3 DEF Newest

\* A send does not disturb the other provider's updates.
LEMMA SendKeepsOther ==
  ASSUME ManagerTypeOK, NEW p, NEW routes, NEW at, Send(p, routes, at),
         NEW q, q # p, NEW old, Newest(q, old)
  PROVE  Newest(q, old)'
<1> DEFINE u == [provider |-> p, routes |-> routes, at |-> at]
           n == Len(channel) + 1
<1>1. channel' = Append(channel, u) /\ channel \in Seq(Update) /\ providerRoutes' = providerRoutes
  BY ZenonT(60) DEF Send, ManagerTypeOK
<1>2. u.provider = p
  BY ZenonT(60)
<1> HIDE DEF u
<1>3. /\ DOMAIN channel' = DOMAIN channel \cup {n}
      /\ channel'[n] = u
      /\ \A i \in DOMAIN channel : channel'[i] = channel[i]
  BY <1>1
<1>4. CASE \A i \in DOMAIN channel : channel[i].provider # q
  BY <1>1, <1>2, <1>3, <1>4, ZenonT(60) DEF Newest
<1>5. CASE \E i \in DOMAIN channel : channel[i].provider = q
  <2>1. PICK i \in DOMAIN channel :
          /\ channel[i].provider = q /\ channel[i].routes = old
          /\ \A j \in DOMAIN channel : j > i => channel[j].provider # q
    BY <1>5, ZenonT(60) DEF Newest
  <2>2. i \in DOMAIN channel' /\ channel'[i] = channel[i]
    BY <1>3, ZenonT(60)
  <2>3. \A j \in DOMAIN channel' : j > i => channel'[j].provider # q
    BY <2>1, <1>2, <1>3, ZenonT(60)
  <2> QED
    BY <2>1, <2>2, <2>3, ZenonT(60) DEF Newest
<1> QED
  BY <1>4, <1>5, ZenonT(60)

\* A receive moves the oldest update into the manager's map and changes
\* neither provider's newest snapshot.
LEMMA RecvKeepsNewest ==
  ASSUME ManagerTypeOK, ManagerRecv, NEW p \in Providers, NEW routes, Newest(p, routes)
  PROVE  Newest(p, routes)'
<1> DEFINE u == Head(channel)
<1>1. channel \in Seq(Update) /\ channel # <<>> /\ channel' = Tail(channel)
  BY ZenonT(60) DEF ManagerRecv, ManagerTypeOK
<1>2. /\ 1 \in DOMAIN channel /\ channel[1] = u
      /\ \A i : i \in DOMAIN channel' <=> i \in Nat \ {0} /\ i + 1 \in DOMAIN channel
      /\ \A i \in DOMAIN channel' : channel'[i] = channel[i + 1]
      /\ DOMAIN channel \subseteq Nat \ {0}
  BY <1>1
<1>3. u \in Update
  BY <1>1
<1>4. u.provider \in Providers
  BY <1>3, ZenonT(60) DEF Update
<1>5. providerRoutes' = [providerRoutes EXCEPT ![u.provider] = u.routes]
  BY ZenonT(60) DEF ManagerRecv
<1>6. providerRoutes'[p] = IF u.provider = p THEN u.routes ELSE providerRoutes[p]
  BY <1>4, <1>5, ZenonT(60) DEF ManagerTypeOK
<1> HIDE DEF u
<1>7. CASE \A i \in DOMAIN channel : channel[i].provider # p
  <2>1. \A i \in DOMAIN channel' : channel'[i].provider # p
    BY <1>2, <1>7, ZenonT(60)
  <2>2. providerRoutes[p] = routes /\ u.provider # p
    BY <1>2, <1>7, ZenonT(60) DEF Newest
  <2> QED
    BY <2>1, <2>2, <1>6, ZenonT(60) DEF Newest
<1>8. CASE \E i \in DOMAIN channel : channel[i].provider = p
  <2>1. PICK i \in DOMAIN channel :
          /\ channel[i].provider = p /\ channel[i].routes = routes
          /\ \A j \in DOMAIN channel : j > i => channel[j].provider # p
    BY <1>8, ZenonT(60) DEF Newest
  <2>2. CASE i = 1
    <3>1. \A j \in DOMAIN channel' : channel'[j].provider # p
      BY <2>1, <2>2, <1>2
    <3>2. providerRoutes'[p] = routes
      BY <2>1, <2>2, <1>2, <1>6, ZenonT(60)
    <3> QED
      BY <3>1, <3>2, ZenonT(60) DEF Newest
  <2>3. CASE i # 1
    <3>1. i - 1 \in DOMAIN channel' /\ channel'[i - 1] = channel[i]
      BY <2>3, <1>2
    <3>2. \A j \in DOMAIN channel' : j > i - 1 => channel'[j].provider # p
      BY <2>1, <1>2
    <3> QED
      BY <2>1, <3>1, <3>2, ZenonT(60) DEF Newest
  <2> QED
    BY <2>2, <2>3, ZenonT(60)
<1> QED
  BY <1>7, <1>8, ZenonT(60)

\* What a provider believes the table has been told is what the channel and
\* the manager hold: every update arrives, in the order it was sent.
THEOREM UpdatesAreNotLost == Spec => []NoLostUpdate
<1>1. Init => NoLostUpdate
  BY DEF Init, ManagerInit, DockerInit, KubernetesInit, NoLostUpdate, Newest, Providers
<1>2. TypeOK /\ NoLostUpdate /\ [Next]_vars => NoLostUpdate'
  <2> SUFFICES ASSUME TypeOK, NoLostUpdate, [Next]_vars PROVE NoLostUpdate'
    BY ZenonT(60)
  <2>1. Newest("docker", last) /\ Newest("kubernetes", lastSent)
    BY ZenonT(60) DEF NoLostUpdate
  <2>2. ManagerTypeOK /\ "docker" \in Providers /\ "kubernetes" \in Providers
    BY ZenonT(60) DEF TypeOK, Providers
  <2>3. CASE DockerSend /\ UNCHANGED kubeVars
    <3>1. Send("docker", polled, [s \in {"docker"} |-> polledAt]) /\ last' = polled
      BY <2>3, ZenonT(60) DEF DockerSend
    <3>2. lastSent' = lastSent
      BY <2>3, ZenonT(60) DEF kubeVars, loopVars
    <3>3. Newest("docker", last)'
      BY <2>2, <3>1, SendIsNewest, ZenonT(60) DEF Newest
    <3>4. Newest("kubernetes", lastSent)'
      BY <2>1, <2>2, <3>1, <3>2, SendKeepsOther, SMTT(60) DEF Newest
    <3> QED
      BY <3>3, <3>4, ZenonT(60) DEF NoLostUpdate
  <2>4. CASE KubernetesSend /\ UNCHANGED dockerVars
    <3>1. Send("kubernetes", pending, shown) /\ lastSent' = pending
      BY <2>4, ZenonT(60) DEF KubernetesSend
    <3>2. last' = last
      BY <2>4, ZenonT(60) DEF dockerVars
    <3>3. Newest("kubernetes", lastSent)'
      BY <2>2, <3>1, SendIsNewest, ZenonT(60) DEF Newest
    <3>4. Newest("docker", last)'
      <4>1. \A old : Newest("docker", old) => Newest("docker", old)'
        BY <2>2, <3>1, SendKeepsOther, SMTT(60)
      <4> QED
        BY <2>1, <3>2, <4>1, ZenonT(60) DEF Newest
    <3> QED
      BY <3>3, <3>4, ZenonT(60) DEF NoLostUpdate
  <2>5. CASE ManagerRecv /\ UNCHANGED << dockerVars, kubeVars >>
    <3>1. last' = last /\ lastSent' = lastSent
      BY <2>5, ZenonT(60) DEF dockerVars, kubeVars, loopVars
    <3>2. Newest("docker", last)'
      <4>1. \A old : Newest("docker", old) => Newest("docker", old)'
        BY <2>2, <2>5, RecvKeepsNewest, ZenonT(60)
      <4> QED
        BY <2>1, <3>1, <4>1, ZenonT(60) DEF Newest
    <3>3. Newest("kubernetes", lastSent)'
      <4>1. \A old : Newest("kubernetes", old) => Newest("kubernetes", old)'
        BY <2>2, <2>5, RecvKeepsNewest, ZenonT(60)
      <4> QED
        BY <2>1, <3>1, <4>1, ZenonT(60) DEF Newest
    <3> QED
      BY <3>2, <3>3, ZenonT(60) DEF NoLostUpdate
  <2>6. CASE UNCHANGED << channel, providerRoutes, last, lastSent >>
    BY <2>1, <2>6, ZenonT(60) DEF NoLostUpdate, Newest
  <2>7. \/ DockerSend /\ UNCHANGED kubeVars
        \/ KubernetesSend /\ UNCHANGED dockerVars
        \/ ManagerRecv /\ UNCHANGED << dockerVars, kubeVars >>
        \/ UNCHANGED << channel, providerRoutes, last, lastSent >>
    <3> USE DEF managerVars, dockerVars, kubeVars, loopVars
    <3>1. CASE DaemonChanges \/ DaemonFails \/ ClusterChanges \/ WatchFails \/ KubernetesEnds
      BY <3>1, ZenonT(60) DEF DaemonChanges, DaemonFails, ClusterChanges, WatchFails, WatchError,
         KubernetesEnds, StreamsEnd
    <3>2. CASE DockerStep
      BY <3>2, ZenonT(60) DEF DockerStep, DockerConnect, DockerCannotConnect, DockerPoll, DockerWake
    <3>3. CASE \E kind \in Kinds : WatchStep(kind)
      BY <3>3, ZenonT(60) DEF WatchStep, WatchInit, WatchList, WatchInitApply, WatchInitDone, WatchEvent, Commit
    <3>4. CASE KubernetesStep
      BY <3>4, ZenonT(60) DEF KubernetesStep, KubernetesConnect
    <3>5. CASE ManagerStep
      BY <3>5, ZenonT(60) DEF ManagerStep, ManagerStop
    <3>6. CASE UNCHANGED vars
      BY <3>6, ZenonT(60) DEF vars
    <3> QED
      BY <3>1, <3>2, <3>3, <3>4, <3>5, <3>6, ZenonT(60) DEF Next
  <2> QED
    BY <2>3, <2>4, <2>5, <2>6, <2>7, ZenonT(60)
<1> QED
  BY <1>1, <1>2, TypeCorrect, PTL DEF Spec
-----------------------------------------------------------------------------
\* The sources that a snapshot of provider p shows.
SourcesOf(p) == IF p = "docker" THEN {"docker"} ELSE Kinds

\* The routes of source s in its state number at[s].
Slice(past, at, s) == IF at[s] = 0 THEN <<>> ELSE past[s][at[s]]

\* The snapshot of provider p that shows the states numbered at.
Carried(past, p, at) ==
  IF p = "docker" THEN Slice(past, at, "docker")
  ELSE Slice(past, at, "Service") \o Slice(past, at, "Ingress")

\* The newest state of each source that its provider has got hold of.
Hand == [s \in Sources3 |-> IF s = "docker" THEN polledAt ELSE shown[s]]

\* An update shows real states, between the ones in the table and the newest
\* its provider has.
Fresh(u, past, from, to) ==
  /\ DOMAIN u.at = SourcesOf(u.provider)
  /\ u.routes = Carried(past, u.provider, u.at)
  /\ \A s \in SourcesOf(u.provider) : from[s] <= u.at[s] /\ u.at[s] <= to[s]

\* Two updates in the order they were sent.
InOrder(u, v) ==
  u.provider = v.provider => \A s \in SourcesOf(u.provider) : u.at[s] <= v.at[s]

\* What is on the way from the providers to the table, and in it.
PipeInv ==
  /\ \A i \in DOMAIN channel : Fresh(channel[i], Past, served, Hand)
  /\ \A i, j \in DOMAIN channel : i < j => InOrder(channel[i], channel[j])
  /\ \A p \in Providers : Snapshot(providerRoutes[p]) = Carried(Past, p, served)
  /\ \A s \in Sources3 : served[s] <= Hand[s]
  /\ table = Recompute(providerRoutes)

\* What the providers hold.  That a kind's store is never ahead of its watcher
\* is what keeps a relist from going back.
HandInv ==
  /\ \A s \in Sources3 : Hand[s] <= Len(Past[s])
  /\ \A kind \in Kinds : shown[kind] <= rv[kind]
  /\ dockerPc = "send" => polled = Carried(Past, "docker", Hand)
  /\ k8sPc = "send" => pending = Carried(Past, "kubernetes", Hand)

FeedInv == PipeInv /\ HandInv

Growing(past, new) ==
  \A s \in Sources3 : /\ Len(past[s]) <= Len(new[s])
                      /\ \A n \in 1..Len(past[s]) : new[s][n] = past[s][n]

Histories == [Sources3 -> Seq(Seq(Routes))]
-----------------------------------------------------------------------------
\* The names of sources and kinds.
LEMMA SourceNames3 ==
  /\ Kinds \subseteq Sources3 /\ "docker" \in Sources3 /\ "docker" \notin Kinds
  /\ "Service" \in Kinds /\ "Ingress" \in Kinds
  /\ Sources3 = {"docker"} \cup Kinds
  /\ \A p \in Providers : SourcesOf(p) \subseteq Sources3
  BY ZenonT(60) DEF Kinds, Sources3, SourcesOf

\* A snapshot of earlier states does not change when states are added.
LEMMA CarriedStays ==
  ASSUME NEW past \in Histories, NEW new \in Histories, Growing(past, new),
         NEW p \in Providers, NEW at,
         \A s \in SourcesOf(p) : at[s] \in Nat /\ at[s] <= Len(past[s])
  PROVE  Carried(new, p, at) = Carried(past, p, at)
<1>1. \A s \in SourcesOf(p) : Slice(new, at, s) = Slice(past, at, s)
  <2> SUFFICES ASSUME NEW s \in SourcesOf(p), at[s] # 0 PROVE new[s][at[s]] = past[s][at[s]]
    BY ZenonT(60) DEF Slice
  <2>1. s \in Sources3
    BY SourceNames3, ZenonT(60)
  <2>2. at[s] \in 1..Len(past[s])
    BY <2>1 DEF Histories
  <2> QED
    BY <2>1, <2>2, ZenonT(60) DEF Growing
<1> QED
  BY <1>1, SourceNames3, ZenonT(60) DEF Carried, SourcesOf

\* A snapshot is made of the numbers of its own sources.
LEMMA CarriedBy ==
  ASSUME NEW past, NEW p \in Providers, NEW a, NEW b, \A s \in SourcesOf(p) : a[s] = b[s]
  PROVE  Carried(past, p, a) = Carried(past, p, b)
  BY SourceNames3, ZenonT(60) DEF Carried, Slice, SourcesOf

\* State numbers are natural numbers.
LEMMA HandType == TypeOK => Hand \in [Sources3 -> Nat]
  BY SourceNames3, ZenonT(60) DEF TypeOK, DockerTypeOK, KubernetesTypeOK, Hand

\* The same of the next state.
LEMMA HandTypeNext == TypeOK' => Hand' \in [Sources3 -> Nat]
<1>1. TypeOK' => (Hand \in [Sources3 -> Nat])'
  BY HandType, PTL
<1> QED
  BY <1>1, ZenonT(60)

\* A step that does not touch the pipe keeps what is in it, while the sources
\* and the providers move on.
LEMMA PipeStays ==
  ASSUME TypeOK, TypeOK', FeedInv, Past \in Histories, Past' \in Histories, Growing(Past, Past'),
         UNCHANGED << channel, providerRoutes, table, served >>,
         \A s \in Sources3 : Hand[s] <= Hand'[s]
  PROVE  PipeInv'
<1>1. /\ Past \in Histories /\ Past' \in Histories
      /\ Hand \in [Sources3 -> Nat] /\ Hand' \in [Sources3 -> Nat]
      /\ served \in [Sources3 -> Nat] /\ channel \in Seq(Update)
  BY HandType, HandTypeNext, ZenonT(60) DEF TypeOK, ManagerTypeOK
<1>2. \A s \in Sources3 : Hand[s] <= Len(Past[s]) /\ served[s] <= Hand[s] /\ Len(Past[s]) \in Nat
  BY <1>1, SMTT(60) DEF FeedInv, PipeInv, HandInv, Histories
<1>3. ASSUME NEW i \in DOMAIN channel
      PROVE  Fresh(channel[i], Past', served, Hand')
  <2> DEFINE u == channel[i]
  <2>1. u \in Update /\ Fresh(u, Past, served, Hand)
    BY <1>1, SMTT(60) DEF FeedInv, PipeInv
  <2> HIDE DEF u
  <2>2. u.provider \in Providers /\ DOMAIN u.at = SourcesOf(u.provider)
    BY <2>1, ZenonT(60) DEF Update, Fresh
  <2>3. \A s \in SourcesOf(u.provider) : u.at[s] \in Nat
    BY <2>1, <2>2, ZenonT(60) DEF Update
  <2>4. \A s \in SourcesOf(u.provider) : /\ served[s] <= u.at[s] /\ u.at[s] <= Hand'[s]
                                         /\ u.at[s] <= Len(Past[s])
    <3> SUFFICES ASSUME NEW s \in SourcesOf(u.provider)
                 PROVE  served[s] <= u.at[s] /\ u.at[s] <= Hand'[s] /\ u.at[s] <= Len(Past[s])
      BY ZenonT(60)
    <3>1. s \in Sources3
      BY <2>2, SourceNames3, ZenonT(60)
    <3>2. served[s] <= u.at[s] /\ u.at[s] <= Hand[s]
      BY <2>1, ZenonT(60) DEF Fresh
    <3> QED
      BY <1>1, <1>2, <2>3, <3>1, <3>2, SMTT(60)
  <2>5. Carried(Past', u.provider, u.at) = Carried(Past, u.provider, u.at)
    BY <1>1, <2>2, <2>3, <2>4, CarriedStays, ZenonT(60)
  <2> QED
    BY <2>1, <2>2, <2>4, <2>5, ZenonT(60) DEF Fresh, u
<1>4. ASSUME NEW p \in Providers
      PROVE  Snapshot(providerRoutes[p]) = Carried(Past', p, served)
  <2>1. \A s \in SourcesOf(p) : served[s] \in Nat /\ served[s] <= Len(Past[s])
    <3>1. \A s \in Sources3 : served[s] \in Nat /\ served[s] <= Len(Past[s])
      BY <1>1, <1>2
    <3> QED
      BY <3>1, SourceNames3, ZenonT(60)
  <2>2. Carried(Past', p, served) = Carried(Past, p, served)
    BY <1>1, <2>1, CarriedStays, ZenonT(60)
  <2> QED
    BY <2>2, ZenonT(60) DEF FeedInv, PipeInv
<1>5. \A s \in Sources3 : served[s] <= Hand'[s]
  BY <1>1, <1>2, SMTT(60)
<1>6. \A i, j \in DOMAIN channel : i < j => InOrder(channel[i], channel[j])
  BY ZenonT(60) DEF FeedInv, PipeInv
<1>7. table = Recompute(providerRoutes)
  BY ZenonT(60) DEF FeedInv, PipeInv
<1> QED
  BY <1>3, <1>4, <1>5, <1>6, <1>7, ZenonT(60) DEF PipeInv, Recompute, Snapshot

\* A provider that sends the snapshot it holds puts it behind its older ones.
LEMMA PipeSend ==
  ASSUME TypeOK, FeedInv, NEW p \in Providers, NEW at, NEW routes, Send(p, routes, at),
         DOMAIN at = SourcesOf(p), \A s \in SourcesOf(p) : at[s] = Hand[s],
         routes = Carried(Past, p, Hand), UNCHANGED << Past, Hand >>
  PROVE  PipeInv'
<1> DEFINE new == [provider |-> p, routes |-> routes, at |-> at]
<1>1. /\ Hand \in [Sources3 -> Nat] /\ served \in [Sources3 -> Nat] /\ channel \in Seq(Update)
      /\ UNCHANGED << providerRoutes, table, served >> /\ channel' = Append(channel, new)
  BY HandType, ZenonT(60) DEF TypeOK, ManagerTypeOK, Send
<1>2. \A s \in Sources3 : served[s] <= Hand[s] /\ Hand[s] <= Hand[s]
  BY <1>1, SMTT(60) DEF FeedInv, PipeInv
<1>3. new.provider = p /\ new.routes = routes /\ new.at = at
  BY ZenonT(60)
<1> HIDE DEF new
<1>4. PICK n \in Nat : /\ DOMAIN channel' = DOMAIN channel \cup {n} /\ channel'[n] = new
                       /\ \A i \in DOMAIN channel : channel'[i] = channel[i] /\ i < n /\ i \in Nat
                       /\ \A i, j \in DOMAIN channel' : i < j => i \in DOMAIN channel
  <2>1. OneMore(channel, channel', new)
    BY <1>1, Appended, ZenonT(60)
  <2> QED
    BY <2>1, ZenonT(60) DEF OneMore
<1>5. Carried(Past, p, at) = Carried(Past, p, Hand)
  BY CarriedBy, ZenonT(60)
<1>6. Fresh(new, Past, served, Hand)
  BY <1>2, <1>3, <1>5, SourceNames3, ZenonT(60) DEF Fresh
<1>7. \A i \in DOMAIN channel : Fresh(channel[i], Past, served, Hand)
  BY ZenonT(60) DEF FeedInv, PipeInv
<1>8. \A i \in DOMAIN channel : InOrder(channel[i], new)
  BY <1>3, <1>7, ZenonT(60) DEF InOrder, Fresh
<1>9. ASSUME NEW i \in DOMAIN channel'
      PROVE  Fresh(channel'[i], Past, served, Hand)
  <2>1. CASE i = n
    BY <1>4, <1>6, <2>1, ZenonT(60)
  <2>2. CASE i \in DOMAIN channel
    BY <1>4, <1>7, <2>2, ZenonT(60)
  <2> QED
    BY <1>4, <2>1, <2>2, ZenonT(60)
<1>10. ASSUME NEW i \in DOMAIN channel', NEW j \in DOMAIN channel', i < j
       PROVE  InOrder(channel'[i], channel'[j])
  <2>1. i \in DOMAIN channel
    BY <1>4, <1>10, ZenonT(60)
  <2>2. CASE j = n
    BY <1>4, <1>8, <2>1, <2>2, ZenonT(60)
  <2>3. CASE j \in DOMAIN channel
    BY <1>4, <1>10, <2>1, <2>3, ZenonT(60) DEF FeedInv, PipeInv
  <2> QED
    BY <1>4, <2>2, <2>3, ZenonT(60)
<1>11. /\ \A q \in Providers : Snapshot(providerRoutes[q]) = Carried(Past, q, served)
       /\ table = Recompute(providerRoutes)
  BY ZenonT(60) DEF FeedInv, PipeInv
<1> QED
  BY <1>1, <1>2, <1>9, <1>10, <1>11, ZenonT(60) DEF PipeInv, Recompute, Snapshot

\* The manager takes the oldest update: the table moves to the states it
\* shows, none of which is older than the one before.
LEMMA PipeRecv ==
  ASSUME TypeOK, FeedInv, ManagerRecv, UNCHANGED << Past, Hand >>
  PROVE  /\ PipeInv'
         /\ \A s \in Sources3 : served[s] <= served'[s]
<1> DEFINE u == Head(channel)
           p == u.provider
<1>1. /\ channel \in Seq(Update) /\ channel # <<>> /\ channel' = Tail(channel)
      /\ providerRoutes \in [Providers -> MaybeSnapshot]
      /\ served \in [Sources3 -> Nat] /\ Hand \in [Sources3 -> Nat]
  BY HandType, ZenonT(60) DEF TypeOK, ManagerTypeOK, ManagerRecv
<1>2. /\ 1 \in DOMAIN channel /\ channel[1] = u /\ u \in Update
      /\ \A i \in DOMAIN channel' : /\ i + 1 \in DOMAIN channel /\ channel'[i] = channel[i + 1]
                                    /\ 1 < i + 1 /\ i \in Nat
  BY <1>1
<1>3. /\ providerRoutes' = [providerRoutes EXCEPT ![p] = u.routes]
      /\ table' = Recompute(providerRoutes')
      /\ served' = [s \in Sources3 |-> IF s \in DOMAIN u.at THEN u.at[s] ELSE served[s]]
  BY ZenonT(60) DEF ManagerRecv
<1> HIDE DEF u
<1>4. p \in Providers /\ u.routes \in Seq(Routes) /\ Fresh(u, Past, served, Hand)
  BY <1>2, ZenonT(60) DEF Update, FeedInv, PipeInv
<1>5. /\ DOMAIN u.at = SourcesOf(p) /\ SourcesOf(p) \subseteq Sources3
      /\ u.routes = Carried(Past, p, u.at)
      /\ \A s \in SourcesOf(p) : u.at[s] \in Nat /\ served[s] <= u.at[s] /\ u.at[s] <= Hand[s]
  BY <1>2, <1>4, SourceNames3, ZenonT(60) DEF Fresh, Update
<1>6. \A s \in Sources3 : /\ s \in SourcesOf(p) => served'[s] = u.at[s]
                          /\ s \notin SourcesOf(p) => served'[s] = served[s]
  BY <1>3, <1>5, ZenonT(60)
<1> HIDE DEF p
<1>7. \A s \in Sources3 : served[s] <= Hand[s]
  BY ZenonT(60) DEF FeedInv, PipeInv
<1>8. \A s \in Sources3 : served[s] <= served'[s] /\ served'[s] <= Hand[s]
  BY <1>1, <1>5, <1>6, <1>7, SMTT(60)
<1>9. \A q \in Providers : q # p => SourcesOf(q) \cap SourcesOf(p) = {}
  BY <1>4, SourceNames3, SMTT(60) DEF SourcesOf, Providers, p
<1>10. ASSUME NEW i \in DOMAIN channel'
       PROVE  Fresh(channel'[i], Past, served', Hand)
  <2> DEFINE v == channel[i + 1]
  <2>1. /\ v \in Update /\ Fresh(v, Past, served, Hand) /\ InOrder(u, v)
    BY <1>1, <1>2, SMTT(60) DEF FeedInv, PipeInv
  <2>2. channel'[i] = v
    BY <1>2, ZenonT(60)
  <2> HIDE DEF v
  <2>3. v.provider \in Providers /\ DOMAIN v.at = SourcesOf(v.provider)
    BY <2>1, ZenonT(60) DEF Update, Fresh
  <2>4. ASSUME NEW s \in SourcesOf(v.provider) PROVE served'[s] <= v.at[s]
    <3>1. s \in Sources3 /\ served[s] <= v.at[s]
      BY <2>1, <2>3, SourceNames3, ZenonT(60) DEF Fresh
    <3>2. CASE s \in SourcesOf(p)
      <4>1. v.provider = p
        BY <1>9, <2>3, <3>2, ZenonT(60)
      <4> QED
        BY <1>6, <2>1, <3>1, <3>2, <4>1, ZenonT(60) DEF InOrder, p
    <3>3. CASE s \notin SourcesOf(p)
      BY <1>6, <3>1, <3>3, ZenonT(60)
    <3> QED
      BY <3>2, <3>3, ZenonT(60)
  <2> QED
    BY <2>1, <2>2, <2>4, ZenonT(60) DEF Fresh
<1>11. \A i, j \in DOMAIN channel' : i < j => InOrder(channel'[i], channel'[j])
  BY <1>2 DEF FeedInv, PipeInv
<1>12. ASSUME NEW q \in Providers
       PROVE  Snapshot(providerRoutes'[q]) = Carried(Past, q, served')
  <2>1. CASE q = p
    <3>1. providerRoutes'[q] = u.routes /\ u.routes # NoSnapshot
      BY <1>1, <1>3, <1>4, <2>1, ManagerConstants, ZenonT(60)
    <3>2. Carried(Past, p, u.at) = Carried(Past, p, served')
      BY <1>4, <1>5, <1>6, CarriedBy, ZenonT(60)
    <3> QED
      BY <1>5, <2>1, <3>1, <3>2, ZenonT(60) DEF Snapshot
  <2>2. CASE q # p
    <3>1. providerRoutes'[q] = providerRoutes[q]
      BY <1>1, <1>3, <2>2, ZenonT(60)
    <3>2. \A s \in SourcesOf(q) : served'[s] = served[s]
      <4>1. SourcesOf(q) \subseteq Sources3
        BY SourceNames3, ZenonT(60)
      <4> QED
        BY <1>6, <1>9, <2>2, <4>1, ZenonT(60)
    <3>3. Carried(Past, q, served') = Carried(Past, q, served)
      BY <3>2, CarriedBy, ZenonT(60)
    <3> QED
      BY <3>1, <3>3, ZenonT(60) DEF FeedInv, PipeInv, Snapshot
  <2> QED
    BY <2>1, <2>2, ZenonT(60)
<1> QED
  BY <1>3, <1>8, <1>10, <1>11, <1>12, ZenonT(60) DEF PipeInv, Recompute, Snapshot
=============================================================================
