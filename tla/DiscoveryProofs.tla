-------------------------- MODULE DiscoveryProofs --------------------------
(***************************************************************************)
(* Facts about the route table, for every list of routes: sorting loses,   *)
(* invents and duplicates no route, the table is sorted, and the route     *)
(* select returns is a most specific match.  Then discovery's types, for   *)
(* every set of containers, objects and routes, every channel capacity and *)
(* any number of changes and faults.                                       *)
(***************************************************************************)
EXTENDS Discovery, RouteList, FiniteSetTheorems, TLAPS

\* R is a strict total order on S.
StrictOrder(S, R) ==
  /\ \A x \in S : << x, x >> \notin R
  /\ \A x, y, z \in S : << x, y >> \in R /\ << y, z >> \in R => << x, z >> \in R
  /\ \A x, y \in S : x # y => << x, y >> \in R \/ << y, x >> \in R

\* The elements before x, and how many they are.
Below(S, R, x) == {y \in S : << y, x >> \in R}
Rank(S, R, x) == Cardinality(Below(S, R, x))

\* An element has fewer elements before it than any element it precedes.
LEMMA RankMonotone ==
  ASSUME NEW S, IsFiniteSet(S), NEW R, StrictOrder(S, R),
         NEW x \in S, NEW y \in S, << x, y >> \in R
  PROVE  Rank(S, R, x) \in Nat /\ Rank(S, R, y) \in Nat /\ Rank(S, R, x) < Rank(S, R, y)
<1>1. Below(S, R, x) \subseteq Below(S, R, y)
  BY ZenonT(60) DEF Below, StrictOrder
<1>2. x \in Below(S, R, y) /\ x \notin Below(S, R, x)
  BY ZenonT(60) DEF Below, StrictOrder
<1>3. IsFiniteSet(Below(S, R, y))
  BY FS_Subset, ZenonT(60) DEF Below
<1>4. Below(S, R, x) \in SUBSET Below(S, R, y)
  BY <1>1, ZenonT(60)
<1>5. /\ IsFiniteSet(Below(S, R, x))
      /\ Cardinality(Below(S, R, x)) <= Cardinality(Below(S, R, y))
      /\ Cardinality(Below(S, R, y)) = Cardinality(Below(S, R, x))
           => Below(S, R, y) = Below(S, R, x)
  BY <1>3, <1>4, FS_Subset, ZenonT(60)
<1>6. Cardinality(Below(S, R, x)) \in Nat /\ Cardinality(Below(S, R, y)) \in Nat
  BY <1>3, <1>5, FS_CardinalityType, ZenonT(60)
<1>7. Cardinality(Below(S, R, x)) # Cardinality(Below(S, R, y))
  BY <1>2, <1>5, ZenonT(60)
<1> QED
  BY <1>5, <1>6, <1>7 DEF Rank

\* Ordered is a bijection between 1..Cardinality(S) and S, and lists S in
\* the order R.
LEMMA OrderedIsSorted ==
  ASSUME NEW S, IsFiniteSet(S), NEW R, StrictOrder(S, R)
  PROVE  LET order == Ordered(S, R) IN
         /\ order \in [1..Cardinality(S) -> S]
         /\ \A x \in S : \E n \in 1..Cardinality(S) : order[n] = x
         /\ \A m, n \in 1..Cardinality(S) : m < n <=> << order[m], order[n] >> \in R
<1> DEFINE N == Cardinality(S)
           order == Ordered(S, R)
           rank == [x \in S |-> Rank(S, R, x) + 1]
<1>1. N \in Nat
  BY FS_CardinalityType, ZenonT(60)
<1>2. ASSUME NEW x \in S
      PROVE  Rank(S, R, x) \in 0..(N - 1)
  <2>1. Below(S, R, x) \in SUBSET S /\ x \notin Below(S, R, x)
    BY ZenonT(60) DEF Below, StrictOrder
  <2>2. /\ IsFiniteSet(Below(S, R, x))
        /\ Rank(S, R, x) <= N
        /\ N = Rank(S, R, x) => S = Below(S, R, x)
    BY <2>1, FS_Subset, ZenonT(60) DEF Rank
  <2>3. Rank(S, R, x) \in Nat
    BY <2>2, FS_CardinalityType, ZenonT(60) DEF Rank
  <2> QED
    BY <2>1, <2>2, <2>3, <1>1
<1>3. \A x, y \in S : << x, y >> \in R => Rank(S, R, x) < Rank(S, R, y)
  BY RankMonotone, ZenonT(60)
<1>4. rank \in [S -> 1..N]
  BY <1>1, <1>2
<1>5. \A x, y \in S : rank[x] = rank[y] => x = y
  <2> SUFFICES ASSUME NEW x \in S, NEW y \in S, x # y
               PROVE  rank[x] # rank[y]
    BY ZenonT(60)
  <2>1. << x, y >> \in R \/ << y, x >> \in R
    BY ZenonT(60) DEF StrictOrder
  <2> QED
    BY <2>1, <1>2, <1>3
<1>6. rank \in Injection(S, 1..N)
  BY <1>4, <1>5, ZenonT(60) DEF Injection, IsInjective
<1>7. IsFiniteSet(1..N) /\ Cardinality(1..N) = N
  BY <1>1, FS_Interval
<1>8. rank \in Surjection(S, 1..N)
  BY <1>6, <1>7, FS_Injection, ZenonT(60)
<1>9. \A n \in 1..N : \E x \in S : Rank(S, R, x) = n - 1
  <2> SUFFICES ASSUME NEW n \in 1..N
               PROVE  \E x \in S : Rank(S, R, x) = n - 1
    BY ZenonT(60)
  <2>1. PICK x \in S : rank[x] = n
    BY <1>8, ZenonT(60) DEF Surjection
  <2> QED
    BY <2>1, <1>1, <1>2
<1>10. \A n \in 1..N : order[n] \in S /\ Rank(S, R, order[n]) = n - 1
  <2> SUFFICES ASSUME NEW n \in 1..N
               PROVE  order[n] \in S /\ Rank(S, R, order[n]) = n - 1
    BY ZenonT(60)
  <2>1. order[n] = CHOOSE x \in S : Rank(S, R, x) = n - 1
    BY ZenonT(60) DEF Ordered, Rank, Below
  <2> QED
    BY <2>1, <1>9, ZenonT(60)
<1>11. order \in [1..N -> S]
  BY <1>10, ZenonT(60) DEF Ordered
<1>12. \A x \in S : order[rank[x]] = x
  <2> SUFFICES ASSUME NEW x \in S
               PROVE  order[rank[x]] = x
    BY ZenonT(60)
  <2>1. rank[x] \in 1..N /\ rank[x] = Rank(S, R, x) + 1
    BY <1>4, ZenonT(60)
  <2>2. order[rank[x]] \in S /\ Rank(S, R, order[rank[x]]) = rank[x] - 1
    BY <2>1, <1>10, ZenonT(60)
  <2>3. rank[order[rank[x]]] = rank[x]
    BY <2>1, <2>2, <1>2
  <2> QED
    BY <2>2, <2>3, <1>5, ZenonT(60)
<1>13. ASSUME NEW m \in 1..N, NEW n \in 1..N
       PROVE  m < n <=> << order[m], order[n] >> \in R
  <2> DEFINE x == order[m]
             y == order[n]
  <2>1. x \in S /\ y \in S /\ Rank(S, R, x) = m - 1 /\ Rank(S, R, y) = n - 1
    BY <1>10, ZenonT(60)
  <2>2. << x, y >> \in R => m < n
    BY <2>1, <1>1, <1>3
  <2>3. << y, x >> \in R => n < m
    BY <2>1, <1>1, <1>3
  <2>4. m < n => x # y
    BY <2>1, <1>1
  <2> HIDE DEF x, y
  <2>5. m < n => << x, y >> \in R
    BY <2>1, <2>3, <2>4, <1>1 DEF StrictOrder
  <2> QED
    BY <2>2, <2>5, ZenonT(60) DEF x, y
<1>14. \A x \in S : \E n \in 1..N : order[n] = x
  BY <1>4, <1>12, ZenonT(60)
<1> QED
  BY <1>11, <1>13, <1>14, ZenonT(60)

\* A finite set of numbers that is not empty has a least element.
LEMMA LeastElement ==
  ASSUME NEW S \in SUBSET Nat, IsFiniteSet(S), S # {}
  PROVE  \E k \in S : \A n \in S : k <= n
<1> DEFINE R == {p \in S \X S : p[1] < p[2]}
           order == Ordered(S, R)
<1>1. StrictOrder(S, R)
  BY DEF StrictOrder
<1>2. Cardinality(S) \in Nat /\ Cardinality(S) # 0
  BY FS_CardinalityType, FS_EmptySet, ZenonT(60)
<1> HIDE DEF R
<1>3. /\ order \in [1..Cardinality(S) -> S]
      /\ \A x \in S : \E n \in 1..Cardinality(S) : order[n] = x
      /\ \A m, n \in 1..Cardinality(S) : m < n <=> << order[m], order[n] >> \in R
  BY <1>1, OrderedIsSorted, ZenonT(60)
<1> HIDE DEF order
<1>5. order[1] \in S
  BY <1>2, <1>3
<1>4. ASSUME NEW n \in S
      PROVE  order[1] <= n
  <2>1. PICK k \in 1..Cardinality(S) : order[k] = n
    BY <1>3, ZenonT(60)
  <2>2. k = 1 \/ << order[1], order[k] >> \in R
    BY <1>2, <1>3
  <2>3. << order[1], order[k] >> \in R => order[1] < order[k]
    BY ZenonT(60) DEF R
  <2>4. order[1] \in Nat /\ n \in Nat
    BY <1>5, ZenonT(60)
  <2> QED
    BY <2>1, <2>2, <2>3, <2>4, SMTT(60)
<1> QED
  BY <1>5, <1>4, ZenonT(60)

-----------------------------------------------------------------------------
\* A set of routes: their prefixes are strings.
RouteSet(T) == \A r \in T : r.path_prefix \in Seq(STRING)

Preceding(routes) ==
  LET places == DOMAIN routes
  IN  {p \in places \X places : Before(routes, p[1], p[2])}

\* Before is a strict total order of a list's places.
LEMMA BeforeIsStrictOrder ==
  ASSUME NEW T, RouteSet(T), NEW routes \in Seq(T)
  PROVE  StrictOrder(DOMAIN routes, Preceding(routes))
<1> DEFINE a(i) == Specificity(routes[i])[1]
           b(i) == Specificity(routes[i])[2]
           c(i) == Specificity(routes[i])[3]
<1>1. DOMAIN routes \subseteq Nat
  OBVIOUS
<1>2. ASSUME NEW i \in DOMAIN routes
      PROVE  a(i) \in Nat /\ b(i) \in Nat /\ c(i) \in Nat
  <2>1. routes[i].path_prefix \in Seq(STRING)
    BY DEF RouteSet
  <2>2. Len(routes[i].path_prefix) \in Nat
    BY <2>1
  <2> QED
    BY <2>2, ZenonT(60) DEF Specificity, RouteRank
<1>3. ASSUME NEW i \in DOMAIN routes, NEW j \in DOMAIN routes
      PROVE  << i, j >> \in Preceding(routes) <=>
               \/ a(i) > a(j)
               \/ a(i) = a(j) /\ b(i) > b(j)
               \/ a(i) = a(j) /\ b(i) = b(j) /\ c(i) > c(j)
               \/ a(i) = a(j) /\ b(i) = b(j) /\ c(i) = c(j) /\ i < j
  <2>1. << i, j >> \in Preceding(routes) <=> Before(routes, i, j)
    BY ZenonT(60) DEF Preceding
  <2> HIDE DEF a, b, c
  <2>2. Before(routes, i, j) <=>
          \/ a(i) > a(j)
          \/ a(i) = a(j) /\ b(i) > b(j)
          \/ a(i) = a(j) /\ b(i) = b(j) /\ c(i) > c(j)
          \/ /\ ~\/ a(j) > a(i)
                 \/ a(j) = a(i) /\ b(j) > b(i)
                 \/ a(j) = a(i) /\ b(j) = b(i) /\ c(j) > c(i)
             /\ i < j
    BY ZenonT(60) DEF Before, MoreSpecific, a, b, c
  <2> QED
    BY <2>1, <2>2, <1>2, SMTT(60)
<1> HIDE DEF a, b, c
<1>4. \A i \in DOMAIN routes : << i, i >> \notin Preceding(routes)
  BY <1>1, <1>2, <1>3, SMTT(60)
<1>5. ASSUME NEW i \in DOMAIN routes, NEW j \in DOMAIN routes, NEW k \in DOMAIN routes,
             << i, j >> \in Preceding(routes), << j, k >> \in Preceding(routes)
      PROVE  << i, k >> \in Preceding(routes)
  <2>1. i \in Nat /\ j \in Nat /\ k \in Nat
    BY <1>1, ZenonT(60)
  <2>2. /\ a(i) \in Nat /\ b(i) \in Nat /\ c(i) \in Nat
        /\ a(j) \in Nat /\ b(j) \in Nat /\ c(j) \in Nat
        /\ a(k) \in Nat /\ b(k) \in Nat /\ c(k) \in Nat
    BY <1>2, ZenonT(60)
  <2>3. /\ \/ a(i) > a(j)
           \/ a(i) = a(j) /\ b(i) > b(j)
           \/ a(i) = a(j) /\ b(i) = b(j) /\ c(i) > c(j)
           \/ a(i) = a(j) /\ b(i) = b(j) /\ c(i) = c(j) /\ i < j
        /\ \/ a(j) > a(k)
           \/ a(j) = a(k) /\ b(j) > b(k)
           \/ a(j) = a(k) /\ b(j) = b(k) /\ c(j) > c(k)
           \/ a(j) = a(k) /\ b(j) = b(k) /\ c(j) = c(k) /\ j < k
    BY <1>3, <1>5, ZenonT(60)
  <2>4. \/ a(i) > a(k)
        \/ a(i) = a(k) /\ b(i) > b(k)
        \/ a(i) = a(k) /\ b(i) = b(k) /\ c(i) > c(k)
        \/ a(i) = a(k) /\ b(i) = b(k) /\ c(i) = c(k) /\ i < k
    BY <2>1, <2>2, <2>3, SMTT(60)
  <2> QED
    BY <2>4, <1>3, ZenonT(60)
<1>6. ASSUME NEW i \in DOMAIN routes, NEW j \in DOMAIN routes, i # j
      PROVE  << i, j >> \in Preceding(routes) \/ << j, i >> \in Preceding(routes)
  BY <1>1, <1>2, <1>3, <1>6, SMTT(60)
<1> QED
  BY <1>4, <1>5, <1>6, ZenonT(60) DEF StrictOrder

\* The table's places hold the routes at the list's places that order gives.
Rearranges(order, routes) ==
  /\ order \in [DOMAIN routes -> DOMAIN routes]
  /\ \A i \in DOMAIN routes : \E k \in DOMAIN routes : order[k] = i
  /\ \A m, n \in DOMAIN routes : m < n <=> Before(routes, order[m], order[n])
  /\ RouteTable(routes) = [k \in DOMAIN routes |-> routes[order[k]]]

\* RouteTable::new rearranges the list's places, each exactly once, so that
\* earlier in the table is Before in the list.
LEMMA RouteTablePlaces ==
  ASSUME NEW T, RouteSet(T), NEW routes \in Seq(T)
  PROVE  \E order : Rearranges(order, routes)
<1> DEFINE S == DOMAIN routes
           order == Ordered(S, Preceding(routes))
<1>1. S = 1..Len(routes) /\ Len(routes) \in Nat
  OBVIOUS
<1>2. IsFiniteSet(S) /\ Cardinality(S) = Len(routes)
  <2>1. \A n \in Nat : IsFiniteSet(1..n) /\ Cardinality(1..n) = n
    BY FS_Interval
  <2> QED
    BY <2>1, <1>1, ZenonT(60)
<1>3. StrictOrder(S, Preceding(routes))
  BY BeforeIsStrictOrder, ZenonT(60)
<1> HIDE DEF S
<1>4. /\ order \in [S -> S]
      /\ \A i \in S : \E k \in S : order[k] = i
      /\ \A m, n \in S : m < n <=> << order[m], order[n] >> \in Preceding(routes)
  <2>1. S = 1..Cardinality(S)
    BY <1>1, <1>2, ZenonT(60)
  <2>2. /\ order \in [1..Cardinality(S) -> S]
        /\ \A x \in S : \E n \in 1..Cardinality(S) : order[n] = x
        /\ \A m, n \in 1..Cardinality(S) :
             m < n <=> << order[m], order[n] >> \in Preceding(routes)
    BY <1>2, <1>3, OrderedIsSorted, ZenonT(60)
  <2> QED
    BY <2>1, <2>2, ZenonT(60)
<1>5. \A i, j \in S : << i, j >> \in Preceding(routes) <=> Before(routes, i, j)
  BY ZenonT(60) DEF Preceding, S
<1>6. RouteTable(routes) = [k \in S |-> routes[order[k]]]
  BY ZenonT(60) DEF RouteTable, Preceding, S
<1> HIDE DEF order
<1>7. \A m, n \in S : m < n <=> Before(routes, order[m], order[n])
  BY <1>4, <1>5, ZenonT(60)
<1> QED
  BY <1>4, <1>6, <1>7, ZenonT(60) DEF S, Rearranges

\* RouteTable::new is a stable sort: the table has every place of the list
\* exactly once, and of two places the earlier in the table is the one with
\* the more specific route or, between equals, the one listed first.
THEOREM TableHasTheRoutes ==
  ASSUME NEW T, RouteSet(T), NEW routes \in Seq(T)
  PROVE  /\ RouteTable(routes) \in Seq(T)
         /\ Len(RouteTable(routes)) = Len(routes)
         /\ \E order \in [DOMAIN routes -> DOMAIN routes] :
              /\ \A i \in DOMAIN routes : \E k \in DOMAIN routes : order[k] = i
              /\ \A k, m \in DOMAIN routes : order[k] = order[m] => k = m
              /\ \A k, m \in DOMAIN routes : k < m <=> Before(routes, order[k], order[m])
              /\ RouteTable(routes) = [k \in DOMAIN routes |-> routes[order[k]]]
<1>1. PICK order : Rearranges(order, routes)
  BY RouteTablePlaces, ZenonT(60)
<1>2. DOMAIN routes = 1..Len(routes) /\ Len(routes) \in Nat
  OBVIOUS
<1>3. RouteTable(routes) \in [1..Len(routes) -> T]
  BY <1>1, <1>2 DEF Rearranges
<1>4. RouteTable(routes) \in Seq(T) /\ Len(RouteTable(routes)) = Len(routes)
  BY <1>2, <1>3
<1>5. ASSUME NEW k \in DOMAIN routes, NEW m \in DOMAIN routes, order[k] = order[m]
      PROVE  k = m
  <2>1. k < m <=> Before(routes, order[k], order[m])
    BY <1>1, ZenonT(60) DEF Rearranges
  <2>2. m < m <=> Before(routes, order[k], order[m])
    BY <1>1, <1>5, ZenonT(60) DEF Rearranges
  <2>3. m < k <=> Before(routes, order[k], order[m])
    BY <1>1, <1>5, ZenonT(60) DEF Rearranges
  <2>4. ~(m < m)
    BY <1>2
  <2>5. ~(k < m) /\ ~(m < k)
    BY <2>1, <2>2, <2>3, <2>4, ZenonT(60)
  <2> QED
    BY <1>2, <2>5
<1>6. order \in [DOMAIN routes -> DOMAIN routes]
  BY <1>1, ZenonT(60) DEF Rearranges
<1> QED
  BY <1>1, <1>4, <1>5, <1>6, ZenonT(60) DEF Rearranges

\* RouteTable::select over the sorted table is the best match over the list
\* as it came: None exactly when nothing matches, otherwise a matching route
\* that precedes (more specific, or as specific and listed earlier) every
\* other matching route.
THEOREM SelectIsBest ==
  ASSUME NEW T, RouteSet(T), NEW routes \in Seq(T),
         NEW host, NEW path
  PROVE  LET hits == {i \in DOMAIN routes : Matches(routes[i], host, path)}
             chosen == Select(RouteTable(routes), host, path)
         IN  IF hits = {} THEN chosen = NoRoute
             ELSE \E i \in hits : /\ chosen = routes[i]
                                  /\ \A j \in hits \ {i} : Before(routes, i, j)
<1> DEFINE hits == {i \in DOMAIN routes : Matches(routes[i], host, path)}
           sorted == RouteTable(routes)
           found == {k \in DOMAIN sorted : Matches(sorted[k], host, path)}
           chosen == Select(sorted, host, path)
<1>1. PICK order : Rearranges(order, routes)
  BY RouteTablePlaces, ZenonT(60)
<1>2. DOMAIN sorted = DOMAIN routes /\ DOMAIN routes \subseteq Nat
  BY <1>1, SMTT(60) DEF Rearranges
<1>3. \A k \in DOMAIN routes : k \in found <=> order[k] \in hits
  BY <1>1, <1>2, ZenonT(60) DEF Rearranges
<1>4. chosen = IF found = {} THEN NoRoute
               ELSE sorted[CHOOSE k \in found : \A n \in found : k <= n]
  BY ZenonT(60) DEF Select
<1>5. CASE hits = {}
  <2>1. found = {}
    BY <1>2, <1>3, <1>5, ZenonT(60)
  <2> QED
    BY <2>1, <1>4, <1>5, ZenonT(60)
<1>6. CASE hits # {}
  <2>1. PICK i \in hits : TRUE
    BY <1>6, ZenonT(60)
  <2>2. found # {}
    BY <2>1, <1>1, <1>3, ZenonT(60) DEF Rearranges
  <2>3. found \in SUBSET Nat /\ IsFiniteSet(found)
    <3>1. Len(routes) \in Nat /\ DOMAIN routes = 1..Len(routes)
      OBVIOUS
    <3>2. IsFiniteSet(DOMAIN routes)
      BY <3>1, FS_Interval
    <3>3. found \in SUBSET DOMAIN routes
      BY <1>2, ZenonT(60)
    <3> HIDE DEF found
    <3> QED
      BY <3>2, <3>3, <1>2, FS_Subset, ZenonT(60)
  <2> HIDE DEF found, hits, sorted, chosen
  <2>4. \E k \in found : \A n \in found : k <= n
    BY <2>2, <2>3, LeastElement, ZenonT(60)
  <2>5. PICK k \in found : /\ \A n \in found : k <= n
                           /\ chosen = sorted[k]
    BY <2>2, <2>4, <1>4, ZenonT(60)
  <2>6. k \in DOMAIN routes /\ order[k] \in hits /\ chosen = routes[order[k]]
    BY <2>5, <1>1, <1>2, <1>3, ZenonT(60) DEF found, sorted, Rearranges
  <2>7. ASSUME NEW j \in hits \ {order[k]}
        PROVE  Before(routes, order[k], j)
    <3>1. PICK n \in DOMAIN routes : order[n] = j
      BY <1>1, ZenonT(60) DEF hits, Rearranges
    <3>2. n \in found /\ n # k
      BY <3>1, <2>7, <1>3, ZenonT(60)
    <3>3. k < n
      BY <3>2, <2>3, <2>5
    <3> QED
      BY <3>1, <3>3, <2>6, <1>1, ZenonT(60) DEF Rearranges
  <2> QED
    BY <2>6, <2>7, <1>6, ZenonT(60) DEF hits, chosen, sorted
<1> QED
  BY <1>5, <1>6, ZenonT(60)

\* Source::route_rank's promise, file < discovered: whatever else the table has,
\* a file route is never selected while the table has a discovered route with
\* the same host and the same prefix.
THEOREM DiscoveredOutranksFile ==
  ASSUME NEW T, RouteSet(T), NEW routes \in Seq(T), NEW host, NEW path,
         Select(RouteTable(routes), host, path) # NoRoute,
         Select(RouteTable(routes), host, path).source = "file",
         NEW d \in DOMAIN routes, routes[d].source = "discovered"
  PROVE  \/ routes[d].host # Select(RouteTable(routes), host, path).host
         \/ routes[d].path_prefix # Select(RouteTable(routes), host, path).path_prefix
<1> DEFINE hits == {i \in DOMAIN routes : Matches(routes[i], host, path)}
           chosen == Select(RouteTable(routes), host, path)
<1> SUFFICES ASSUME routes[d].host = chosen.host, routes[d].path_prefix = chosen.path_prefix
             PROVE  FALSE
  BY ZenonT(60)
<1>0. chosen # NoRoute /\ chosen.source = "file"
  BY ZenonT(60)
<1>1. IF hits = {} THEN chosen = NoRoute
      ELSE \E i \in hits : chosen = routes[i] /\ \A j \in hits \ {i} : Before(routes, i, j)
  BY SelectIsBest, ZenonT(60)
<1> HIDE DEF chosen
<1>2. PICK i \in hits : chosen = routes[i] /\ \A j \in hits \ {i} : Before(routes, i, j)
  BY <1>0, <1>1, ZenonT(60)
<1>3. Matches(routes[i], host, path)
  BY ZenonT(60)
<1>4. d \in hits \ {i}
  <2>1. Matches(routes[d], host, path)
    BY <1>2, <1>3, ZenonT(60) DEF Matches
  <2>2. d # i
    BY <1>0, <1>2, ZenonT(60)
  <2> QED
    BY <2>1, <2>2, ZenonT(60)
<1>5. Before(routes, i, d)
  BY <1>2, <1>4, ZenonT(60)
<1>6. /\ routes[i].host = routes[d].host /\ routes[i].path_prefix = routes[d].path_prefix
      /\ routes[i].source = "file"
  BY <1>0, <1>2, ZenonT(60)
<1>7. /\ Specificity(routes[i])[1] = Specificity(routes[d])[1]
      /\ Specificity(routes[i])[1] \in {0, 1}
      /\ Specificity(routes[i])[2] = Specificity(routes[d])[2]
      /\ Specificity(routes[i])[2] = Len(routes[i].path_prefix)
      /\ Specificity(routes[i])[3] = 0 /\ Specificity(routes[d])[3] = 1
  BY <1>6, ZenonT(60) DEF Specificity, RouteRank
<1>8. Len(routes[i].path_prefix) \in Nat
  BY DEF RouteSet
<1> QED
  BY <1>5, <1>7, <1>8 DEF Before, MoreSpecific

\* The lists of RouteList are lists of routes.
LEMMA ListType == ListSpec => [](listed \in Seq(Listable))
<1>1. ListInit => listed \in Seq(Listable)
  BY DEF ListInit
<1>2. listed \in Seq(Listable) /\ [AddRoute]_listed => (listed \in Seq(Listable))'
  BY DEF AddRoute
<1> QED
  BY <1>1, <1>2, PTL DEF ListSpec

LEMMA ListableRoutes == RouteSet(Listable)
BY RouteListConstants, ZenonT(60) DEF RouteSet

\* RouteTable::new and select together are the reference choice over the list
\* as it came, for lists of any length and any requests.
THEOREM SelectionIsTheReference == ListSpec => []SelectIsMostSpecific
<1>1. listed \in Seq(Listable) => SelectIsMostSpecific
  <2> SUFFICES ASSUME listed \in Seq(Listable), NEW host \in RequestHosts, NEW path \in RequestPaths
               PROVE  LET hits == {i \in DOMAIN listed : Matches(listed[i], host, path)}
                          best == {i \in hits : \A j \in hits :
                                     /\ ~MoreSpecific(listed[j], listed[i])
                                     /\ i <= j \/ MoreSpecific(listed[i], listed[j])}
                      IN  IF hits = {} THEN Select(RouteTable(listed), host, path) = NoRoute
                          ELSE \E i \in best : Select(RouteTable(listed), host, path) = listed[i]
    BY ZenonT(60) DEF SelectIsMostSpecific
  <2> DEFINE hits == {i \in DOMAIN listed : Matches(listed[i], host, path)}
             chosen == Select(RouteTable(listed), host, path)
             best == {i \in hits : \A j \in hits :
                        /\ ~MoreSpecific(listed[j], listed[i])
                        /\ i <= j \/ MoreSpecific(listed[i], listed[j])}
  <2>1. IF hits = {} THEN chosen = NoRoute
        ELSE \E i \in hits : chosen = listed[i] /\ \A j \in hits \ {i} : Before(listed, i, j)
    BY ListableRoutes, SelectIsBest, ZenonT(60)
  <2>2. hits \subseteq DOMAIN listed /\ DOMAIN listed \subseteq Nat
    OBVIOUS
  <2> HIDE DEF chosen, hits
  <2>3. \A i, j \in DOMAIN listed :
          /\ MoreSpecific(listed[i], listed[j]) => ~MoreSpecific(listed[j], listed[i])
          /\ ~MoreSpecific(listed[i], listed[i])
    <3>1. ASSUME NEW i \in DOMAIN listed
          PROVE  LET s == Specificity(listed[i]) IN s[1] \in Nat /\ s[2] \in Nat /\ s[3] \in Nat
      <4>1. listed[i].path_prefix \in Seq(STRING)
        BY ListableRoutes DEF RouteSet
      <4>2. Len(listed[i].path_prefix) \in Nat
        BY <4>1
      <4> QED
        BY <4>2, ZenonT(60) DEF Specificity, RouteRank
    <3>2. ASSUME NEW i \in DOMAIN listed, NEW j \in DOMAIN listed
          PROVE  MoreSpecific(listed[i], listed[j]) => ~MoreSpecific(listed[j], listed[i])
      <4> DEFINE s == Specificity(listed[i])
                 t == Specificity(listed[j])
      <4>1. s[1] \in Nat /\ s[2] \in Nat /\ s[3] \in Nat /\ t[1] \in Nat /\ t[2] \in Nat /\ t[3] \in Nat
        BY <3>1, ZenonT(60)
      <4>2. /\ MoreSpecific(listed[i], listed[j]) <=> (s[1] > t[1] \/ (s[1] = t[1] /\ s[2] > t[2])
                                                      \/ (s[1] = t[1] /\ s[2] = t[2] /\ s[3] > t[3]))
            /\ MoreSpecific(listed[j], listed[i]) <=> (t[1] > s[1] \/ (t[1] = s[1] /\ t[2] > s[2])
                                                      \/ (t[1] = s[1] /\ t[2] = s[2] /\ t[3] > s[3]))
        BY ZenonT(60) DEF MoreSpecific
      <4> HIDE DEF s, t
      <4> QED
        BY <4>1, <4>2, SMTT(60)
    <3> QED
      BY <3>2, ZenonT(60)
  <2>4. ASSUME NEW i \in hits, \A j \in hits \ {i} : Before(listed, i, j) PROVE i \in best
    <3> SUFFICES ASSUME NEW j \in hits
                 PROVE  /\ ~MoreSpecific(listed[j], listed[i])
                        /\ i <= j \/ MoreSpecific(listed[i], listed[j])
      BY ZenonT(60)
    <3>1. CASE i = j
      BY <2>2, <2>3, <3>1
    <3>2. CASE i # j
      BY <2>2, <2>3, <2>4, <3>2 DEF Before
    <3> QED
      BY <3>1, <3>2, ZenonT(60)
  <2> HIDE DEF best
  <2>5. IF hits = {} THEN chosen = NoRoute ELSE \E i \in best : chosen = listed[i]
    BY <2>1, <2>4, ZenonT(60)
  <2> QED
    BY <2>5, ZenonT(60) DEF hits, best, chosen
<1> QED
  BY <1>1, ListType, PTL

\* file < discovered, for lists of any length and any requests.
THEOREM DiscoveredWinsTies == ListSpec => []DiscoveredWinsTie
<1>1. listed \in Seq(Listable) => DiscoveredWinsTie
  BY ListableRoutes, DiscoveredOutranksFile, ZenonT(60) DEF DiscoveredWinsTie
<1> QED
  BY <1>1, ListType, PTL

-----------------------------------------------------------------------------
\* Sequences of one set, joined.
LEMMA Joined ==
  ASSUME NEW T, NEW s \in Seq(T), NEW t \in Seq(T), NEW u \in Seq(T)
  PROVE  /\ s \o t \in Seq(T)
         /\ s \o <<>> = s
         /\ (s \o t) \o u = s \o (t \o u)
  OBVIOUS

LEMMA SameSeq ==
  ASSUME NEW T, NEW s \in Seq(T), NEW t \in Seq(T),
         Len(s) = Len(t), \A i \in 1..Len(s) : s[i] = t[i]
  PROVE  s = t
  OBVIOUS

\* The image of a finite set is finite.
LEMMA FiniteImage ==
  ASSUME NEW S, IsFiniteSet(S), NEW f
  PROVE  IsFiniteSet({f[x] : x \in S})
<1> DEFINE T == {f[x] : x \in S}
           g == [x \in S |-> f[x]]
<1>1. g \in Surjection(S, T)
  BY ZenonT(60) DEF Surjection
<1> QED
  BY <1>1, FS_Surjection, ZenonT(60)

\* A table made of sorted elements of S, each mapped into Routes.
LEMMA OrderedSeq ==
  ASSUME NEW S, IsFiniteSet(S), NEW R, StrictOrder(S, R), NEW T, NEW f \in [S -> T]
  PROVE  [n \in DOMAIN Ordered(S, R) |-> f[Ordered(S, R)[n]]] \in Seq(T)
<1>1. Ordered(S, R) \in [1..Cardinality(S) -> S]
  BY OrderedIsSorted, ZenonT(60)
<1>2. Cardinality(S) \in Nat
  BY FS_CardinalityType, ZenonT(60)
<1>3. [n \in DOMAIN Ordered(S, R) |-> f[Ordered(S, R)[n]]] \in [1..Cardinality(S) -> T]
  BY <1>1, ZenonT(60)
<1> QED
  BY <1>2, <1>3

\* poll_once returns routes, whatever containers are listed.
LEMMA RoutesOfListingType ==
  ASSUME NEW list \in Seq(Containers)
  PROVE  RoutesOfListing(list) \in Seq(Routes)
<1> DEFINE inOne(i) == {<< i, j >> : j \in DOMAIN ContainerRoutes[list[i]]}
           places == UNION {inOne(i) : i \in DOMAIN list}
           R == {p \in places \X places :
                   \/ p[1][1] < p[2][1]
                   \/ p[1][1] = p[2][1] /\ p[1][2] < p[2][2]}
           f == [p \in places |-> ContainerRoutes[list[p[1]]][p[2]]]
<1>1. \A i \in DOMAIN list : ContainerRoutes[list[i]] \in Seq(Routes)
  BY DockerConstants
<1>2. \A n \in Nat : IsFiniteSet(1..n)
  BY FS_Interval
<1>3. ASSUME NEW i \in DOMAIN list
      PROVE  IsFiniteSet(inOne(i))
  <2> DEFINE D == DOMAIN ContainerRoutes[list[i]]
             g == [j \in D |-> << i, j >>]
  <2>1. IsFiniteSet(D)
    BY <1>1, <1>2
  <2>2. inOne(i) = {g[j] : j \in D}
    BY ZenonT(60)
  <2> HIDE DEF D, g
  <2> QED
    BY <2>1, <2>2, FiniteImage, ZenonT(60)
<1>4. IsFiniteSet({inOne(i) : i \in DOMAIN list})
  <2> DEFINE g == [i \in DOMAIN list |-> inOne(i)]
  <2>1. {inOne(i) : i \in DOMAIN list} = {g[i] : i \in DOMAIN list}
    BY ZenonT(60)
  <2>2. IsFiniteSet(DOMAIN list)
    <3>1. DOMAIN list = 1..Len(list) /\ Len(list) \in Nat
      OBVIOUS
    <3> QED
      BY <3>1, <1>2, ZenonT(60)
  <2> HIDE DEF g, inOne
  <2> QED
    BY <2>1, <2>2, FiniteImage, ZenonT(60)
<1>5. IsFiniteSet(places)
  BY <1>3, <1>4, FS_UNION, ZenonT(60)
<1>6. \A p \in places : /\ p = << p[1], p[2] >> /\ p[1] \in DOMAIN list
                        /\ p[2] \in DOMAIN ContainerRoutes[list[p[1]]]
                        /\ p[1] \in Nat /\ p[2] \in Nat
  BY <1>1
<1>7. StrictOrder(places, R)
  <2> HIDE DEF places
  <2> QED
    BY <1>6, SMTT(60) DEF StrictOrder
<1>8. f \in [places -> Routes]
  <2> HIDE DEF places
  <2> QED
    BY <1>1, <1>6
<1>9. RoutesOfListing(list) = [n \in DOMAIN Ordered(places, R) |-> f[Ordered(places, R)[n]]]
  <2>1. Ordered(places, R) \in [1..Cardinality(places) -> places]
    BY <1>5, <1>7, OrderedIsSorted, ZenonT(60)
  <2>2. RoutesOfListing(list)
          = [n \in DOMAIN Ordered(places, R) |->
               ContainerRoutes[list[Ordered(places, R)[n][1]]][Ordered(places, R)[n][2]]]
    BY ZenonT(60) DEF RoutesOfListing
  <2> HIDE DEF places, R
  <2> QED
    BY <2>1, <2>2, ZenonT(60)
<1> HIDE DEF places, R, f
<1> QED
  BY <1>5, <1>7, <1>8, <1>9, OrderedSeq, SMTT(60)

\* KindStore::routes returns routes.
LEMMA StoreRoutesType ==
  ASSUME NEW store \in Store
  PROVE  StoreRoutes(store) \in Seq(Routes)
<1> DEFINE keys == {k \in Keys : store[k] # NoRoute}
           R == {p \in keys \X keys : p[1] < p[2]}
           f == [k \in keys |-> store[k]]
<1>1. IsFiniteSet(keys)
  BY KubernetesConstants, FS_Subset, ZenonT(60)
<1>2. StrictOrder(keys, R)
  BY KubernetesConstants DEF StrictOrder
<1>3. f \in [keys -> Routes]
  BY KubernetesConstants, ZenonT(60) DEF Store
<1>4. StoreRoutes(store) = [n \in DOMAIN Ordered(keys, R) |-> f[Ordered(keys, R)[n]]]
  <2>1. Ordered(keys, R) \in [1..Cardinality(keys) -> keys]
    BY <1>1, <1>2, OrderedIsSorted, ZenonT(60)
  <2>2. StoreRoutes(store) = [n \in DOMAIN Ordered(keys, R) |-> store[Ordered(keys, R)[n]]]
    BY ZenonT(60) DEF StoreRoutes
  <2> HIDE DEF keys, R
  <2> QED
    BY <2>1, <2>2, ZenonT(60)
<1> HIDE DEF keys, R, f
<1> QED
  BY <1>1, <1>2, <1>3, <1>4, OrderedSeq

\* The rebuilt table holds routes.
LEMMA RecomputeType ==
  ASSUME NEW pr \in [Providers -> MaybeSnapshot]
  PROVE  Recompute(pr) \in Seq(Routes)
<1>1. Snapshot(pr["docker"]) \in Seq(Routes) /\ Snapshot(pr["kubernetes"]) \in Seq(Routes)
  BY DEF Snapshot, MaybeSnapshot, Providers
<1>2. FileRoutes \o Snapshot(pr["docker"]) \o Snapshot(pr["kubernetes"]) \in Seq(Routes)
  BY <1>1, ManagerConstants
<1>3. RouteSet(Routes)
  BY ManagerConstants, ZenonT(60) DEF RouteSet
<1> QED
  BY <1>2, <1>3, TableHasTheRoutes, ZenonT(60) DEF Recompute

-----------------------------------------------------------------------------
\* A send keeps the channel typed and within its capacity.
LEMMA SendType ==
  ASSUME ManagerTypeOK, NEW p \in Providers, NEW routes \in Seq(Routes),
         NEW at \in [{"docker"} -> Nat] \cup [Kinds -> Nat], Send(p, routes, at)
  PROVE  ManagerTypeOK'
<1> DEFINE u == [provider |-> p, routes |-> routes, at |-> at]
<1>1. u \in Update
  BY ZenonT(60) DEF Update
<1>2. channel' = Append(channel, u) /\ channel \in Seq(Update) /\ Len(channel) < ChanCap
  BY ZenonT(60) DEF Send, ManagerTypeOK
<1> HIDE DEF u
<1>3. channel' \in Seq(Update) /\ Len(channel') <= ChanCap
  BY <1>1, <1>2, ManagerConstants
<1> QED
  BY <1>3, ZenonT(60) DEF Send, ManagerTypeOK

\* A turn of RouteManager::run keeps the manager's types.
LEMMA ManagerStepType ==
  ASSUME ManagerTypeOK, ManagerStep
  PROVE  ManagerTypeOK'
<1>1. CASE ManagerRecv
  <2> DEFINE u == Head(channel)
  <2>1. channel \in Seq(Update) /\ channel # <<>>
    BY <1>1, ZenonT(60) DEF ManagerRecv, ManagerTypeOK
  <2>2. u \in Update /\ channel' \in Seq(Update) /\ Len(channel') = Len(channel) - 1
    BY <1>1, <2>1 DEF ManagerRecv
  <2> HIDE DEF u
  <2>3. u.provider \in Providers /\ u.routes \in Seq(Routes)
        /\ u.at \in [{"docker"} -> Nat] \cup [Kinds -> Nat]
    BY <2>2, ZenonT(60) DEF Update
  <2>4. /\ providerRoutes' = [providerRoutes EXCEPT ![u.provider] = u.routes]
        /\ table' = Recompute(providerRoutes')
        /\ served' = [s \in Sources3 |-> IF s \in DOMAIN u.at THEN u.at[s] ELSE served[s]]
        /\ manager' = manager
    BY <1>1, ZenonT(60) DEF ManagerRecv, u
  <2>5. providerRoutes' \in [Providers -> MaybeSnapshot]
    BY <2>3, <2>4, ZenonT(60) DEF ManagerTypeOK, MaybeSnapshot
  <2>6. table' \in Seq(Routes)
    BY <2>4, <2>5, RecomputeType, ZenonT(60)
  <2>7. served' \in [Sources3 -> Nat]
    BY <2>3, <2>4, ZenonT(60) DEF ManagerTypeOK
  <2>8. Len(channel') <= ChanCap
    BY <2>1, <2>2, ManagerConstants DEF ManagerTypeOK
  <2> QED
    BY <2>2, <2>4, <2>5, <2>6, <2>7, <2>8, ZenonT(60) DEF ManagerTypeOK
<1>2. CASE ManagerStop(dockerPc = "off" /\ k8sPc = "off")
  BY <1>2, ZenonT(60) DEF ManagerStop, ManagerTypeOK
<1> QED
  BY <1>1, <1>2, ZenonT(60) DEF ManagerStep

\* A listing is never empty of listings: the current one is in the log.
LEMMA CurrentListing ==
  ASSUME DockerTypeOK
  PROVE  listings[Len(listings)] \in Seq(Containers)
<1>1. listings \in Seq(Seq(Containers)) /\ listings # <<>>
  BY ZenonT(60) DEF DockerTypeOK
<1>2. Len(listings) \in 1..Len(listings) 
  BY <1>1
<1> QED
  BY <1>1, <1>2

\* A change of the Docker daemon keeps its types.
LEMMA DaemonType ==
  ASSUME DockerTypeOK, DaemonChanges \/ DaemonFails
  PROVE  DockerTypeOK'
<1>1. CASE DaemonFails
  BY <1>1, ZenonT(60) DEF DaemonFails, SocketBecomes, DockerTypeOK, dockerVars
<1>2. CASE DaemonChanges
  <2> DEFINE list == listings[Len(listings)]
  <2>1. list \in Seq(Containers)
    BY CurrentListing, ZenonT(60)
  <2>2. listings \in Seq(Seq(Containers))
    BY ZenonT(60) DEF DockerTypeOK
  <2>3. PICK new \in Seq(Containers) : listings' = Append(listings, new)
    <3>1. PICK c \in Containers : ContainerStarts(c) \/ ContainerStops(c)
      BY <1>2, ZenonT(60) DEF DaemonChanges
    <3> HIDE DEF list
    <3>2. CASE ContainerStarts(c)
      <4>1. listings' = Append(listings, << c >> \o list)
        BY <3>2, ZenonT(60) DEF ContainerStarts, list
      <4>2. << c >> \in Seq(Containers)
        OBVIOUS
      <4>3. << c >> \o list \in Seq(Containers)
        BY <2>1, <4>2, Joined, ZenonT(60)
      <4> QED
        BY <4>1, <4>3, ZenonT(60)
    <3>3. CASE ContainerStops(c)
      <4>1. PICK i \in DOMAIN list :
              listings' = Append(listings, SubSeq(list, 1, i - 1) \o SubSeq(list, i + 1, Len(list)))
        BY <3>3, ZenonT(60) DEF ContainerStops, list
      <4>2. SubSeq(list, 1, i - 1) \in Seq(Containers)
        BY <2>1
      <4>3. SubSeq(list, i + 1, Len(list)) \in Seq(Containers)
        BY <2>1
      <4> QED
        BY <4>1, <4>2, <4>3, Joined, ZenonT(60)
    <3> QED
      BY <3>1, <3>2, <3>3, ZenonT(60)
  <2>4. listings' \in Seq(Seq(Containers)) /\ listings' # <<>>
    BY <2>2, <2>3
  <2>5. socket' = socket /\ UNCHANGED dockerVars
    BY <1>2, ZenonT(60) DEF DaemonChanges, ContainerStarts, ContainerStops
  <2> QED
    BY <2>4, <2>5, ZenonT(60) DEF DockerTypeOK, dockerVars
<1> QED
  BY <1>1, <1>2, ZenonT(60)

\* A step of DockerProvider::run keeps the provider's types.
LEMMA DockerStepType ==
  ASSUME DockerTypeOK, DockerStep
  PROVE  DockerTypeOK'
<1> USE DEF DockerTypeOK
<1>1. UNCHANGED << listings, socket >>
  BY ZenonT(60) DEF DockerStep, daemonVars
<1>2. CASE DockerSend
  BY <1>1, <1>2, ZenonT(60) DEF DockerSend, MaybeSnapshot
<1>3. CASE DockerConnect
  BY <1>1, <1>3, ZenonT(60) DEF DockerConnect
<1>4. CASE DockerCannotConnect
  BY <1>1, <1>4, ZenonT(60) DEF DockerCannotConnect
<1>5. CASE DockerPoll
  <2>1. RoutesOfListing(listings[Len(listings)]) \in Seq(Routes)
    BY CurrentListing, RoutesOfListingType, ZenonT(60)
  <2>2. Len(listings) \in Nat
    OBVIOUS
  <2>3. polled' \in MaybeSnapshot /\ (dockerPc' = "send" => polled' # NoSnapshot)
    BY <1>5, <2>1, ManagerConstants, ZenonT(60) DEF DockerPoll, MaybeSnapshot
  <2> QED
    BY <1>1, <1>5, <2>2, <2>3, ZenonT(60) DEF DockerPoll
<1>6. CASE DockerWake
  BY <1>1, <1>6, ZenonT(60) DEF DockerWake
<1> QED
  BY <1>2, <1>3, <1>4, <1>5, <1>6, ZenonT(60) DEF DockerStep

-----------------------------------------------------------------------------
\* The objects of a kind now, or as the watcher listed them.
LEMMA ObjectsAt ==
  ASSUME KubernetesTypeOK, NEW kind \in Kinds, NEW n \in 1..Len(objects[kind])
  PROVE  objects[kind][n] \in [Keys -> ObjectRoutes \cup {NotOptedIn, Absent}]
<1>1. objects[kind] \in Seq([Keys -> ObjectRoutes \cup {NotOptedIn, Absent}])
  BY ZenonT(60) DEF KubernetesTypeOK
<1> QED
  BY <1>1

\* The current state of a kind is in its log.
LEMMA CurrentObjects ==
  ASSUME KubernetesTypeOK, NEW kind \in Kinds
  PROVE  /\ Len(objects[kind]) \in Nat \ {0}
         /\ Len(objects[kind]) \in 1..Len(objects[kind])
         /\ objects[kind][Len(objects[kind])] \in [Keys -> ObjectRoutes \cup {NotOptedIn, Absent}]
<1>1. objects[kind] \in Seq([Keys -> ObjectRoutes \cup {NotOptedIn, Absent}])
      /\ objects[kind] # <<>>
  BY ZenonT(60) DEF KubernetesTypeOK
<1> QED
  BY <1>1

\* A watcher that lists or watches is at a state the objects were in.
LEMMA ListedVersion ==
  ASSUME KubernetesTypeOK, NEW kind \in Kinds, phase[kind] \in {"listing", "watching"}
  PROVE  rv[kind] \in 1..Len(objects[kind])
<1>1. rv[kind] \in Nat /\ rv[kind] <= Len(objects[kind]) /\ rv[kind] # 0
  BY ZenonT(60) DEF KubernetesTypeOK
<1>2. Len(objects[kind]) \in Nat
  BY CurrentObjects, ZenonT(60)
<1> QED
  BY <1>1, <1>2

\* The store of a fresh KindStore is a store.
LEMMA EmptyStoreType == EmptyStore \in Store
  BY ZenonT(60) DEF EmptyStore, Store

\* What the Kubernetes loop sends is a list of routes.
LEMMA AllRoutesType ==
  ASSUME NEW stores \in [Kinds -> Store]
  PROVE  AllRoutes(stores) \in Seq(Routes)
<1>1. StoreRoutes(stores["Service"]) \in Seq(Routes) /\ StoreRoutes(stores["Ingress"]) \in Seq(Routes)
  BY StoreRoutesType, ZenonT(60) DEF Kinds
<1> QED
  BY <1>1, Joined, ZenonT(60) DEF AllRoutes

\* What the end of the loop body assigns, as types.
LEMMA CommitType ==
  ASSUME KubernetesTypeOK, NEW kind \in Kinds, NEW new \in Store, Commit(kind, new), k8sPc = "next"
  PROVE  /\ committed' \in [Kinds -> Store]
         /\ k8sPc' \in {"next", "send"}
         /\ lastSent' = lastSent
         /\ pending' \in MaybeSnapshot /\ (k8sPc' = "send" => pending' # NoSnapshot)
<1>1. committed' \in [Kinds -> Store]
  BY ZenonT(60) DEF Commit, KubernetesTypeOK
<1>2. AllRoutes(committed') \in Seq(Routes)
  BY <1>1, AllRoutesType, ZenonT(60)
<1>3. pending' \in MaybeSnapshot /\ (k8sPc' = "send" => pending' # NoSnapshot)
  BY <1>2, ManagerConstants, ZenonT(60) DEF Commit, MaybeSnapshot, KubernetesTypeOK
<1> QED
  BY <1>1, <1>3, ZenonT(60) DEF Commit

\* A change of an object keeps the types of the API server.
LEMMA ClusterType ==
  ASSUME KubernetesTypeOK, ClusterChanges
  PROVE  KubernetesTypeOK'
<1> DEFINE Value == ObjectRoutes \cup {NotOptedIn, Absent}
<1>1. PICK kind \in Kinds, key \in Keys, o \in Value : ObjectBecomes(kind, key, o)
  BY ZenonT(60) DEF ClusterChanges
<1> DEFINE now == objects[kind][Len(objects[kind])]
           new == [now EXCEPT ![key] = o]
<1>2. now \in [Keys -> Value]
  BY CurrentObjects, ZenonT(60)
<1>3. new \in [Keys -> Value]
  BY <1>2, ZenonT(60)
<1>4. objects' = [objects EXCEPT ![kind] = Append(@, new)]
  BY <1>1, ZenonT(60) DEF ObjectBecomes
<1> HIDE DEF Value, new
<1>5. objects \in [Kinds -> Seq([Keys -> Value])]
  BY ZenonT(60) DEF KubernetesTypeOK, Value
<1>6. objects' \in [Kinds -> Seq([Keys -> Value])]
  BY <1>3, <1>4, <1>5
<1>7. ASSUME NEW k \in Kinds
      PROVE  objects'[k] # <<>> /\ Len(objects[k]) \in Nat /\ Len(objects'[k]) >= Len(objects[k])
  <2>1. k = kind => objects'[k] = Append(objects[kind], new)
    BY <1>4, <1>5, ZenonT(60)
  <2>2. k # kind => objects'[k] = objects[k]
    BY <1>4, <1>5, ZenonT(60)
  <2>3. objects[k] \in Seq([Keys -> Value])
    BY <1>5, ZenonT(60)
  <2>4. Append(objects[k], new) # <<>> /\ Len(Append(objects[k], new)) = Len(objects[k]) + 1
    BY <2>3, <1>3
  <2>5. Len(objects[k]) \in Nat /\ objects[k] # <<>>
    BY <2>3 DEF KubernetesTypeOK
  <2> QED
    BY <2>1, <2>2, <2>4, <2>5
<1>8. UNCHANGED << phase, rv, todo, committed, buffer, shown, k8sPc, pending, lastSent >>
  BY <1>1, ZenonT(60) DEF ObjectBecomes, ClusterChanges, storeVars, loopVars
<1>9. ASSUME NEW k \in Kinds
      PROVE  rv'[k] <= Len(objects'[k]) /\ (phase'[k] \in {"listing", "watching"} => rv'[k] # 0)
  <2>1. rv[k] \in Nat /\ rv[k] <= Len(objects[k]) /\ (phase[k] \in {"listing", "watching"} => rv[k] # 0)
    BY ZenonT(60) DEF KubernetesTypeOK
  <2>2. Len(objects'[k]) \in Nat
    BY <1>6
  <2> QED
    BY <2>1, <2>2, <1>7, <1>8
<1> QED
  BY <1>6, <1>7, <1>8, <1>9, ZenonT(60) DEF KubernetesTypeOK, Value

\* A delivery of the watcher, or its list, keeps the provider's types.
LEMMA WatchStepType ==
  ASSUME KubernetesTypeOK, NEW kind \in Kinds, WatchStep(kind)
  PROVE  KubernetesTypeOK'
<1>1. CASE WatchInit(kind)
  BY <1>1, EmptyStoreType, ZenonT(60) DEF WatchInit, KubernetesTypeOK, loopVars
<1>2. CASE WatchList(kind)
  <2>1. Len(objects[kind]) \in Nat
    BY CurrentObjects, ZenonT(60)
  <2>2. todo' \in [Kinds -> SUBSET Keys]
    BY <1>2, ZenonT(60) DEF WatchList, KubernetesTypeOK
  <2> QED
    BY <1>2, <2>1, <2>2, SMTT(60) DEF WatchList, KubernetesTypeOK, storeVars, loopVars
<1>3. CASE WatchInitApply(kind)
  <2>1. PICK key \in todo[kind] :
          LET route == RouteFromObject(objects[kind][rv[kind]][key]) IN
          /\ todo' = [todo EXCEPT ![kind] = @ \ {key}]
          /\ buffer' = IF buffer[kind] # NoBuffer /\ route # NoRoute
                       THEN [buffer EXCEPT ![kind][key] = route]
                       ELSE buffer
    BY <1>3, ZenonT(60) DEF WatchInitApply
  <2> DEFINE route == RouteFromObject(objects[kind][rv[kind]][key])
  <2>2. todo' \in [Kinds -> SUBSET Keys]
    BY <2>1, ZenonT(60) DEF KubernetesTypeOK
  <2>3. route \in ObjectRoutes \cup {NoRoute}
    <3>1. rv[kind] \in 1..Len(objects[kind]) /\ key \in Keys
      BY <1>3, ListedVersion, <2>1, ZenonT(60) DEF WatchInitApply, KubernetesTypeOK
    <3>2. objects[kind][rv[kind]][key] \in ObjectRoutes \cup {NotOptedIn, Absent}
      BY <3>1, ObjectsAt, ZenonT(60)
    <3> QED
      BY <3>2, ZenonT(60) DEF RouteFromObject
  <2>4. \/ buffer' = buffer
        \/ /\ buffer[kind] # NoBuffer
           /\ buffer' = [buffer EXCEPT ![kind] = [buffer[kind] EXCEPT ![key] = route]]
    BY <2>1, ZenonT(60)
  <2> HIDE DEF route
  <2>5. buffer[kind] # NoBuffer => [buffer[kind] EXCEPT ![key] = route] \in Store
    BY <2>3, ZenonT(60) DEF KubernetesTypeOK, Store
  <2>6. buffer' \in [Kinds -> Store \cup {NoBuffer}]
    BY <2>4, <2>5, ZenonT(60) DEF KubernetesTypeOK
  <2> QED
    BY <1>3, <2>2, <2>6, ZenonT(60) DEF WatchInitApply, KubernetesTypeOK, loopVars
<1>4. CASE WatchInitDone(kind)
  <2> DEFINE new == IF buffer[kind] = NoBuffer THEN EmptyStore ELSE buffer[kind]
  <2>1. new \in Store
    BY EmptyStoreType, ZenonT(60) DEF KubernetesTypeOK
  <2>2. Commit(kind, new) /\ k8sPc = "next"
    BY <1>4, ZenonT(60) DEF WatchInitDone
  <2> HIDE DEF new
  <2>3. /\ committed' \in [Kinds -> Store]
        /\ k8sPc' \in {"next", "send"}
        /\ lastSent' = lastSent
        /\ pending' \in MaybeSnapshot /\ (k8sPc' = "send" => pending' # NoSnapshot)
    BY <2>1, <2>2, CommitType, ZenonT(60)
  <2>4. \A k \in Kinds : phase'[k] \in {"listing", "watching"} => rv[k] # 0
    BY <1>4, ZenonT(60) DEF WatchInitDone, KubernetesTypeOK
  <2> QED
    BY <1>4, <2>3, <2>4, ZenonT(60) DEF WatchInitDone, KubernetesTypeOK
<1>5. CASE WatchEvent(kind)
  <2> DEFINE next == rv[kind] + 1
             key == CHOOSE k \in Keys : objects[kind][next][k] # objects[kind][rv[kind]][k]
             new == [committed[kind] EXCEPT ![key] = RouteFromObject(objects[kind][next][key])]
  <2>1. /\ rv' = [rv EXCEPT ![kind] = next]
        /\ shown' = [shown EXCEPT ![kind] = next] /\ rv[kind] < Len(objects[kind])
    BY <1>5, ZenonT(60) DEF WatchEvent
  <2>8. Commit(kind, new) /\ k8sPc = "next"
    BY <1>5, ZenonT(60) DEF WatchEvent
  <2>2. Len(objects[kind]) \in Nat /\ rv[kind] \in Nat
    BY CurrentObjects, ZenonT(60) DEF KubernetesTypeOK
  <2>3. next \in 1..Len(objects[kind]) /\ next \in Nat /\ next # 0
    BY <2>1, <2>2
  <2>4. new \in Store
    <3>1. committed[kind] \in Store
      BY ZenonT(60) DEF KubernetesTypeOK
    <3>2. CASE key \in Keys
      <4>1. objects[kind][next][key] \in ObjectRoutes \cup {NotOptedIn, Absent}
        BY <2>3, <3>2, ObjectsAt, ZenonT(60)
      <4>2. RouteFromObject(objects[kind][next][key]) \in ObjectRoutes \cup {NoRoute}
        BY <4>1, ZenonT(60) DEF RouteFromObject
      <4> HIDE DEF key, next
      <4> QED
        BY <3>1, <3>2, <4>2, ZenonT(60) DEF Store
    <3>3. CASE key \notin Keys
      <4> HIDE DEF key, next
      <4> QED
        BY <3>1, <3>3, ZenonT(60) DEF Store
    <3> QED
      BY <3>2, <3>3, ZenonT(60)
  <2> HIDE DEF new, next
  <2>5. /\ committed' \in [Kinds -> Store]
        /\ k8sPc' \in {"next", "send"}
        /\ lastSent' = lastSent
        /\ pending' \in MaybeSnapshot /\ (k8sPc' = "send" => pending' # NoSnapshot)
    BY <2>4, <2>8, CommitType, ZenonT(60)
  <2>6. UNCHANGED << objects, phase, todo, buffer >>
    BY <1>5, ZenonT(60) DEF WatchEvent
  <2>7. /\ rv' \in [Kinds -> Nat] /\ shown' \in [Kinds -> Nat]
        /\ \A k \in Kinds : rv'[k] <= Len(objects[k]) /\ (rv[k] # 0 => rv'[k] # 0)
    BY <2>1, <2>2, <2>3, SMTT(60) DEF KubernetesTypeOK
  <2> QED
    BY <2>5, <2>6, <2>7, ZenonT(60) DEF KubernetesTypeOK
<1> QED
  BY <1>1, <1>2, <1>3, <1>4, <1>5, ZenonT(60) DEF WatchStep

\* The remaining steps of the provider.
LEMMA KubernetesStepType ==
  ASSUME KubernetesTypeOK, WatchFails \/ KubernetesStep \/ KubernetesEnds
  PROVE  KubernetesTypeOK'
<1>1. CASE WatchFails
  BY <1>1, ZenonT(60) DEF WatchFails, WatchError, KubernetesTypeOK, storeVars, loopVars
<1>2. CASE KubernetesStep
  <2>1. CASE KubernetesSend
    BY <1>2, <2>1, ZenonT(60) DEF KubernetesStep, KubernetesSend, KubernetesTypeOK, apiVars, storeVars, MaybeSnapshot
  <2>2. CASE KubernetesConnect
    BY <1>2, <2>2, ZenonT(60) DEF KubernetesStep, KubernetesConnect, KubernetesTypeOK, apiVars, storeVars
  <2> QED
    BY <1>2, <2>1, <2>2, ZenonT(60) DEF KubernetesStep
<1>3. CASE KubernetesEnds
  BY <1>3, ZenonT(60) DEF KubernetesEnds, StreamsEnd, KubernetesTypeOK, apiVars, storeVars
<1> QED
  BY <1>1, <1>2, <1>3, ZenonT(60)

\* The initial state is well typed.
LEMMA InitType == Init => TypeOK
<1> SUFFICES ASSUME Init PROVE TypeOK
  BY ZenonT(60)
<1>1. ManagerTypeOK
  <2>1. RouteSet(Routes)
    BY ManagerConstants, ZenonT(60) DEF RouteSet
  <2>2. RouteTable(FileRoutes) \in Seq(Routes)
    BY <2>1, ManagerConstants, TableHasTheRoutes, ZenonT(60)
  <2> QED
    BY <2>2, ManagerConstants DEF Init, ManagerInit, ManagerTypeOK, MaybeSnapshot
<1>2. DockerTypeOK
  <2>1. \A S, x : x \in S => << x >> \in Seq(S) /\ << x >> # <<>>
    OBVIOUS
  <2>2. <<>> \in Seq(Containers)
    OBVIOUS
  <2>3. listings \in Seq(Seq(Containers)) /\ listings # <<>>
    BY <2>1, <2>2, ZenonT(60) DEF Init, DockerInit
  <2> QED
    BY <2>3, ZenonT(60) DEF Init, DockerInit, DockerTypeOK, MaybeSnapshot
<1>3. KubernetesTypeOK
  <2> DEFINE none == [k \in Keys |-> Absent]
             Value == ObjectRoutes \cup {NotOptedIn, Absent}
  <2>1. << none >> \in Seq([Keys -> Value]) /\ << none >> # <<>> /\ Len(<< none >>) = 1
    OBVIOUS
  <2>2. objects = [kind \in Kinds |-> << none >>]
    BY ZenonT(60) DEF Init, KubernetesInit
  <2> HIDE DEF none, Value
  <2>3. objects \in [Kinds -> Seq([Keys -> Value])]
        /\ \A kind \in Kinds : objects[kind] # <<>> /\ Len(objects[kind]) = 1
    BY <2>1, <2>2, ZenonT(60)
  <2> QED
    BY <2>3, EmptyStoreType DEF Init, KubernetesInit, KubernetesTypeOK, MaybeSnapshot, Value
<1> QED
  BY <1>1, <1>2, <1>3, ZenonT(60) DEF Init, TypeOK

\* The types of the parts a step leaves alone.
LEMMA KubernetesTypeFrame ==
  ASSUME KubernetesTypeOK, UNCHANGED kubeVars
  PROVE  KubernetesTypeOK'
  BY ZenonT(60) DEF kubeVars, apiVars, storeVars, loopVars, KubernetesTypeOK

LEMMA DockerTypeFrame ==
  ASSUME DockerTypeOK, UNCHANGED << daemonVars, dockerVars >>
  PROVE  DockerTypeOK'
  BY ZenonT(60) DEF daemonVars, dockerVars, DockerTypeOK

LEMMA ManagerTypeFrame ==
  ASSUME ManagerTypeOK, UNCHANGED managerVars
  PROVE  ManagerTypeOK'
  BY ZenonT(60) DEF managerVars, ManagerTypeOK

\* Every step of Discovery keeps TypeOK.
LEMMA NextType == TypeOK /\ [Next]_vars => TypeOK'
<1> SUFFICES ASSUME TypeOK, [Next]_vars PROVE TypeOK'
  BY ZenonT(60)
<1> USE DEF TypeOK
<1>1. CASE DaemonChanges \/ DaemonFails
  <2>1. UNCHANGED << managerVars, kubeVars >> /\ changes' \in Nat /\ faults' \in Nat
    BY <1>1 DEF DaemonChanges, DaemonFails
  <2>2. DockerTypeOK'
    BY <1>1, DaemonType, ZenonT(60)
  <2> QED
    BY <2>1, <2>2, ManagerTypeFrame, KubernetesTypeFrame, ZenonT(60)
<1>2. CASE DockerStep
  <2>1. UNCHANGED << kubeVars, changes, faults >>
    BY <1>2, ZenonT(60) DEF DockerStep, worldVars
  <2>2. DockerTypeOK'
    BY <1>2, DockerStepType, ZenonT(60)
  <2>3. ManagerTypeOK'
    <3>1. CASE DockerSend
      <4>1. polled \in Seq(Routes)
        BY <3>1, ZenonT(60) DEF DockerSend, DockerTypeOK, MaybeSnapshot
      <4>2. [s \in {"docker"} |-> polledAt] \in [{"docker"} -> Nat] \cup [Kinds -> Nat]
        BY ZenonT(60) DEF DockerTypeOK
      <4>3. Send("docker", polled, [s \in {"docker"} |-> polledAt])
        BY <3>1, ZenonT(60) DEF DockerSend
      <4>4. "docker" \in Providers
        BY ZenonT(60) DEF Providers
      <4> QED
        BY <4>1, <4>2, <4>3, <4>4, SendType, ZenonT(60)
    <3>2. CASE UNCHANGED managerVars
      BY <3>2, ManagerTypeFrame, ZenonT(60)
    <3> QED
      BY <1>2, <3>1, <3>2, ZenonT(60) DEF DockerStep
  <2> QED
    BY <2>1, <2>2, <2>3, KubernetesTypeFrame, ZenonT(60)
<1>3. CASE ClusterChanges
  <2>1. UNCHANGED << managerVars, daemonVars, dockerVars >> /\ changes' \in Nat /\ faults' \in Nat
    BY <1>3 DEF ClusterChanges
  <2>2. KubernetesTypeOK'
    BY <1>3, ClusterType, ZenonT(60)
  <2> QED
    BY <2>1, <2>2, ManagerTypeFrame, DockerTypeFrame, ZenonT(60)
<1>4. CASE \E kind \in Kinds : WatchStep(kind)
  <2>1. UNCHANGED << managerVars, daemonVars, dockerVars, changes, faults >>
    BY <1>4, ZenonT(60) DEF WatchStep, worldVars
  <2>2. KubernetesTypeOK'
    BY <1>4, WatchStepType, ZenonT(60)
  <2> QED
    BY <2>1, <2>2, ManagerTypeFrame, DockerTypeFrame, ZenonT(60)
<1>5. CASE WatchFails \/ KubernetesEnds
  <2>1. UNCHANGED << managerVars, daemonVars, dockerVars, changes >> /\ faults' \in Nat
    BY <1>5 DEF WatchFails, KubernetesEnds, worldVars
  <2>2. KubernetesTypeOK'
    BY <1>5, KubernetesStepType, ZenonT(60)
  <2> QED
    BY <2>1, <2>2, ManagerTypeFrame, DockerTypeFrame, ZenonT(60)
<1>6. CASE KubernetesStep
  <2>1. UNCHANGED << daemonVars, dockerVars, changes, faults >>
    BY <1>6, ZenonT(60) DEF KubernetesStep, worldVars
  <2>2. KubernetesTypeOK'
    BY <1>6, KubernetesStepType, ZenonT(60)
  <2>3. ManagerTypeOK'
    <3>1. CASE KubernetesSend
      <4>1. pending \in Seq(Routes)
        BY <3>1, ZenonT(60) DEF KubernetesSend, KubernetesTypeOK, MaybeSnapshot
      <4>2. shown \in [{"docker"} -> Nat] \cup [Kinds -> Nat]
        BY ZenonT(60) DEF KubernetesTypeOK
      <4>3. Send("kubernetes", pending, shown)
        BY <3>1, ZenonT(60) DEF KubernetesSend
      <4>4. "kubernetes" \in Providers
        BY ZenonT(60) DEF Providers
      <4> QED
        BY <4>1, <4>2, <4>3, <4>4, SendType, ZenonT(60)
    <3>2. CASE UNCHANGED managerVars
      BY <3>2, ManagerTypeFrame, ZenonT(60)
    <3> QED
      BY <1>6, <3>1, <3>2, ZenonT(60) DEF KubernetesStep
  <2> QED
    BY <2>1, <2>2, <2>3, DockerTypeFrame, ZenonT(60)
<1>7. CASE ManagerStep
  <2>1. UNCHANGED << daemonVars, dockerVars, kubeVars, changes, faults >>
    BY <1>7, ZenonT(60) DEF ManagerStep, worldVars
  <2>2. ManagerTypeOK'
    BY <1>7, ManagerStepType, ZenonT(60)
  <2> QED
    BY <2>1, <2>2, DockerTypeFrame, KubernetesTypeFrame, ZenonT(60)
<1>8. CASE UNCHANGED vars
  <2>1. UNCHANGED << managerVars, daemonVars, dockerVars, kubeVars, changes, faults >>
    BY <1>8, ZenonT(60) DEF vars, worldVars
  <2> QED
    BY <2>1, ManagerTypeFrame, DockerTypeFrame, KubernetesTypeFrame, ZenonT(60)
<1> QED
  BY <1>1, <1>2, <1>3, <1>4, <1>5, <1>6, <1>7, <1>8, ZenonT(60) DEF Next

\* Whatever the world does, the providers, the channel and the manager stay
\* in their types and the channel within its capacity.
THEOREM TypeCorrect == Spec => []TypeOK
<1>1. Init => TypeOK
  BY InitType, ZenonT(60)
<1>2. TypeOK /\ [Next]_vars => TypeOK'
  BY NextType, ZenonT(60)
<1> QED
  BY <1>1, <1>2, PTL DEF Spec
=============================================================================
