------------------------------ MODULE Routing ------------------------------
(***************************************************************************)
(* The route table (src/src/config.rs): one route's match rule, the order  *)
(* RouteTable::new sorts the routes into, and the selection of the route   *)
(* that serves a request.  Nothing here has state: Discovery builds tables *)
(* with these operators, MCRouting checks them over every small list.      *)
(*                                                                         *)
(* A route is a record with the fields of struct Route that selection      *)
(* reads.  Paths and prefixes are sequences of characters, because a       *)
(* prefix's length and its trailing slashes decide which route wins.  A    *)
(* host is a string and "" is the code's empty string (any host).          *)
(***************************************************************************)
EXTENDS Integers, FiniteSets, Sequences

CONSTANTS
  Lower,    \* ASCII lower case of every host spelling: a function
  NoRoute   \* select's None

\* The elements of the finite set S, sorted by the strict order R (a set of
\* pairs): the n-th has n - 1 elements before it.
Ordered(S, R) ==
  [n \in 1..Cardinality(S) |->
     CHOOSE x \in S : Cardinality({y \in S : << y, x >> \in R}) = n - 1]

Sources == {"default", "file", "discovered", "env", "cli"}

\* Source::route_rank: a discovered route outranks a file route.
RouteRank(source) == IF source \in {"discovered", "env", "cli"} THEN 1 ELSE 0

\* A specificity that forgets the layer a route came from.
SpecificityMutant(r) ==
  << IF r.host = "" THEN 0 ELSE 1, Len(r.path_prefix), 0 >>

\* Route::specificity: host bonus, length of the prefix as written, rank.
Specificity(r) ==
  << IF r.host = "" THEN 0 ELSE 1, Len(r.path_prefix), RouteRank(r.source) >>

\* The order of Rust tuples, strictly greater.
MoreSpecific(r, s) ==
  LET a == Specificity(r)
      b == Specificity(s)
  IN  \/ a[1] > b[1]
      \/ a[1] = b[1] /\ a[2] > b[2]
      \/ a[1] = b[1] /\ a[2] = b[2] /\ a[3] > b[3]

\* str::trim_end_matches('/').
TrimSlashes(p) ==
  LET ends == {n \in 0..Len(p) : \A i \in n+1..Len(p) : p[i] = "/"}
  IN  SubSeq(p, 1, CHOOSE n \in ends : \A m \in ends : n <= m)

HasPrefix(path, p) == Len(p) <= Len(path) /\ SubSeq(path, 1, Len(p)) = p

\* A plain string prefix, blind to segment boundaries.
PathPrefixMatchesMutant(prefix, path) == HasPrefix(path, TrimSlashes(prefix))

\* path_prefix_matches: on segment boundaries, trailing slashes ignored.
PathPrefixMatches(prefix, path) ==
  LET p == TrimSlashes(prefix)
  IN  \/ p = <<>>
      \/ /\ HasPrefix(path, p)
         /\ Len(path) = Len(p) \/ path[Len(p) + 1] = "/"

\* Route::matches.
Matches(r, host, path) ==
  /\ r.host = "" \/ Lower[host] = Lower[r.host]
  /\ PathPrefixMatches(r.path_prefix, path)

\* A sort that is not stable: of equally specific routes the last comes first.
BeforeMutant(routes, i, j) ==
  \/ MoreSpecific(routes[i], routes[j])
  \/ ~MoreSpecific(routes[j], routes[i]) /\ i > j

\* sort_by_key(Reverse(specificity)): most specific first, and stable.
Before(routes, i, j) ==
  \/ MoreSpecific(routes[i], routes[j])
  \/ ~MoreSpecific(routes[j], routes[i]) /\ i < j

\* RouteTable::new.
RouteTable(routes) ==
  LET places == DOMAIN routes
      order == Ordered(places, {p \in places \X places : Before(routes, p[1], p[2])})
  IN  [k \in places |-> routes[order[k]]]

\* RouteTable::select: the first route of the sorted table that matches.
Select(table, host, path) ==
  LET hits == {i \in DOMAIN table : Matches(table[i], host, path)}
  IN  IF hits = {} THEN NoRoute
      ELSE table[CHOOSE i \in hits : \A j \in hits : i <= j]
=============================================================================
