----------------------------- MODULE RouteList -----------------------------
(***************************************************************************)
(* What the route table promises of any list of routes it is built from.   *)
(* The state is the list that RouteManager::recompute hands to             *)
(* RouteTable::new, to which routes are added one at a time.               *)
(***************************************************************************)
EXTENDS Routing

CONSTANTS
  RequestHosts, RequestPaths,  \* what a request can ask for
  Listable,                    \* the routes a list can have
  MaxListed                    \* bound: routes of a list

ASSUME RouteListConstants ==
  /\ RequestPaths \subseteq Seq(STRING)
  /\ \A r \in Listable : r.path_prefix \in Seq(STRING)
  /\ MaxListed \in Nat

VARIABLE listed

ListInit == listed = <<>>

AddRoute ==
  /\ Len(listed) < MaxListed
  /\ \E r \in Listable : listed' = Append(listed, r)

ListSpec == ListInit /\ [][AddRoute]_listed
-----------------------------------------------------------------------------
\* What lies between one slash, or the start, and the next, or the end.
SegmentBounds(path) ==
  LET slashes == {i \in DOMAIN path : path[i] = "/"}
  IN  {b \in (slashes \cup {0}) \X (slashes \cup {Len(path) + 1}) :
         b[1] < b[2] /\ \A i \in slashes : ~ (b[1] < i /\ i < b[2])}

\* A segment is its text and its place.
Segments(path) ==
  {[at |-> b[1], text |-> SubSeq(path, b[1] + 1, b[2] - 1)] : b \in SegmentBounds(path)}

\* The segments a prefix asks for: its trailing empty ones do not count.
Demanded(prefix) ==
  {s \in Segments(prefix) : \E t \in Segments(prefix) : t.text # <<>> /\ s.at <= t.at}

\* Matching on characters (path_prefix_matches) agrees with matching whole
\* segments: no prefix ever matches part of a path segment.
PrefixMatchIsSegmentwise ==
  \A i \in DOMAIN listed : \A path \in RequestPaths :
    PathPrefixMatches(listed[i].path_prefix, path)
      <=> Demanded(listed[i].path_prefix) \subseteq Segments(path)

\* select after the stable sort is the reference choice over the unsorted
\* list: of the matching routes the most specific, of equally specific ones
\* the one that came first (file routes, then docker, then kubernetes).
SelectIsMostSpecific ==
  LET sorted == RouteTable(listed) IN
  \A host \in RequestHosts : \A path \in RequestPaths :
    LET hits == {i \in DOMAIN listed : Matches(listed[i], host, path)}
        best == {i \in hits : \A j \in hits :
                   /\ ~MoreSpecific(listed[j], listed[i])
                   /\ i <= j \/ MoreSpecific(listed[i], listed[j])}
    IN  IF hits = {} THEN Select(sorted, host, path) = NoRoute
        ELSE \E i \in best : Select(sorted, host, path) = listed[i]

\* A file route never serves a request that a discovered route with the same
\* host and the same prefix, as written, also matches (file < discovered).
DiscoveredWinsTie ==
  LET sorted == RouteTable(listed) IN
  \A host \in RequestHosts : \A path \in RequestPaths :
    LET chosen == Select(sorted, host, path)
    IN  chosen # NoRoute /\ chosen.source = "file" =>
          ~\E i \in DOMAIN listed :
              /\ listed[i].source = "discovered"
              /\ listed[i].host = chosen.host
              /\ listed[i].path_prefix = chosen.path_prefix
=============================================================================
