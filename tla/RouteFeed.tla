------------------------------ MODULE RouteFeed ------------------------------
(***************************************************************************)
(* What discovery promises the request path, without providers, channel or *)
(* manager: the live table always is the file's routes together with, for  *)
(* every source, one state that source really was in, all of it at once;   *)
(* and the table never goes back to an older state of any source.          *)
(***************************************************************************)
EXTENDS Integers, Sequences

CONSTANTS
  FileRoutes, SourceNames,
  RouteTable(_)   \* RouteTable::new: the table made of a list of routes

VARIABLES
  past,    \* [SourceNames -> Seq(Seq(route))]: the sources' states so far
  served,  \* [SourceNames -> number]: the state shown, 0 before the first
  table    \* the live route table

feedVars == << past, served, table >>

\* The routes of source s that the table shows when at are the states served.
Shows(p, at, s) == IF at[s] = 0 THEN <<>> ELSE p[s][at[s]]

LiveTable(p, at) ==
  RouteTable(FileRoutes \o Shows(p, at, "docker")
               \o Shows(p, at, "Service") \o Shows(p, at, "Ingress"))

FeedInit ==
  /\ past = [s \in SourceNames |-> << <<>> >>]
  /\ served = [s \in SourceNames |-> 0]
  /\ table = RouteTable(FileRoutes)

\* A source changes; the table does not.
SourceChanges ==
  /\ \E s \in SourceNames :
       /\ Len(past'[s]) = Len(past[s]) + 1
       /\ SubSeq(past'[s], 1, Len(past[s])) = past[s]
       /\ \A t \in SourceNames \ {s} : past'[t] = past[t]
  /\ DOMAIN past' = SourceNames
  /\ UNCHANGED << served, table >>

\* The table moves, in one step, to states of the sources no older than the
\* ones it shows.
Publish ==
  /\ DOMAIN served' = SourceNames
  /\ \A s \in SourceNames : served'[s] \in served[s]..Len(past[s])
  /\ table' = LiveTable(past, served')
  /\ UNCHANGED past

FeedNext == SourceChanges \/ Publish

FeedSpec == FeedInit /\ [][FeedNext]_feedVars
=============================================================================
