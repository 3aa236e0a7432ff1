------------------------------ MODULE Histogram ------------------------------
(***************************************************************************)
(* The upstream-latency histogram of src/src/metrics.rs, shared by request *)
(* tasks that record observations and tasks that render /metrics.  Every   *)
(* cell is an AtomicU64 of its own, reached with Ordering::Relaxed: an     *)
(* observation is a set of independent increments and a scrape a set of    *)
(* independent loads, each set in any order.                               *)
(***************************************************************************)
EXTENDS Integers, FiniteSets, Sequences

CONSTANTS
  Observers,   \* tasks that may record a latency
  Buckets,     \* how many finite upper bounds there are
  MaxObs       \* bound: observations begun

ASSUME HistogramConstants == Buckets \in Nat \ {0} /\ MaxObs \in Nat

\* A latency is the number of the first bound it does not exceed; one beyond
\* all bounds is Buckets + 1.
Latencies == 1 .. Buckets + 1

Inf == Buckets + 1                \* the count, rendered as le="+Inf"
Sum == 0                          \* latency_sum_micros
Cells == Sum .. Inf

VARIABLES
  cells,     \* the atomics
  pending,   \* observer -> [obs, adds]: its observation, the cells it has still to add to
  loads,     \* the cells the scrape in progress has still to load
  scrape,    \* what it has loaded so far
  begun,     \* the latencies of the observations so far, in the order they began
  finished,  \* the observations that have added to all their cells
  floor      \* finished, when the scrape in progress began

histogramVars == << cells, pending, loads, scrape, begun, finished, floor >>

HistogramInit ==
  /\ cells = [c \in Cells |-> 0]
  /\ pending = [o \in Observers |-> [obs |-> 1, adds |-> {}]]
  /\ loads = {} /\ scrape = [c \in Cells |-> 0]
  /\ begun = <<>> /\ finished = {} /\ floor = {}

\* The loop leaves at the first bound that holds the latency.
AddsToMutant(l) == {Sum, Inf, l}

\* The bounds that hold the latency, the count and the sum.
AddsTo(l) == {c \in 1 .. Buckets : l <= c} \cup {Sum, Inf}

\* A latency of class l adds 1 to a counter and itself to the sum.
Amount(c, l) == IF c = Sum THEN l ELSE 1

Observe(o) ==
  /\ pending[o].adds = {}
  /\ Len(begun) < MaxObs
  /\ \E l \in Latencies :
       /\ pending' = [pending EXCEPT ![o] = [obs |-> Len(begun) + 1, adds |-> AddsTo(l)]]
       /\ begun' = Append(begun, l)
  /\ UNCHANGED << cells, loads, scrape, finished, floor >>

\* One fetch_add; the last one ends the observation.
Add(o) ==
  \E c \in pending[o].adds :
    LET i == pending[o].obs IN
    /\ cells' = [cells EXCEPT ![c] = @ + Amount(c, begun[i])]
    /\ pending' = [pending EXCEPT ![o].adds = @ \ {c}]
    /\ finished' = IF pending[o].adds = {c} THEN finished \cup {i} ELSE finished
    /\ UNCHANGED << loads, scrape, begun, floor >>

\* render_prometheus begins.
Scrape ==
  /\ loads = {}
  /\ loads' = Cells
  /\ scrape' = [c \in Cells |-> 0]
  /\ floor' = finished
  /\ UNCHANGED << cells, pending, begun, finished >>

\* One load.
Load ==
  \E c \in loads :
    /\ scrape' = [scrape EXCEPT ![c] = cells[c]]
    /\ loads' = loads \ {c}
    /\ UNCHANGED << cells, pending, begun, finished, floor >>

HistogramNext ==
  \/ \E o \in Observers : Observe(o) \/ Add(o)
  \/ Scrape \/ Load

HistogramSpec == HistogramInit /\ [][HistogramNext]_histogramVars
-----------------------------------------------------------------------------
\* What the observations in S, their latencies being h, count for in cell c:
\* each of those within the bound once, and for the sum each as often as its
\* latency.
Units(h, S, c) ==
  {u \in S \X Latencies : IF c = Sum THEN u[2] <= h[u[1]] ELSE u[2] = 1 /\ h[u[1]] <= c}

\* What a Prometheus histogram of these observations shows in cell c.
Reference(h, S, c) == Cardinality(Units(h, S, c))

\* A rendered histogram lies, cell by cell, between the one of the
\* observations finished before the scrape and the one of those begun by its
\* end, however the increments and loads of all tasks interleave.  In
\* particular a scrape that overlaps no observation is exact.
ScrapeWithinBounds ==
  loads = {} =>
    \A c \in Cells : /\ Reference(begun, floor, c) <= scrape[c]
                     /\ scrape[c] <= Reference(begun, DOMAIN begun, c)
=============================================================================
