-------------------------------- MODULE Metrics --------------------------------
(***************************************************************************)
(* InMemoryObservability and SqliteMetricStore (observability.py): every   *)
(* process adds the spans it finishes to a bounded number of series in     *)
(* memory and then to the same series of a database they share.  The       *)
(* caller ignores a span that cannot be finished (service_adapter.py).     *)
(***************************************************************************)
EXTENDS Naturals, FiniteSets, FiniteSetsExt, Functions

CONSTANTS
  Observers,     \* processes
  Series,        \* metric keys
  SeriesLimit,   \* metric_series_limit
  MaxSpans, LastStamp \* bounds: spans of a process, the wall clock

ASSUME MetricsAssumption ==
  IsFiniteSet(Observers) /\ IsFiniteSet(Series) /\ SeriesLimit \in Nat \ {0}

VARIABLES
  open,          \* observer -> when its running spans were begun, as they will say
  counts,        \* observer -> key -> count, for the keys it has
  durable,       \* observability_metrics: key -> count and updated_at
  failures,      \* observer -> failure_count
  stamp,         \* the wall clock
  tallied        \* history: spans of each observer's life, and rows' lives

metrics == <<open, counts, durable, failures, stamp, tallied>>

Overflow == "other"  \* _overflow_key
MetricKeys == Series \cup {Overflow}
NoMetric == [count |-> 0, updated |-> 0]
Empty == [k \in {} |-> 0]

MetricsInit ==
  /\ open = [o \in Observers |-> {}]
  /\ counts = [o \in Observers |-> Empty]
  /\ durable = [k \in MetricKeys |-> NoMetric]
  /\ failures = [o \in Observers |-> 0]
  /\ stamp = 0
  /\ tallied = [spans |-> [o \in Observers |-> 0], former |-> 0, removed |-> 0, begun |-> 0]

-----------------------------------------------------------------------------
(* start_span, and the finish of it up to the lock, where the wall clock   *)
(* has been read.                                                          *)
TimeSpan(o) ==
  /\ tallied.begun < MaxSpans /\ stamp \notin open[o]
  /\ open' = [open EXCEPT ![o] = @ \cup {stamp}]
  /\ tallied' = [tallied EXCEPT !.begun = @ + 1]
  /\ UNCHANGED <<counts, durable, failures, stamp>>

(* The series of a record: its own while there is room, or the overflow.   *)
Regular(o) == Cardinality(DOMAIN counts[o] \ {Overflow})
HasRoomForAll(o) == Regular(o) < SeriesLimit  \* no place kept for the overflow
HasRoom(o) == Regular(o) + 1 < SeriesLimit
SeriesOf(o, k) == IF k \in DOMAIN counts[o] \/ HasRoom(o) THEN k ELSE Overflow

Incremented(f, k) ==
  [j \in DOMAIN f \cup {k} |->
     IF j \notin DOMAIN f THEN 1 ELSE IF j = k THEN f[j] + 1 ELSE f[j]]

(* _finish, under the lock of the observer: memory, then the upsert, which *)
(* may fail after memory has the record; the span is finished either way.  *)
FinishSpan(o, k, time) ==
  LET s == SeriesOf(o, k) IN
  /\ time \in open[o] /\ open' = [open EXCEPT ![o] = @ \ {time}]
  /\ counts' = [counts EXCEPT ![o] = Incremented(@, s)]
  /\ tallied' = [tallied EXCEPT !.spans[o] = @ + 1]
  /\ \/ /\ durable' = [durable EXCEPT ![s] =
                         [count |-> @.count + 1, updated |-> Max({@.updated, time})]]
        /\ UNCHANGED failures
     \/ failures' = [failures EXCEPT ![o] = @ + 1] /\ UNCHANGED durable
  /\ UNCHANGED stamp

PersistedCounts == [k \in MetricKeys |-> durable[k].count]

(* cleanup_before: the rows that were not updated since the cutoff.        *)
CleanupBefore(cutoff) ==
  LET gone == {k \in MetricKeys : durable[k].count > 0 /\ durable[k].updated < cutoff} IN
  /\ gone # {}
  /\ durable' = [k \in MetricKeys |-> IF k \in gone THEN NoMetric ELSE durable[k]]
  /\ tallied' = [tallied EXCEPT !.removed = @ + SumFunctionOnSet(PersistedCounts, gone)]
  /\ UNCHANGED <<open, counts, failures, stamp>>

RestartObserver(o) ==
  /\ tallied.spans[o] > 0
  /\ counts' = [counts EXCEPT ![o] = Empty]
  /\ open' = [open EXCEPT ![o] = {}] /\ failures' = [failures EXCEPT ![o] = 0]
  /\ tallied' = [tallied EXCEPT !.former = @ + tallied.spans[o] - failures[o], !.spans[o] = 0]
  /\ UNCHANGED <<durable, stamp>>

StampMoves ==
  /\ stamp < LastStamp /\ stamp' = stamp + 1
  /\ UNCHANGED <<open, counts, durable, failures, tallied>>

MetricsNext ==
  \/ \E o \in Observers : TimeSpan(o) \/ RestartObserver(o)
  \/ \E o \in Observers, k \in Series, t \in 0 .. LastStamp : FinishSpan(o, k, t)
  \/ \E t \in 1 .. LastStamp : CleanupBefore(t)
  \/ StampMoves
MetricsSpec == MetricsInit /\ [][MetricsNext]_metrics

-----------------------------------------------------------------------------
Total(f) == SumFunctionOnSet(f, DOMAIN f)

(* No process keeps more series than its limit, none of its spans is left  *)
(* out or counted twice whichever series it falls into, and what the       *)
(* processes could persist, in this life or an earlier one, is in the      *)
(* database until a cleanup takes it.                                      *)
MetricsAreExact ==
  /\ \A o \in Observers : /\ Cardinality(DOMAIN counts[o]) <= SeriesLimit
                          /\ Total(counts[o]) = tallied.spans[o]
  /\ Total(PersistedCounts) + tallied.removed
       = tallied.former + Total([o \in Observers |-> tallied.spans[o] - failures[o]])
================================================================================
