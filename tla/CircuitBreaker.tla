--------------------------- MODULE CircuitBreaker ---------------------------
(***************************************************************************)
(* CircuitBreaker (resilience.py): a bounded table of circuits, one per    *)
(* provider, in least-recently-used order.  Every method runs under the    *)
(* breaker's lock, so an action is a whole method; what interleaves is the *)
(* calls themselves, which take their permit before they run and report    *)
(* their outcome later, when the circuit may have opened, recovered or     *)
(* been evicted and created again.                                         *)
(*                                                                         *)
(* The clock is modelled by its only use, how long ago a circuit opened:   *)
(* the field elapsed, which stops at the recovery timeout.                 *)
(***************************************************************************)
EXTENDS Integers, Sequences, FiniteSets, FiniteSetsExt, SequencesExt

CONSTANTS
  Callers,           \* threads that call providers
  Keys,              \* provider keys
  NoKey,
  FailureThreshold,  \* failure_threshold
  RecoveryTimeout,   \* recovery_timeout_seconds
  MaxEntries,        \* max_entries
  MaxGeneration,     \* bounds the generations explored
  ReuseExplored      \* bounds the evictions explored: whether a circuit that
                     \* was pushed out may come back while permits of its
                     \* former self are still held

ASSUME BreakerAssumption ==
  /\ NoKey \notin Keys
  /\ FailureThreshold \in Nat \ {0}
  /\ RecoveryTimeout \in Nat
  /\ MaxEntries \in Nat \ {0}
  /\ MaxGeneration \in Nat
  /\ ReuseExplored \in BOOLEAN

VARIABLES
  order,    \* keys of _entries, least recently used first
  entry,    \* the _CircuitEntry of each key; a new one if it has none
  permit,   \* the CircuitPermit each caller holds while its call runs
  stale     \* history: whether the circuit has changed hands (opened,
            \* recovered, been evicted) since the caller took its permit

breakerVars == <<order, entry, permit, stale>>

NewEntry == [state |-> "closed", failures |-> 0, elapsed |-> 0,
             probe |-> FALSE, inFlight |-> 0, generation |-> 0]

NoPermit == [key |-> NoKey, generation |-> 0, probe |-> FALSE]

BreakerTypeOK ==
  /\ order \in Seq(Keys)
  /\ entry \in [Keys -> [state : {"closed", "open", "half_open"}, failures : Nat,
                         elapsed : 0..RecoveryTimeout, probe : BOOLEAN,
                         inFlight : Nat, generation : Nat]]
  /\ permit \in [Callers -> [key : Keys \cup {NoKey}, generation : Nat, probe : BOOLEAN]]
  /\ stale \in [Callers -> BOOLEAN]
  /\ \A i, j \in DOMAIN order : order[i] = order[j] => i = j
  /\ \A k \in Keys : entry[k].probe <=> entry[k].state = "half_open"

BreakerInit ==
  /\ order = <<>>
  /\ entry = [k \in Keys |-> NewEntry]
  /\ permit = [t \in Callers |-> NoPermit]
  /\ stale = [t \in Callers |-> FALSE]

-----------------------------------------------------------------------------
Present(k) == \E i \in DOMAIN order : order[i] = k
Place(k) == CHOOSE i \in DOMAIN order : order[i] = k
MoveToEnd(k) == order' = Append(RemoveAt(order, Place(k)), k)

(* Mutant: any idle entry makes room.                                      *)
EvictableAnyState == {i \in DOMAIN order : entry[order[i]].inFlight = 0}

(* The entries a new key may push out: closed and, by their count, idle.   *)
Evictable == {i \in DOMAIN order : /\ entry[order[i]].state = "closed"
                                   /\ entry[order[i]].inFlight = 0}
Full == Len(order) >= MaxEntries
VictimPlace == Min(Evictable)
Victim == order[VictimPlace]

(* _entry: looking k up moves it to the end, creating it if it is missing; *)
(* a new entry may push another out.                                       *)
HasRoom(k)   == Present(k) \/ ~Full \/ Evictable # {}
PushedOut(k) == IF Present(k) \/ ~Full THEN {} ELSE {Victim}
Entries(k)   == [x \in Keys |-> IF x \in PushedOut(k) THEN NewEntry ELSE entry[x]]
Lookup(k) ==
  \/ Present(k) /\ MoveToEnd(k)
  \/ ~Present(k) /\ ~Full /\ order' = Append(order, k)
  \/ ~Present(k) /\ Full /\ order' = Append(RemoveAt(order, VictimPlace), k)

Holders(k) == {t \in Callers : permit[t].key = k}

(* The permits of these keys are for a circuit that is no more.            *)
Outdate(keys, holders) ==
  [t \in Callers |-> IF t \in holders /\ permit[t].key \in keys THEN TRUE ELSE stale[t]]

(* Mutant: a circuit whose time has just come is not tried.                *)
RecoversTooLate(e) == e.state = "open" /\ e.elapsed > RecoveryTimeout

(* acquire, when it admits the call.                                       *)
Recovers(e) == e.state = "open" /\ e.elapsed >= RecoveryTimeout

(* Mutant: a half-open circuit does not look for a probe in flight.        *)
AdmitsEveryProbe(e) == e.state # "open" \/ Recovers(e)

Admits(e) == \/ e.state = "closed"
             \/ Recovers(e)
             \/ e.state = "half_open" /\ ~e.probe

Acquire(t, k) ==
  LET e       == Entries(k)[k]
      probing == e.state # "closed"
      gen     == IF Recovers(e) THEN e.generation + 1 ELSE e.generation
      lost    == PushedOut(k) \cup (IF Recovers(e) THEN {k} ELSE {})
  IN
  /\ permit[t] = NoPermit
  /\ HasRoom(k)
  /\ e.generation < MaxGeneration
  /\ ReuseExplored \/ Present(k) \/ Holders(k) = {}
  /\ Lookup(k)
  /\ Admits(e)
  /\ entry' = [Entries(k) EXCEPT
       ![k].state      = IF probing THEN "half_open" ELSE "closed",
       ![k].probe      = probing,
       ![k].inFlight   = IF probing THEN @ ELSE @ + 1,
       ![k].generation = gen]
  /\ permit' = [permit EXCEPT ![t] = [key |-> k, generation |-> gen, probe |-> probing]]
  /\ stale' = [Outdate(lost, Callers) EXCEPT ![t] = FALSE]

(* acquire, when the circuit pauses access: the lookup has already made    *)
(* the entry the most recently used one.                                   *)
RefusedOpen(t, k) ==
  /\ permit[t] = NoPermit
  /\ Present(k)
  /\ ~Admits(entry[k])
  /\ MoveToEnd(k)
  /\ UNCHANGED <<entry, permit, stale>>

(* acquire, when no entry can make room: nothing changes.                  *)
RefusedCapacity(t, k) ==
  /\ permit[t] = NoPermit
  /\ ~HasRoom(k)
  /\ UNCHANGED breakerVars

(* A report counts only for an entry of the generation of its permit.      *)
Current(t) == /\ Present(permit[t].key)
              /\ entry[permit[t].key].generation = permit[t].generation

ReleasePermit(t) == permit' = [permit EXCEPT ![t] = NoPermit]

Ignored(t) ==
  /\ ~Current(t)
  /\ UNCHANGED <<order, entry>>
  /\ stale' = [stale EXCEPT ![t] = FALSE]

Decrement(n) == IF n > 0 THEN n - 1 ELSE 0

(* record_success.                                                         *)
Closed(e, p) ==
  [state |-> "closed", failures |-> 0, elapsed |-> 0, probe |-> FALSE,
   inFlight |-> IF p.probe THEN e.inFlight ELSE Decrement(e.inFlight),
   generation |-> IF e.state # "closed" THEN e.generation + 1 ELSE e.generation]

RecordSuccess(t) ==
  LET k == permit[t].key IN
  /\ permit[t] # NoPermit
  /\ ReleasePermit(t)
  /\ \/ Ignored(t)
     \/ /\ Current(t)
        /\ entry' = [entry EXCEPT ![k] = Closed(@, permit[t])]
        /\ stale' = [Outdate(IF entry[k].state # "closed" THEN {k} ELSE {}, Callers)
                       EXCEPT ![t] = FALSE]
        /\ MoveToEnd(k)

(* Mutant: opening a circuit keeps its generation.                         *)
OpenedSameGeneration(e) ==
  [e EXCEPT !.state = "open", !.elapsed = 0, !.probe = FALSE, !.inFlight = 0]

(* record_failure, with _open.                                             *)
Opened(e) ==
  [e EXCEPT !.state = "open", !.elapsed = 0, !.probe = FALSE, !.inFlight = 0,
            !.generation = @ + 1]

Failed(e, p, countable) ==
  LET counted == [e EXCEPT !.inFlight = Decrement(@),
                           !.failures = IF countable THEN @ + 1 ELSE @]
  IN  IF p.probe THEN Opened(e)
      ELSE IF countable /\ counted.failures >= FailureThreshold THEN Opened(counted)
      ELSE counted

RecordFailure(t, countable) ==
  LET k == permit[t].key
      after == Failed(entry[k], permit[t], countable)
  IN
  /\ permit[t] # NoPermit
  /\ ReleasePermit(t)
  /\ \/ Ignored(t)
     \/ /\ Current(t)
        /\ entry' = [entry EXCEPT ![k] = after]
        /\ stale' = [Outdate(IF after.state = "open" THEN {k} ELSE {}, Callers)
                       EXCEPT ![t] = FALSE]
        /\ MoveToEnd(k)

(* The clock: the open circuits age.                                       *)
AgeCircuits ==
  entry' = [k \in Keys |-> IF entry[k].state = "open" /\ entry[k].elapsed < RecoveryTimeout
                           THEN [entry[k] EXCEPT !.elapsed = @ + 1]
                           ELSE entry[k]]

Tick == AgeCircuits /\ UNCHANGED <<order, permit, stale>>

BreakerNext ==
  \/ \E t \in Callers, k \in Keys :
       Acquire(t, k) \/ RefusedOpen(t, k) \/ RefusedCapacity(t, k)
  \/ \E t \in Callers : RecordSuccess(t)
  \/ \E t \in Callers, countable \in BOOLEAN : RecordFailure(t, countable)
  \/ Tick

BreakerSpec == BreakerInit /\ [][BreakerNext]_breakerVars

-----------------------------------------------------------------------------
(* At most one half-open probe of a provider is in flight, counting the    *)
(* ones admitted in earlier recoveries.                                    *)
OneProbe ==
  \A t, u \in Callers :
    permit[t].probe /\ permit[u].probe /\ permit[t].key = permit[u].key => t = u

(* While a probe runs its circuit waits for it, half-open, whatever late   *)
(* outcomes of older calls arrive.                                         *)
ProbeDecides ==
  \A t \in Callers : permit[t].probe =>
    LET e == entry[permit[t].key] IN
    e.state = "half_open" /\ e.probe /\ e.generation = permit[t].generation

(* A closed circuit's in-flight count is the number of calls it admitted   *)
(* in this generation that have not reported: neither late reports nor an  *)
(* opening in between make it drift.                                       *)
InFlightExact ==
  \A k \in Keys : Present(k) /\ entry[k].state = "closed" =>
    entry[k].inFlight =
      Cardinality({t \in Holders(k) : permit[t].generation = entry[k].generation})

(* The outcome of a call admitted before its circuit last opened or        *)
(* recovered changes no circuit (the generation test of record_success and *)
(* record_failure).                                                        *)
StaleOutcomeIgnored ==
  [][\A t \in Callers :
       stale[t] /\ permit[t] # NoPermit /\ permit'[t] = NoPermit
         => UNCHANGED <<order, entry>>]_breakerVars

(* What protects a failing provider is never forgotten to make room: an    *)
(* entry leaves the table only when it is closed, and the table is bounded.*)
Absent(k, seq) == \A i \in DOMAIN seq : seq[i] # k
OnlyClosedEvicted ==
  [][/\ Len(order') <= MaxEntries
     /\ \A k \in Keys : entry[k].state # "closed" => ~Absent(k, order')]_breakerVars

(* The circuits are exact: their fields are consistent, one probe decides, *)
(* and the calls in flight are counted, whatever late reports arrive.      *)
CircuitsAreExact == BreakerTypeOK /\ OneProbe /\ ProbeDecides /\ InFlightExact
=============================================================================
