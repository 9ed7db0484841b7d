-------------------------------- MODULE Catalog --------------------------------
(***************************************************************************)
(* LocalCatalogMonitor (local_runtime.py) over what local_catalog.py       *)
(* discovers: an immutable registry, rebuilt when a fingerprint of its     *)
(* inputs changes and served between checks, with the last complete one as *)
(* a fallback; and the decisions degraded.py takes on what is served.      *)
(* Files, lifecycle states and update pointers change at any moment, also  *)
(* between two steps of a refresh.                                         *)
(***************************************************************************)
EXTENDS RegistryRules, SequencesExt

CONSTANTS
  DiscoveryOrder, \* the manifests in the order of roots and paths
  NameOf,         \* the name by which an earlier root shadows a later one
  Malformed,      \* manifests validate_manifest_semantics refuses
  InitialSources, \* what may be there when the process starts
  Interval, LastGood, \* refresh interval and LOCAL_LAST_GOOD_MAX_AGE_SECONDS
  MaxEdits, MaxMoves, LastTick  \* bounds: edits of files and configuration, moves
                  \* of pointers, and the clock

NoPointer == "none"

ASSUME DiscoveryAssumption == DiscoveryOrder \in Seq(Manifests)
ASSUME SourcesAssumption ==
  \A s \in InitialSources :
    s = [files |-> s.files, off |-> {}, pointers |-> s.pointers, edits |-> 0, moves |-> s.moves]
      /\ s.moves \in Nat

VARIABLES
  source,     \* the inputs: files, switched-off coordinates, update pointers
  monitor,    \* _snapshot, _fingerprint, _next_check
  refresh,    \* the call of snapshot() that holds the lock; moves, and crossed in
              \* the snapshot, are history: whether pointers moved during it
  offered,     \* what the last call returned; failed: the last check failed,
              \* forced: the call that is served its failure forced the check
  tick        \* the clock

catalog == <<source, monitor, refresh, offered, tick>>

Unbuilt == [built |-> FALSE, observed |-> 0]
NotServed == [status |-> "none", observed |-> 0, forced |-> FALSE, failed |-> FALSE]

(* The fingerprint of the inputs.  Files enter it by path, size and        *)
(* modification time: edits counts the modifications.  Pointers enter it   *)
(* by their value: moved away and back, they look the same, and a build    *)
(* that read them in between keeps what they were away.                    *)
Fingerprint == [edits |-> source.edits, pointers |-> source.pointers]

CatalogInit ==
  /\ source \in InitialSources
  /\ monitor = [snapshot |-> Unbuilt, print |-> "", next |-> 0]
  /\ refresh = [pc |-> "idle"] /\ offered = NotServed /\ tick = 0

-----------------------------------------------------------------------------
(* The environment: other processes and the operator.                      *)

EditFile(m) ==
  /\ source.edits < MaxEdits
  /\ source' = [source EXCEPT !.files = IF m \in @ THEN @ \ {m} ELSE @ \union {m},
                              !.edits = @ + 1]
  /\ UNCHANGED <<monitor, refresh, offered, tick>>

(* An activation or rollback of UpdateStore moves a pointer.               *)
MovePointer(c, m) ==
  /\ CoordinateOf[m] = c /\ source.pointers[c] # m /\ source.moves < MaxMoves
  /\ source' = [source EXCEPT !.pointers[c] = m, !.moves = @ + 1]
  /\ UNCHANGED <<monitor, refresh, offered, tick>>

CatalogTick ==
  /\ tick < LastTick /\ tick' = tick + 1
  /\ UNCHANGED <<source, monitor, refresh, offered>>

-----------------------------------------------------------------------------
(* discover_local_catalog: of two manifests with one name the first wins.  *)
Position(m) == CHOOSE i \in DOMAIN DiscoveryOrder : DiscoveryOrder[i] = m
Discovered(files) ==
  {m \in files : \A n \in files : NameOf[n] = NameOf[m] => Position(m) <= Position(n)}

(* _build_snapshot registers what is well formed and activates, in rounds, *)
(* until a round activates nothing.  A coordinate with an update pointer   *)
(* activates that revision only.                                           *)
IsWanted(m, found, off, pointers) ==
  /\ m \in found /\ CoordinateOf[m] \notin off
  /\ pointers[CoordinateOf[m]] \in {NoPointer, m}
Wanted(found, off, pointers) ==
  LET kept[n \in 0..Len(DiscoveryOrder)] ==
        IF n = 0 THEN <<>>
        ELSE IF IsWanted(DiscoveryOrder[n], found, off, pointers)
        THEN Append(kept[n - 1], DiscoveryOrder[n]) ELSE kept[n - 1]
  IN kept[Len(DiscoveryOrder)]

With(act, m) == [c \in DOMAIN act \union {CoordinateOf[m]} |->
                   IF c = CoordinateOf[m] THEN m ELSE act[c]]
Attempt(round, m) ==
  IF Admissible(With(round.active, m), Isolate)
  THEN [active |-> With(round.active, m), left |-> round.left]
  ELSE [active |-> round.active, left |-> Append(round.left, m)]

Round(act, pending) ==
  LET tried[n \in 0..Len(pending)] ==
        IF n = 0 THEN [active |-> act, left |-> <<>>] ELSE Attempt(tried[n - 1], pending[n])
  IN tried[Len(pending)]

(* After a round that activates nothing the others do not either, so as    *)
(* many as there are manifests are enough.                                 *)
NobodyActive == [c \in {} |-> NoPointer]
Activation(pending) ==
  LET rounds[n \in 0..Len(pending)] ==
        IF n = 0 THEN [active |-> NobodyActive, left |-> pending]
        ELSE Round(rounds[n - 1].active, rounds[n - 1].left)
  IN rounds[Len(pending)].active
ActiveOf(found, off, pointers) == Activation(Wanted(found, off, pointers))

(* A pointer to a revision that is not registered fails the refresh.       *)
PointersResolve(found, pointers) ==
  \A c \in Coordinates : pointers[c] # NoPointer => pointers[c] \in found

-----------------------------------------------------------------------------
(* snapshot(): one call at a time, under the lock.                         *)

Serve(status, observed, failed) ==
  offered' = [status |-> status, observed |-> observed, failed |-> failed,
             forced |-> failed /\ refresh.pc # "idle" /\ refresh.forced]

(* Before the next check is due the last snapshot is served as it stands.  *)
ServeCached ==
  /\ refresh.pc = "idle" /\ monitor.snapshot.built /\ tick < monitor.next
  /\ Serve("fresh", monitor.snapshot.observed, offered.failed)
  /\ UNCHANGED <<source, monitor, refresh, tick>>

StartCheck(forced) ==
  /\ refresh.pc = "idle"
  /\ forced \/ ~monitor.snapshot.built \/ tick >= monitor.next
  /\ refresh' = [pc |-> "printed", forced |-> forced, print |-> Fingerprint, moves |-> source.moves]
  /\ UNCHANGED <<source, monitor, offered, tick>>

(* Nothing has changed: the snapshot counts as observed now.               *)
Revalidate ==
  /\ refresh.pc = "printed" /\ monitor.snapshot.built /\ refresh.print = monitor.print
  /\ monitor' = [monitor EXCEPT !.snapshot.observed = tick, !.next = tick + Interval]
  /\ Serve("fresh", tick, FALSE)
  /\ refresh' = [pc |-> "idle"] /\ UNCHANGED <<source, tick>>

Discover ==
  /\ refresh.pc = "printed"
  /\ ~(monitor.snapshot.built /\ refresh.print = monitor.print)
  /\ refresh' = [pc |-> "discovered", forced |-> refresh.forced, print |-> refresh.print,
                 moves |-> refresh.moves, found |-> Discovered(source.files) \ Malformed, off |-> source.off]
  /\ UNCHANGED <<source, monitor, offered, tick>>

(* The fingerprint kept with a snapshot is the one taken before the inputs *)
(* were read.                                                              *)
PrintAtEnd == Fingerprint  \* faulty
KeptPrint == refresh.print
Build ==
  /\ refresh.pc = "discovered" /\ PointersResolve(refresh.found, source.pointers)
  /\ monitor' = [print |-> KeptPrint, next |-> tick + Interval,
                 snapshot |-> [built |-> TRUE, observed |-> tick, found |-> refresh.found,
                               off |-> refresh.off, pointers |-> source.pointers,
                               crossed |-> source.moves # refresh.moves,
                               active |-> ActiveOf(refresh.found, refresh.off, source.pointers)]]
  /\ Serve("fresh", tick, FALSE)
  /\ refresh' = [pc |-> "idle"] /\ UNCHANGED <<source, tick>>

(* The last snapshot is served as stale, once: it is not marked, and the   *)
(* first build of all raises.                                              *)
FailRefresh ==
  /\ \/ refresh.pc = "discovered" /\ ~PointersResolve(refresh.found, source.pointers)
     \/ refresh.pc = "printed"    \* an input cannot be read
  /\ monitor' = [monitor EXCEPT !.next = tick + Interval]
  /\ IF monitor.snapshot.built
       THEN Serve("stale", monitor.snapshot.observed, TRUE)
       ELSE offered' = NotServed
  /\ refresh' = [pc |-> "idle"] /\ UNCHANGED <<source, tick>>

-----------------------------------------------------------------------------
(* local_dependency_observations and DegradedModePolicy.decide on the      *)
(* catalogue that was served.  The policy is always available; a provider  *)
(* that is missing denies lifecycle changes and is left out here.          *)

LastGoodTtl == 2 * Interval
ObservedAt == IF offered.status = "stale" THEN offered.observed ELSE tick
Effective == IF offered.status = "stale" THEN "stale"
             ELSE IF tick - ObservedAt > LastGoodTtl THEN "stale" ELSE "available"
Decision(operation) ==
  IF Effective = "available" THEN "allow"
  ELSE IF operation \in {"search", "load"} /\ tick - ObservedAt <= LastGood THEN "degraded"
  ELSE "deny"

(* local_set_lifecycle, when the coordinate is in the catalogue served and *)
(* the decision allows it: the configuration is written.                   *)
SetLifecycle(c, off) ==
  /\ offered.status # "none" /\ refresh.pc = "idle" /\ source.edits < MaxEdits
  /\ \E m \in monitor.snapshot.found : CoordinateOf[m] = c
  /\ Decision("lifecycle") = "allow"
  /\ source' = [source EXCEPT !.off = IF off THEN @ \union {c} ELSE @ \ {c}, !.edits = @ + 1]
  /\ UNCHANGED <<monitor, refresh, offered, tick>>

CatalogNext ==
  \/ \E m \in Manifests : EditFile(m)
  \/ \E c \in Coordinates : \/ \E m \in Manifests : MovePointer(c, m)
                            \/ \E off \in BOOLEAN : SetLifecycle(c, off)
  \/ CatalogTick
  \/ \E forced \in BOOLEAN : StartCheck(forced)
  \/ ServeCached \/ Revalidate \/ Discover \/ Build \/ FailRefresh

CatalogSpec == CatalogInit /\ [][CatalogNext]_catalog

-----------------------------------------------------------------------------
(* Properties.                                                             *)

(* No edit is missed: while the fingerprint kept with the snapshot is that *)
(* of the inputs, the snapshot was built from these files, states and      *)
(* pointers, however they changed while it was built; but not from these   *)
(* pointers if they moved during the build and moved back.                 *)
SnapshotIsCurrent ==
  LET s == monitor.snapshot IN
  s.built /\ monitor.print = Fingerprint =>
    /\ s.found = Discovered(source.files) \ Malformed
    /\ s.off = source.off
    /\ s.pointers = source.pointers \/ s.crossed

(* The active set is admissible and nothing that was wanted could still be *)
(* added: what is left out has a reason, not an unlucky order of files.    *)
ActivationIsMaximal ==
  LET s == monitor.snapshot IN
  s.built =>
    /\ Admissible(s.active, Isolate) /\ ManifestsIn(s.active) \subseteq s.found
    /\ \A m \in ToSet(Wanted(s.found, s.off, s.pointers)) :
         CoordinateOf[m] \notin DOMAIN s.active =>
           ~Admissible(With(s.active, m), Isolate)

(* A caller that forces a check is told the truth: it is served what was   *)
(* checked in that call, or the last good catalogue marked as stale, which *)
(* searches and loads accept only while it is young and a change of        *)
(* lifecycle never.                                                        *)
ForcedIsHonest ==
  offered.forced /\ offered.failed =>
    /\ offered.status = "stale" /\ Decision("lifecycle") = "deny"
    /\ Decision("search") # "deny" => tick - offered.observed <= LastGood

(* The comment in local_dependency_observations: a generation whose        *)
(* refresh failed stays tied to its original observation.                  *)
FailedRefreshIsTied ==
  offered.failed => ObservedAt = offered.observed

(* What is offered is what the inputs said, as much of it as fits          *)
(* together, and whoever forces a check is told when it failed.            *)
CatalogIsHonest == SnapshotIsCurrent /\ ActivationIsMaximal /\ ForcedIsHonest
=============================================================================
