---------------------------- MODULE LifecycleProofs ----------------------------
(***************************************************************************)
(* The properties of DrainController for any capabilities, revisions, pins *)
(* and capacities.  The inductive invariant is a predicate of a controller *)
(* record, Good: the properties themselves, and that nothing is pinned on, *)
(* and no capability known without, a registered revision.  Then those of  *)
(* Supervision, for any threads and references.                            *)
(***************************************************************************)
EXTENDS DrainController, Supervision, TLAPS

Holds(d, p, r) == d.pins[p] # NoPin /\ d.pins[p].revision = r

IdleWhenRetired(d) ==
  \A r \in Revisions : d.revisions[r] = "retired" /\ r \notin d.forced =>
    \A p \in PinIds : ~Holds(d, p, r)

BusyWhenDraining(d) ==
  \A r \in Revisions : d.revisions[r] = "draining" => \E p \in PinIds : Holds(d, p, r)

RetiredThroughout(d, c) ==
  d.coordinates[c] = "retired" =>
    \A r \in RevisionsOf(c) : d.revisions[r] \in {"unknown", "retired"}

NowhereAccepting(d, c) ==
  d.coordinates[c] = "draining" => \A r \in RevisionsOf(c) : d.revisions[r] # "accepting"

SomewhereDraining(d, c) ==
  d.coordinates[c] = "draining" => \E r \in RevisionsOf(c) : d.revisions[r] = "draining"

HasRevision(d, c) ==
  d.coordinates[c] # "unknown" => \E r \in RevisionsOf(c) : d.revisions[r] # "unknown"

PinsPlaced(d) ==
  \A p \in PinIds : d.pins[p] # NoPin => d.revisions[d.pins[p].revision] # "unknown"

AskedRightly(d) ==
  \A p \in PinIds : d.pins[p] # NoPin /\ d.pins[p].asked =>
    d.pins[p].cancellable /\ d.revisions[d.pins[p].revision] # "accepting"

(* All of the invariant but for what _maybe_retire_coordinate establishes. *)
Almost(d) ==
  /\ d \in Controllers
  /\ IdleWhenRetired(d)
  /\ BusyWhenDraining(d)
  /\ \A c \in Coordinates :
       RetiredThroughout(d, c) /\ NowhereAccepting(d, c) /\ HasRevision(d, c)
  /\ PinsPlaced(d)
  /\ AskedRightly(d)

Good(d) == Almost(d) /\ \A c \in Coordinates : SomewhereDraining(d, c)

IInv == Good(drain)

-----------------------------------------------------------------------------
(* A pin is a record, so it is not NoPin.                                  *)
LEMMA PinIsNotNoPin == \A x \in Pins : x # NoPin
  BY ControllerAssumption DEF Pins

(* What asking a pin does to it.                                           *)
LEMMA AskedPin ==
  ASSUME NEW x \in Pins
  PROVE  LET y == [x EXCEPT !.asked = TRUE] IN
         y \in Pins /\ y.revision = x.revision /\ y.cancellable = x.cancellable
  BY DEF Pins

LEMMA EmptyIsGood == Good(Empty)
  <1>1. Empty \in Controllers
    BY DEF Empty, Controllers, States
  <1>2. QED
    BY <1>1 DEF Good, Almost, Empty, IdleWhenRetired, BusyWhenDraining, RetiredThroughout,
      NowhereAccepting, SomewhereDraining, HasRevision, PinsPlaced, AskedRightly

(* _maybe_retire_coordinate restores the invariant for its capability.     *)
LEMMA Settled ==
  ASSUME NEW d, Almost(d), NEW k \in Coordinates,
         \A c \in Coordinates \ {k} : SomewhereDraining(d, c)
  PROVE  Good(SettleCoordinate(d, k))
  <1> DEFINE e == SettleCoordinate(d, k)
  <1>1. d \in Controllers
    BY DEF Almost
  <1>2. CASE ~(/\ d.coordinates[k] = "draining"
               /\ \A r \in RevisionsOf(k) \cap Registered(d) : d.revisions[r] = "retired")
    <2>1. e = d
      BY <1>2 DEF SettleCoordinate
    <2>2. SomewhereDraining(d, k)
      BY <1>1, <1>2 DEF Almost, SomewhereDraining, NowhereAccepting, Controllers, States,
        Registered, RevisionsOf
    <2>3. QED
      BY <2>1, <2>2 DEF Good
  <1>3. CASE /\ d.coordinates[k] = "draining"
             /\ \A r \in RevisionsOf(k) \cap Registered(d) : d.revisions[r] = "retired"
    <2>1. e = [d EXCEPT !.coordinates[k] = "retired"]
      BY <1>3 DEF SettleCoordinate
    <2>2. /\ e \in Controllers
          /\ e.coordinates = [d.coordinates EXCEPT ![k] = "retired"]
          /\ e.revisions = d.revisions /\ e.pins = d.pins /\ e.forced = d.forced
      BY <1>1, <2>1 DEF Controllers, States
    <2>3. \A c \in Coordinates : e.coordinates[c] = IF c = k THEN "retired" ELSE d.coordinates[c]
      BY <1>1, <2>2 DEF Controllers
    <2>4. RetiredThroughout(e, k) /\ HasRevision(e, k)
      BY <1>1, <1>3, <2>2 DEF Almost, RetiredThroughout, HasRevision, Registered, RevisionsOf
    <2>5. \A c \in Coordinates : RetiredThroughout(e, c) /\ NowhereAccepting(e, c) /\ HasRevision(e, c)
      BY <2>2, <2>3, <2>4 DEF Almost, RetiredThroughout, HasRevision, NowhereAccepting
    <2>6. \A c \in Coordinates : SomewhereDraining(e, c)
      BY <2>2, <2>3 DEF SomewhereDraining
    <2>7. IdleWhenRetired(e) /\ BusyWhenDraining(e) /\ PinsPlaced(e) /\ AskedRightly(e)
      BY <2>2 DEF Almost, IdleWhenRetired, BusyWhenDraining, PinsPlaced, AskedRightly, Holds
    <2>8. QED
      BY <2>2, <2>5, <2>6, <2>7 DEF Good, Almost
  <1>4. QED
    BY <1>2, <1>3

-----------------------------------------------------------------------------
(* The steps.                                                              *)

LEMMA RegisterGood ==
  ASSUME NEW d, Good(d), NEW r \in Revisions, CanRegister(d, r)
  PROVE  Good(Register(d, r))
  <1> DEFINE e == Register(d, r)
             k == CoordinateOf[r]
  <1>1. d \in Controllers /\ k \in Coordinates /\ d.revisions[r] = "unknown"
        /\ d.coordinates[k] \in {"unknown", "accepting"}
    BY ControllerAssumption DEF Good, Almost, CanRegister, Registered
  <1>2. /\ e \in Controllers
        /\ e.revisions = [d.revisions EXCEPT ![r] = "accepting"]
        /\ e.coordinates = [d.coordinates EXCEPT ![k] = "accepting"]
        /\ e.pins = d.pins /\ e.forced = d.forced
    BY <1>1 DEF Register, Controllers, States
  <1>3. /\ \A x \in Revisions : e.revisions[x] = IF x = r THEN "accepting" ELSE d.revisions[x]
        /\ \A c \in Coordinates : e.coordinates[c] = IF c = k THEN "accepting" ELSE d.coordinates[c]
    BY <1>1, <1>2 DEF Controllers
  <1>4. IdleWhenRetired(e) /\ BusyWhenDraining(e) /\ PinsPlaced(e)
    BY <1>2, <1>3 DEF Good, Almost, IdleWhenRetired, BusyWhenDraining, PinsPlaced, Holds
  <1>5. AskedRightly(e)
    BY <1>1, <1>2, <1>3 DEF Good, Almost, AskedRightly, PinsPlaced
  <1>6. r \in RevisionsOf(k) /\ \A c \in Coordinates \ {k} : r \notin RevisionsOf(c)
    BY DEF RevisionsOf
  <1>7. \A c \in Coordinates : /\ RetiredThroughout(e, c) /\ NowhereAccepting(e, c)
                               /\ HasRevision(e, c) /\ SomewhereDraining(e, c)
    BY <1>1, <1>3, <1>6 DEF Good, Almost, RetiredThroughout, NowhereAccepting, HasRevision,
      SomewhereDraining, RevisionsOf
  <1>8. QED
    BY <1>2, <1>4, <1>5, <1>7 DEF Good, Almost

LEMMA AdmitGood ==
  ASSUME NEW d, Good(d), NEW r \in Revisions, NEW p \in PinIds, NEW cancellable \in BOOLEAN,
         CanAdmit(d, r, p, cancellable)
  PROVE  Good(Admit(d, r, p, cancellable))
  <1> DEFINE e == Admit(d, r, p, cancellable)
             x == [revision |-> r, cancellable |-> cancellable, asked |-> FALSE]
  <1>1. CASE d.pins[p] # NoPin
    BY <1>1 DEF Admit
  <1>2. CASE d.pins[p] = NoPin
    <2>1. d \in Controllers /\ d.revisions[r] = "accepting" /\ x \in Pins
      BY DEF Good, Almost, CanAdmit, Accepts, Pins
    <2>2. /\ e \in Controllers
          /\ e.pins = [d.pins EXCEPT ![p] = x]
          /\ e.revisions = d.revisions /\ e.coordinates = d.coordinates /\ e.forced = d.forced
      BY <1>2, <2>1 DEF Admit, Controllers
    <2>3. \A q \in PinIds : e.pins[q] = IF q = p THEN x ELSE d.pins[q]
      BY <2>1, <2>2 DEF Controllers
    <2>4. IdleWhenRetired(e) /\ PinsPlaced(e) /\ AskedRightly(e)
      BY <2>1, <2>2, <2>3 DEF Good, Almost, IdleWhenRetired, PinsPlaced, AskedRightly, Holds
    <2>5. BusyWhenDraining(e)
      BY <1>2, <2>2, <2>3 DEF Good, Almost, BusyWhenDraining, Holds
    <2>6. \A c \in Coordinates : /\ RetiredThroughout(e, c) /\ NowhereAccepting(e, c)
                                 /\ HasRevision(e, c) /\ SomewhereDraining(e, c)
      BY <2>2 DEF Good, Almost, RetiredThroughout, NowhereAccepting, HasRevision, SomewhereDraining
    <2>7. QED
      BY <2>2, <2>4, <2>5, <2>6 DEF Good, Almost
  <1>3. QED
    BY <1>1, <1>2

LEMMA AdvanceGood ==
  ASSUME NEW d, Good(d), NEW T \in SUBSET Revisions,
         \A r \in T : d.revisions[r] # "accepting"
  PROVE  Good(Advance(d, T))
  <1> DEFINE e == Advance(d, T)
  <1>1. d \in Controllers
    BY DEF Good, Almost
  <1>2. \A p \in Askable(d, T) : d.pins[p] \in Pins /\ d.pins[p].revision \in T
                                 /\ d.pins[p].cancellable
    BY <1>1 DEF Askable, TargetPins, InFlight, Controllers
  <1>3. /\ e.pins = [p \in PinIds |->
              IF p \in Askable(d, T) THEN [d.pins[p] EXCEPT !.asked = TRUE] ELSE d.pins[p]]
        /\ e.revisions = d.revisions /\ e.coordinates = d.coordinates /\ e.forced = d.forced
    BY <1>1 DEF Advance, Controllers
  <1>4. \A p \in PinIds :
          /\ p \in Askable(d, T) => /\ e.pins[p] \in Pins
                                    /\ e.pins[p].revision = d.pins[p].revision
                                    /\ e.pins[p].cancellable = d.pins[p].cancellable
                                    /\ e.pins[p] # NoPin /\ d.pins[p] # NoPin
          /\ p \notin Askable(d, T) => e.pins[p] = d.pins[p]
    <2> SUFFICES ASSUME NEW p \in PinIds, p \in Askable(d, T)
                 PROVE  /\ e.pins[p] \in Pins
                        /\ e.pins[p].revision = d.pins[p].revision
                        /\ e.pins[p].cancellable = d.pins[p].cancellable
                        /\ e.pins[p] # NoPin /\ d.pins[p] # NoPin
      BY <1>3
    <2>1. d.pins[p] \in Pins
      BY <1>2
    <2>2. e.pins[p] = [d.pins[p] EXCEPT !.asked = TRUE]
      BY <1>3
    <2>3. QED
      BY <2>1, <2>2, AskedPin, PinIsNotNoPin
  <1>5. e \in Controllers
    <2>1. e.pins \in [PinIds -> Pins \cup {NoPin}]
      BY <1>1, <1>3, <1>4 DEF Controllers
    <2>2. QED
      BY <1>1, <1>3, <2>1 DEF Advance, Controllers
  <1>6. \A p \in PinIds, r \in Revisions : Holds(e, p, r) <=> Holds(d, p, r)
    BY <1>4 DEF Holds
  <1>7. IdleWhenRetired(e) /\ BusyWhenDraining(e)
    BY <1>3, <1>6 DEF Good, Almost, IdleWhenRetired, BusyWhenDraining
  <1>8. PinsPlaced(e)
    BY <1>3, <1>4 DEF Good, Almost, PinsPlaced
  <1>9. AskedRightly(e)
    BY <1>2, <1>3, <1>4 DEF Good, Almost, AskedRightly
  <1>10. \A c \in Coordinates : /\ RetiredThroughout(e, c) /\ NowhereAccepting(e, c)
                                /\ HasRevision(e, c) /\ SomewhereDraining(e, c)
    BY <1>3 DEF Good, Almost, RetiredThroughout, NowhereAccepting, HasRevision, SomewhereDraining
  <1>11. QED
    BY <1>5, <1>7, <1>8, <1>9, <1>10 DEF Good, Almost

(* What revisions that only go forward leave of a capability's state.      *)
Forward(d, e, x) ==
  \/ e.revisions[x] = d.revisions[x]
  \/ d.revisions[x] = "draining" /\ e.revisions[x] = "retired"
  \/ d.revisions[x] = "accepting" /\ e.revisions[x] \in {"draining", "retired"}

LEMMA CapabilityKept ==
  ASSUME NEW d, NEW e, Almost(d), NEW c \in Coordinates,
         e.coordinates[c] = d.coordinates[c],
         \A x \in RevisionsOf(c) : Forward(d, e, x)
  PROVE  RetiredThroughout(e, c) /\ NowhereAccepting(e, c) /\ HasRevision(e, c)
  <1>1. RetiredThroughout(d, c) /\ NowhereAccepting(d, c) /\ HasRevision(d, c)
    BY DEF Almost
  <1>2. RetiredThroughout(e, c)
    BY <1>1 DEF RetiredThroughout, Forward
  <1>3. NowhereAccepting(e, c)
    BY <1>1 DEF NowhereAccepting, Forward
  <1>4. HasRevision(e, c)
    BY <1>1 DEF HasRevision, Forward
  <1>5. QED
    BY <1>2, <1>3, <1>4

LEMMA DrainingKept ==
  ASSUME NEW d, NEW e, NEW c \in Coordinates, SomewhereDraining(d, c),
         e.coordinates[c] = d.coordinates[c],
         \A x \in RevisionsOf(c) : e.revisions[x] = d.revisions[x]
  PROVE  SomewhereDraining(e, c)
  BY DEF SomewhereDraining

(* Executions were asked rightly as long as no revision returns to service.*)
LEMMA AskedKept ==
  ASSUME NEW d \in Controllers, NEW e, AskedRightly(d), e.pins = d.pins,
         \A x \in Revisions : e.revisions[x] = "accepting" => d.revisions[x] = "accepting"
  PROVE  AskedRightly(e)
  <1> SUFFICES ASSUME NEW p \in PinIds, d.pins[p] # NoPin, d.pins[p].asked
               PROVE  d.pins[p].cancellable /\ e.revisions[d.pins[p].revision] # "accepting"
    BY DEF AskedRightly
  <1>1. d.pins[p].revision \in Revisions
    BY DEF Controllers, Pins
  <1>2. QED
    BY <1>1 DEF AskedRightly

(* release: the pin is dropped, the revision it was the last one of retires,*)
(* and the capability is settled.                                          *)
LEMMA ReleaseGood ==
  ASSUME NEW d, Good(d), NEW p \in PinIds, d.pins[p] # NoPin
  PROVE  Good(Release(d, p))
  <1> DEFINE r == d.pins[p].revision
             k == CoordinateOf[r]
             d1 == [d EXCEPT !.pins[p] = NoPin]
             e == RetireIdle(d1, {r})
  <1>1. d \in Controllers /\ d.pins[p] \in Pins /\ r \in Revisions /\ k \in Coordinates
    BY ControllerAssumption DEF Good, Almost, Controllers, Pins
  <1>2. /\ d1 \in Controllers
        /\ d1.pins = [d.pins EXCEPT ![p] = NoPin]
        /\ d1.revisions = d.revisions /\ d1.coordinates = d.coordinates /\ d1.forced = d.forced
    BY <1>1 DEF Controllers
  <1>3. /\ e \in Controllers
        /\ e.pins = d1.pins /\ e.coordinates = d.coordinates /\ e.forced = d.forced
        /\ \A x \in Revisions :
             e.revisions[x] = IF x = r /\ d.revisions[x] = "draining" /\ PinsOf(d1, x) = {}
                              THEN "retired" ELSE d.revisions[x]
    BY <1>1, <1>2 DEF RetireIdle, Controllers, States
  <1>4. \A q \in PinIds : e.pins[q] = IF q = p THEN NoPin ELSE d.pins[q]
    BY <1>1, <1>2, <1>3 DEF Controllers
  <1>5. \A q \in PinIds, x \in Revisions : Holds(e, q, x) <=> q # p /\ Holds(d, q, x)
    BY <1>4 DEF Holds
  <1>6. \A x \in Revisions : PinsOf(d1, x) = {} <=> \A q \in PinIds : ~Holds(e, q, x)
    <2>1. e.pins = d1.pins
      BY <1>3
    <2> HIDE DEF d1, e
    <2> QED
      BY <2>1 DEF PinsOf, Holds
  <1>7. IdleWhenRetired(e)
    BY <1>3, <1>5, <1>6 DEF Good, Almost, IdleWhenRetired
  <1>8. BusyWhenDraining(e)
    <2> SUFFICES ASSUME NEW x \in Revisions, e.revisions[x] = "draining"
                 PROVE  \E q \in PinIds : Holds(e, q, x)
      BY DEF BusyWhenDraining
    <2>1. d.revisions[x] = "draining"
      BY <1>3
    <2>2. CASE x = r
      BY <1>3, <1>6, <2>1, <2>2
    <2>3. CASE x # r
      <3>1. PICK q \in PinIds : Holds(d, q, x)
        BY <2>1 DEF Good, Almost, BusyWhenDraining
      <3>2. q # p
        BY <2>3, <3>1 DEF Holds
      <3>3. QED
        BY <1>5, <3>1, <3>2
    <2>4. QED
      BY <2>2, <2>3
  <1>9. PinsPlaced(e) /\ AskedRightly(e)
    <2>1. \A q \in PinIds : e.pins[q] # NoPin =>
             e.pins[q] = d.pins[q] /\ d.pins[q].revision \in Revisions
      BY <1>1, <1>4 DEF Controllers, Pins
    <2>2. \A x \in Revisions : Forward(d, e, x)
      BY <1>3 DEF Forward
    <2>3. PinsPlaced(d) /\ AskedRightly(d)
      BY DEF Good, Almost
    <2> HIDE DEF e
    <2>4. PinsPlaced(e)
      BY <2>1, <2>2, <2>3 DEF PinsPlaced, Forward
    <2>5. AskedRightly(e)
      BY <2>1, <2>2, <2>3 DEF AskedRightly, Forward
    <2>6. QED
      BY <2>4, <2>5
  <1>11. \A c \in Coordinates :
           RetiredThroughout(e, c) /\ NowhereAccepting(e, c) /\ HasRevision(e, c)
    <2> SUFFICES ASSUME NEW c \in Coordinates
                 PROVE  RetiredThroughout(e, c) /\ NowhereAccepting(e, c) /\ HasRevision(e, c)
      OBVIOUS
    <2>1. \A x \in RevisionsOf(c) : Forward(d, e, x)
      BY <1>3 DEF Forward, RevisionsOf
    <2>2. e.coordinates[c] = d.coordinates[c] /\ Almost(d)
      BY <1>3 DEF Good
    <2> HIDE DEF e
    <2>3. QED
      BY <2>1, <2>2, CapabilityKept
  <1>12. \A c \in Coordinates \ {k} : SomewhereDraining(e, c)
    <2> SUFFICES ASSUME NEW c \in Coordinates \ {k}
                 PROVE  SomewhereDraining(e, c)
      OBVIOUS
    <2>1. \A x \in RevisionsOf(c) : x # r /\ x \in Revisions
      BY DEF RevisionsOf
    <2>2. \A x \in RevisionsOf(c) : e.revisions[x] = d.revisions[x]
      BY <1>3, <2>1
    <2>3. e.coordinates[c] = d.coordinates[c] /\ SomewhereDraining(d, c)
      BY <1>3 DEF Good
    <2> HIDE DEF e
    <2>4. QED
      BY <2>2, <2>3, DrainingKept
  <1>13. Almost(e)
    BY <1>3, <1>7, <1>8, <1>9, <1>11 DEF Almost
  <1>14. Good(SettleCoordinate(e, k))
    <2> HIDE DEF e
    <2> QED
      BY <1>1, <1>12, <1>13, Settled
  <1>15. QED
    BY <1>14 DEF Release

(* begin_drain of revisions, all of them of a capability that still        *)
(* accepts, or every revision of a capability that begins to drain.        *)
LEMMA BeginEffect ==
  ASSUME NEW d \in Controllers, NEW T \in SUBSET Revisions
  PROVE  LET e == BeginRevisionDrain(d, T) IN
         /\ e \in Controllers
         /\ e.pins = d.pins /\ e.coordinates = d.coordinates /\ e.forced = d.forced
         /\ \A x \in Revisions :
              e.revisions[x] = IF x \in T /\ d.revisions[x] = "accepting"
                               THEN IF PinsOf(d, x) = {} THEN "retired" ELSE "draining"
                               ELSE d.revisions[x]
  <1> DEFINE d1 == [d EXCEPT !.revisions = [r \in Revisions |->
                      IF r \in T /\ @[r] = "accepting" THEN "draining" ELSE @[r]]]
             A  == {r \in T : d.revisions[r] = "accepting"}
             e  == RetireIdle(d1, A)
  <1>1. /\ d1 \in Controllers
        /\ d1.pins = d.pins /\ d1.coordinates = d.coordinates /\ d1.forced = d.forced
        /\ \A x \in Revisions :
             d1.revisions[x] = IF x \in T /\ d.revisions[x] = "accepting"
                               THEN "draining" ELSE d.revisions[x]
    BY DEF Controllers, States
  <1>2. \A x \in Revisions : PinsOf(d1, x) = PinsOf(d, x)
    BY <1>1 DEF PinsOf
  <1>3. /\ e \in Controllers
        /\ e.pins = d1.pins /\ e.coordinates = d1.coordinates /\ e.forced = d1.forced
        /\ \A x \in Revisions :
             e.revisions[x] = IF x \in A /\ d1.revisions[x] = "draining" /\ PinsOf(d1, x) = {}
                              THEN "retired" ELSE d1.revisions[x]
    BY <1>1 DEF RetireIdle, Controllers, States
  <1>4. QED
    BY <1>1, <1>2, <1>3 DEF BeginRevisionDrain

LEMMA DrainRevisionGood ==
  ASSUME NEW d, Good(d), NEW r \in Registered(d)
  PROVE  Good(BeginRevisionDrain(d, {r}))
  <1> DEFINE e == BeginRevisionDrain(d, {r})
  <1>1. d \in Controllers /\ r \in Revisions
    BY DEF Good, Almost, Registered
  <1>2. /\ e \in Controllers
        /\ e.pins = d.pins /\ e.coordinates = d.coordinates /\ e.forced = d.forced
        /\ \A x \in Revisions :
             e.revisions[x] = IF x = r /\ d.revisions[x] = "accepting"
                              THEN IF PinsOf(d, x) = {} THEN "retired" ELSE "draining"
                              ELSE d.revisions[x]
    BY <1>1, BeginEffect
  <1>3. \A x \in Revisions : PinsOf(d, x) = {} <=> \A q \in PinIds : ~Holds(d, q, x)
    BY DEF PinsOf, Holds
  <1>4. \A q \in PinIds, x \in Revisions : Holds(e, q, x) <=> Holds(d, q, x)
    BY <1>2 DEF Holds
  <1>5. IdleWhenRetired(e) /\ BusyWhenDraining(e)
    BY <1>2, <1>3, <1>4 DEF Good, Almost, IdleWhenRetired, BusyWhenDraining
  <1>6. PinsPlaced(e)
    BY <1>1, <1>2 DEF Good, Almost, PinsPlaced, Controllers, Pins
  <1>7. AskedRightly(e)
    BY <1>1, <1>2, AskedKept DEF Good, Almost
  <1>8. \A c \in Coordinates : /\ RetiredThroughout(e, c) /\ NowhereAccepting(e, c)
                               /\ HasRevision(e, c) /\ SomewhereDraining(e, c)
    <2> SUFFICES ASSUME NEW c \in Coordinates
                 PROVE  /\ RetiredThroughout(e, c) /\ NowhereAccepting(e, c)
                        /\ HasRevision(e, c) /\ SomewhereDraining(e, c)
      OBVIOUS
    <2>1. \A x \in RevisionsOf(c) : Forward(d, e, x)
      BY <1>2 DEF Forward, RevisionsOf
    <2>2. e.coordinates[c] = d.coordinates[c] /\ Almost(d) /\ SomewhereDraining(d, c)
          /\ NowhereAccepting(d, c)
      BY <1>2 DEF Good, Almost
    <2>3. SomewhereDraining(e, c)
      <3> SUFFICES ASSUME e.coordinates[c] = "draining"
                   PROVE  \E x \in RevisionsOf(c) : e.revisions[x] = "draining"
        BY DEF SomewhereDraining
      <3>1. PICK x \in RevisionsOf(c) : d.revisions[x] = "draining"
        BY <2>2 DEF SomewhereDraining
      <3>2. x \in Revisions
        BY DEF RevisionsOf
      <3>3. e.revisions[x] = "draining"
        BY <1>2, <3>1, <3>2
      <3>4. QED
        BY <3>3
    <2> HIDE DEF e
    <2>4. QED
      BY <2>1, <2>2, <2>3, CapabilityKept
  <1>9. QED
    BY <1>2, <1>5, <1>6, <1>7, <1>8 DEF Good, Almost

LEMMA DrainCoordinateGood ==
  ASSUME NEW d, Good(d), NEW k \in Known(d)
  PROVE  Good(BeginCoordinateDrain(d, k))
  <1> DEFINE d1 == [d EXCEPT !.coordinates[k] = IF @ = "accepting" THEN "draining" ELSE @]
             e  == BeginRevisionDrain(d1, RevisionsOf(k))
  <1>1. d \in Controllers /\ k \in Coordinates /\ RevisionsOf(k) \in SUBSET Revisions
    BY DEF Good, Almost, Known, RevisionsOf
  <1>2. /\ d1 \in Controllers
        /\ d1.pins = d.pins /\ d1.revisions = d.revisions /\ d1.forced = d.forced
        /\ \A c \in Coordinates :
             d1.coordinates[c] = IF c = k /\ d.coordinates[c] = "accepting"
                                 THEN "draining" ELSE d.coordinates[c]
    BY <1>1 DEF Controllers, States
  <1>3. /\ e \in Controllers
        /\ e.pins = d.pins /\ e.coordinates = d1.coordinates /\ e.forced = d.forced
        /\ \A x \in Revisions :
             e.revisions[x] = IF x \in RevisionsOf(k) /\ d.revisions[x] = "accepting"
                              THEN IF PinsOf(d1, x) = {} THEN "retired" ELSE "draining"
                              ELSE d.revisions[x]
    <2> HIDE DEF d1
    <2> QED
      BY <1>1, <1>2, BeginEffect
  <1>4. \A x \in Revisions : PinsOf(d1, x) = {} <=> \A q \in PinIds : ~Holds(d, q, x)
    BY <1>2 DEF PinsOf, Holds
  <1>5. \A q \in PinIds, x \in Revisions : Holds(e, q, x) <=> Holds(d, q, x)
    BY <1>3 DEF Holds
  <1>6. IdleWhenRetired(e) /\ BusyWhenDraining(e)
    BY <1>3, <1>4, <1>5 DEF Good, Almost, IdleWhenRetired, BusyWhenDraining
  <1>7. PinsPlaced(e)
    BY <1>1, <1>3 DEF Good, Almost, PinsPlaced, Controllers, Pins
  <1>8. AskedRightly(e)
    BY <1>1, <1>3, AskedKept DEF Good, Almost
  <1> HIDE DEF e, d1
  <1>9. \A c \in Coordinates \ {k} :
          /\ RetiredThroughout(e, c) /\ NowhereAccepting(e, c)
          /\ HasRevision(e, c) /\ SomewhereDraining(e, c)
    <2> SUFFICES ASSUME NEW c \in Coordinates \ {k}
                 PROVE  /\ RetiredThroughout(e, c) /\ NowhereAccepting(e, c)
                        /\ HasRevision(e, c) /\ SomewhereDraining(e, c)
      OBVIOUS
    <2>1. \A x \in RevisionsOf(c) : x \in Revisions /\ x \notin RevisionsOf(k)
      BY DEF RevisionsOf
    <2>2. \A x \in RevisionsOf(c) : e.revisions[x] = d.revisions[x]
      BY <1>3, <2>1
    <2>3. \A x \in RevisionsOf(c) : Forward(d, e, x)
      BY <2>2 DEF Forward
    <2>4. e.coordinates[c] = d.coordinates[c] /\ Almost(d) /\ SomewhereDraining(d, c)
      BY <1>2, <1>3 DEF Good
    <2>5. QED
      BY <2>2, <2>3, <2>4, CapabilityKept, DrainingKept
  <1>10. \A x \in RevisionsOf(k) : Forward(d, e, x) /\ e.revisions[x] # "accepting"
    BY <1>3 DEF Forward, RevisionsOf
  <1>11. RetiredThroughout(e, k) /\ NowhereAccepting(e, k) /\ HasRevision(e, k)
    <2>1. /\ RetiredThroughout(d, k) /\ HasRevision(d, k)
          /\ d.coordinates[k] # "unknown"
          /\ e.coordinates[k] = "retired" => d.coordinates[k] = "retired"
      BY <1>1, <1>2, <1>3 DEF Good, Almost, Known
    <2>2. RetiredThroughout(e, k)
      BY <1>10, <2>1 DEF RetiredThroughout, Forward
    <2>3. NowhereAccepting(e, k)
      BY <1>10 DEF NowhereAccepting
    <2>4. HasRevision(e, k)
      BY <1>10, <2>1 DEF HasRevision, Forward
    <2>5. QED
      BY <2>2, <2>3, <2>4
  <1>12. Almost(e)
    BY <1>3, <1>6, <1>7, <1>8, <1>9, <1>11 DEF Almost
  <1>13. Good(SettleCoordinate(e, k))
    BY <1>1, <1>9, <1>12, Settled
  <1>14. QED
    BY <1>13 DEF BeginCoordinateDrain, d1, e

(* force_retire of a draining revision, with whatever it still holds.      *)
LEMMA ForceRevisionGood ==
  ASSUME NEW d, Good(d), NEW r \in Revisions, d.revisions[r] = "draining"
  PROVE  Good(ForceRevision(d, r))
  <1> DEFINE k == CoordinateOf[r]
             e == [d EXCEPT !.revisions[r] = "retired", !.forced = @ \cup {r}]
  <1>1. d \in Controllers /\ k \in Coordinates
    BY ControllerAssumption DEF Good, Almost
  <1>2. /\ e \in Controllers
        /\ e.pins = d.pins /\ e.coordinates = d.coordinates /\ e.forced = d.forced \cup {r}
        /\ \A x \in Revisions : e.revisions[x] = IF x = r THEN "retired" ELSE d.revisions[x]
    <2>1. /\ e.pins = d.pins /\ e.coordinates = d.coordinates
          /\ e.forced = d.forced \cup {r}
          /\ e.revisions = [d.revisions EXCEPT ![r] = "retired"]
      BY <1>1 DEF Controllers
    <2>2. e.revisions \in [Revisions -> States]
      BY <1>1, <2>1 DEF Controllers, States
    <2>3. e \in Controllers
      BY <1>1, <2>1, <2>2 DEF Controllers
    <2>4. QED
      BY <1>1, <2>1, <2>3 DEF Controllers
  <1>3. ForceRevision(d, r) = SettleCoordinate(e, k)
    BY DEF ForceRevision
  <1> HIDE DEF e
  <1>4. \A q \in PinIds, x \in Revisions : Holds(e, q, x) <=> Holds(d, q, x)
    BY <1>2 DEF Holds
  <1>5. IdleWhenRetired(e) /\ BusyWhenDraining(e)
    BY <1>2, <1>4 DEF Good, Almost, IdleWhenRetired, BusyWhenDraining
  <1>6. PinsPlaced(e) /\ AskedRightly(e)
    BY <1>1, <1>2, AskedKept DEF Good, Almost, PinsPlaced, Controllers, Pins
  <1>7. \A c \in Coordinates :
          RetiredThroughout(e, c) /\ NowhereAccepting(e, c) /\ HasRevision(e, c)
    <2> SUFFICES ASSUME NEW c \in Coordinates
                 PROVE  RetiredThroughout(e, c) /\ NowhereAccepting(e, c) /\ HasRevision(e, c)
      OBVIOUS
    <2>1. \A x \in RevisionsOf(c) : Forward(d, e, x)
      BY <1>2 DEF Forward, RevisionsOf
    <2>2. e.coordinates[c] = d.coordinates[c] /\ Almost(d)
      BY <1>2 DEF Good
    <2>3. QED
      BY <2>1, <2>2, CapabilityKept
  <1>8. \A c \in Coordinates \ {k} : SomewhereDraining(e, c)
    <2> SUFFICES ASSUME NEW c \in Coordinates \ {k}
                 PROVE  SomewhereDraining(e, c)
      OBVIOUS
    <2>1. \A x \in RevisionsOf(c) : x # r /\ x \in Revisions
      BY DEF RevisionsOf
    <2>2. \A x \in RevisionsOf(c) : e.revisions[x] = d.revisions[x]
      BY <1>2, <2>1
    <2>3. e.coordinates[c] = d.coordinates[c] /\ SomewhereDraining(d, c)
      BY <1>2 DEF Good
    <2>4. QED
      BY <2>2, <2>3, DrainingKept
  <1>9. Almost(e)
    BY <1>2, <1>5, <1>6, <1>7 DEF Almost
  <1>10. QED
    BY <1>1, <1>3, <1>8, <1>9, Settled

(* force_retire of a draining capability.                                  *)
LEMMA ForceCoordinateGood ==
  ASSUME NEW d, Good(d), NEW k \in Coordinates, d.coordinates[k] = "draining"
  PROVE  Good(ForceCoordinate(d, k))
  <1> DEFINE F == {r \in RevisionsOf(k) : d.revisions[r] = "draining"}
             e == ForceCoordinate(d, k)
  <1>1. d \in Controllers /\ F \in SUBSET Revisions
    BY DEF Good, Almost, RevisionsOf
  <1>2. /\ e \in Controllers
        /\ e.pins = d.pins /\ e.forced = d.forced \cup F
        /\ \A c \in Coordinates :
             e.coordinates[c] = IF c = k THEN "retired" ELSE d.coordinates[c]
        /\ \A x \in Revisions : e.revisions[x] = IF x \in F THEN "retired" ELSE d.revisions[x]
    BY <1>1 DEF ForceCoordinate, Controllers, States
  <1>3. \A x \in Revisions : x \in F <=> CoordinateOf[x] = k /\ d.revisions[x] = "draining"
    BY DEF RevisionsOf
  <1> HIDE DEF e, F
  <1>4. \A q \in PinIds, x \in Revisions : Holds(e, q, x) <=> Holds(d, q, x)
    BY <1>2 DEF Holds
  <1>5. IdleWhenRetired(e) /\ BusyWhenDraining(e)
    BY <1>2, <1>4 DEF Good, Almost, IdleWhenRetired, BusyWhenDraining
  <1>6. PinsPlaced(e) /\ AskedRightly(e)
    BY <1>1, <1>2, AskedKept DEF Good, Almost, PinsPlaced, Controllers, Pins
  <1>7. \A c \in Coordinates \ {k} :
          /\ RetiredThroughout(e, c) /\ NowhereAccepting(e, c)
          /\ HasRevision(e, c) /\ SomewhereDraining(e, c)
    <2> SUFFICES ASSUME NEW c \in Coordinates \ {k}
                 PROVE  /\ RetiredThroughout(e, c) /\ NowhereAccepting(e, c)
                        /\ HasRevision(e, c) /\ SomewhereDraining(e, c)
      OBVIOUS
    <2>1. \A x \in RevisionsOf(c) : x \in Revisions /\ x \notin F
      BY <1>3 DEF RevisionsOf
    <2>2. \A x \in RevisionsOf(c) : e.revisions[x] = d.revisions[x]
      BY <1>2, <2>1
    <2>3. \A x \in RevisionsOf(c) : Forward(d, e, x)
      BY <2>2 DEF Forward
    <2>4. e.coordinates[c] = d.coordinates[c] /\ Almost(d) /\ SomewhereDraining(d, c)
      BY <1>2 DEF Good
    <2>5. QED
      BY <2>2, <2>3, <2>4, CapabilityKept, DrainingKept
  <1>8. \A x \in RevisionsOf(k) : x \in Revisions /\ CoordinateOf[x] = k
    BY DEF RevisionsOf
  <1>9. RetiredThroughout(e, k)
    <2>1. NowhereAccepting(d, k)
      BY DEF Good, Almost
    <2>2. \A x \in RevisionsOf(k) : d.revisions[x] \in States \ {"accepting"}
      BY <1>1, <1>8, <2>1 DEF NowhereAccepting, Controllers
    <2>3. QED
      BY <1>2, <1>3, <1>8, <2>2 DEF RetiredThroughout, States
  <1>10. HasRevision(e, k)
    <2>1. PICK x \in RevisionsOf(k) : d.revisions[x] # "unknown"
      BY DEF Good, Almost, HasRevision
    <2>2. e.revisions[x] # "unknown"
      BY <1>2, <1>8, <2>1
    <2>3. QED
      BY <2>2 DEF HasRevision
  <1>11. NowhereAccepting(e, k) /\ SomewhereDraining(e, k)
    BY <1>2 DEF NowhereAccepting, SomewhereDraining
  <1>12. QED
    BY <1>2, <1>5, <1>6, <1>7, <1>9, <1>10, <1>11 DEF Good, Almost, e

-----------------------------------------------------------------------------
(* The theorems.                                                           *)

LEMMA NextGood ==
  ASSUME IInv, [DrainNext]_drain
  PROVE  IInv'
  <1> USE DEF IInv
  <1>1. CASE \E r \in Revisions : RegisterRevision(r)
    BY <1>1, RegisterGood DEF RegisterRevision
  <1>2. CASE \E r \in Revisions : DrainRevision(r)
    BY <1>2, DrainRevisionGood DEF DrainRevision
  <1>3. CASE \E r \in Revisions : AdvanceRevision(r)
    <2>1. PICK r \in Revisions : AdvanceRevision(r)
      BY <1>3
    <2>2. {r} \in SUBSET Revisions /\ \A x \in {r} : drain.revisions[x] # "accepting"
      BY <2>1 DEF AdvanceRevision
    <2>3. QED
      BY <2>1, <2>2, AdvanceGood DEF AdvanceRevision
  <1>4. CASE \E r \in Revisions : ForceRetireRevision(r)
    BY <1>4, ForceRevisionGood DEF ForceRetireRevision
  <1>5. CASE \E r \in Revisions : \E p \in PinIds, cancellable \in BOOLEAN :
               AdmitExecution(r, p, cancellable)
    BY <1>5, AdmitGood DEF AdmitExecution
  <1>6. CASE \E c \in Coordinates : DrainCoordinate(c)
    BY <1>6, DrainCoordinateGood DEF DrainCoordinate
  <1>7. CASE \E c \in Coordinates : AdvanceCoordinate(c)
    <2>1. PICK c \in Coordinates : AdvanceCoordinate(c)
      BY <1>7
    <2>2. /\ RevisionsOf(c) \in SUBSET Revisions
          /\ \A x \in RevisionsOf(c) : drain.revisions[x] # "accepting"
      BY <2>1 DEF AdvanceCoordinate, Good, Almost, NowhereAccepting, RevisionsOf
    <2>3. QED
      BY <2>1, <2>2, AdvanceGood DEF AdvanceCoordinate
  <1>8. CASE \E c \in Coordinates : ForceRetireCoordinate(c)
    BY <1>8, ForceCoordinateGood DEF ForceRetireCoordinate
  <1>9. CASE \E p \in PinIds : ReleaseExecution(p)
    BY <1>9, ReleaseGood DEF ReleaseExecution
  <1>10. CASE UNCHANGED drain
    BY <1>10
  <1>11. QED
    BY <1>1, <1>2, <1>3, <1>4, <1>5, <1>6, <1>7, <1>8, <1>9, <1>10 DEF DrainNext

(* The inductive invariant, for any capabilities, revisions and pins.      *)
THEOREM DrainInvariance == DrainSpec => []IInv
  <1>1. DrainInit => IInv
    BY EmptyIsGood DEF DrainInit, IInv
  <1>2. IInv /\ [DrainNext]_drain => IInv'
    BY NextGood
  <1>3. QED
    BY <1>1, <1>2, PTL DEF DrainSpec

(* A revision that was not forced is idle when it has retired: the last    *)
(* release retires it and nothing is admitted after.                       *)
THEOREM RetiredIsIdleHolds == DrainSpec => []RetiredIsIdle
  <1>1. IInv => RetiredIsIdle
    BY DEF IInv, Good, Almost, IdleWhenRetired, Holds, RetiredIsIdle, PinsOf
  <1>2. QED
    BY <1>1, DrainInvariance, PTL

(* A draining revision waits for an execution that is still in flight.     *)
THEOREM DrainingHasWorkHolds == DrainSpec => []DrainingHasWork
  <1>1. IInv => DrainingHasWork
    BY DEF IInv, Good, Almost, BusyWhenDraining, Holds, DrainingHasWork, PinsOf
  <1>2. QED
    BY <1>1, DrainInvariance, PTL

(* The state of a capability follows from the states of its revisions.     *)
THEOREM CoordinateAgreesHolds == DrainSpec => []CoordinateAgrees
  <1>1. IInv => CoordinateAgrees
    <2> SUFFICES ASSUME IInv, NEW c \in Coordinates
                 PROVE  LET states == {drain.revisions[r] : r \in RevisionsOf(c)} \ {"unknown"} IN
                        /\ drain.coordinates[c] = "retired" => states = {"retired"}
                        /\ drain.coordinates[c] = "draining" =>
                             "draining" \in states /\ "accepting" \notin states
      BY DEF CoordinateAgrees
    <2>1. /\ RetiredThroughout(drain, c) /\ NowhereAccepting(drain, c)
          /\ HasRevision(drain, c) /\ SomewhereDraining(drain, c)
      BY DEF IInv, Good, Almost
    <2>2. CASE drain.coordinates[c] = "retired"
      BY <2>1, <2>2 DEF RetiredThroughout, HasRevision
    <2>3. CASE drain.coordinates[c] = "draining"
      BY <2>1, <2>3 DEF NowhereAccepting, SomewhereDraining
    <2>4. QED
      BY <2>2, <2>3
  <1>2. QED
    BY <1>1, DrainInvariance, PTL

(* Only executions that can be cancelled, on revisions that left service,  *)
(* are asked to stop.                                                      *)
THEOREM OnlyDrainingAskedHolds == DrainSpec => []OnlyDrainingAsked
  <1>1. IInv => OnlyDrainingAsked
    BY DEF IInv, Good, Almost, AskedRightly, OnlyDrainingAsked, InFlight
  <1>2. QED
    BY <1>1, DrainInvariance, PTL

-----------------------------------------------------------------------------
(* No call brings anything back into service.                              *)

NoBack(d, e) ==
  /\ e \in Controllers
  /\ \A r \in Revisions : Order[e.revisions[r]] >= Order[d.revisions[r]]
  /\ \A c \in Coordinates : Order[e.coordinates[c]] >= Order[d.coordinates[c]]

LEMMA OrderIsNat == \A x \in States : Order[x] \in 0 .. 3
  BY DEF States, Order

LEMMA SameNoBack ==
  ASSUME NEW d \in Controllers, NEW e \in Controllers,
         e.revisions = d.revisions, e.coordinates = d.coordinates
  PROVE  NoBack(d, e)
  BY OrderIsNat DEF NoBack, Controllers

LEMMA SettleNoBack ==
  ASSUME NEW d \in Controllers, NEW e, NoBack(d, e), NEW k \in Coordinates
  PROVE  NoBack(d, SettleCoordinate(e, k))
  <1> DEFINE f == [e EXCEPT !.coordinates[k] = "retired"]
  <1>1. e \in Controllers
    BY DEF NoBack
  <1>2. /\ f \in Controllers /\ f.revisions = e.revisions
        /\ \A c \in Coordinates : f.coordinates[c] = IF c = k THEN "retired" ELSE e.coordinates[c]
    BY <1>1 DEF Controllers, States
  <1>3. Order["retired"] = 3 /\ d.coordinates[k] \in States
    BY DEF Order, Controllers
  <1>4. SettleCoordinate(e, k) \in {e, f}
    BY DEF SettleCoordinate
  <1> HIDE DEF f
  <1>5. NoBack(d, f)
    BY <1>2, <1>3, OrderIsNat DEF NoBack
  <1>6. QED
    BY <1>4, <1>5

LEMMA RetireNoBack ==
  ASSUME NEW d \in Controllers, NEW e, NoBack(d, e), NEW T
  PROVE  NoBack(d, RetireIdle(e, T))
  <1> DEFINE f == RetireIdle(e, T)
  <1>1. e \in Controllers
    BY DEF NoBack
  <1>2. /\ f \in Controllers /\ f.coordinates = e.coordinates
        /\ \A r \in Revisions : f.revisions[r] \in {e.revisions[r], "retired"}
    BY <1>1 DEF RetireIdle, Controllers, States
  <1>3. Order["retired"] = 3 /\ \A r \in Revisions : d.revisions[r] \in States
    BY DEF Order, Controllers
  <1> HIDE DEF f
  <1>4. NoBack(d, f)
    BY <1>2, <1>3, OrderIsNat DEF NoBack
  <1>5. QED
    BY <1>4 DEF f

LEMMA BeginNoBack ==
  ASSUME NEW d \in Controllers, NEW e, NoBack(d, e), NEW T
  PROVE  NoBack(d, BeginRevisionDrain(e, T))
  <1> DEFINE f == [e EXCEPT !.revisions = [r \in Revisions |->
                     IF r \in T /\ @[r] = "accepting" THEN "draining" ELSE @[r]]]
             A == {r \in T : e.revisions[r] = "accepting"}
  <1>1. e \in Controllers
    BY DEF NoBack
  <1>2. /\ f \in Controllers /\ f.coordinates = e.coordinates
        /\ \A r \in Revisions :
             \/ f.revisions[r] = e.revisions[r]
             \/ e.revisions[r] = "accepting" /\ f.revisions[r] = "draining"
    BY <1>1 DEF Controllers, States
  <1>3. /\ Order["accepting"] = 1 /\ Order["draining"] = 2
        /\ \A r \in Revisions : d.revisions[r] \in States
    BY DEF Order, Controllers
  <1>4. BeginRevisionDrain(e, T) = RetireIdle(f, A)
    BY DEF BeginRevisionDrain
  <1> HIDE DEF f, A
  <1>5. NoBack(d, f)
    <2>1. \A r \in Revisions : Order[f.revisions[r]] >= Order[d.revisions[r]]
      BY <1>2, <1>3, OrderIsNat DEF NoBack
    <2>2. QED
      BY <1>2, <2>1 DEF NoBack
  <1>6. QED
    BY <1>4, <1>5, RetireNoBack

LEMMA StepNoBack ==
  ASSUME drain \in Controllers, DrainNext
  PROVE  NoBack(drain, drain')
  <1>0. NoBack(drain, drain)
    BY SameNoBack
  <1>1. ASSUME NEW r \in Revisions, RegisterRevision(r)
        PROVE  NoBack(drain, drain')
    <2> DEFINE k == CoordinateOf[r]
    <2>1. /\ k \in Coordinates /\ drain.revisions[r] = "unknown"
          /\ drain.coordinates[k] \in {"unknown", "accepting"}
      BY <1>1, ControllerAssumption DEF RegisterRevision, CanRegister, Registered
    <2>2. /\ drain' \in Controllers
          /\ \A x \in Revisions :
               drain'.revisions[x] = IF x = r THEN "accepting" ELSE drain.revisions[x]
          /\ \A c \in Coordinates :
               drain'.coordinates[c] = IF c = k THEN "accepting" ELSE drain.coordinates[c]
      BY <1>1, <2>1 DEF RegisterRevision, Register, Controllers, States
    <2>3. Order["unknown"] = 0 /\ Order["accepting"] = 1
      BY DEF Order
    <2>4. QED
      BY <2>1, <2>2, <2>3, <1>0 DEF NoBack
  <1>2. ASSUME NEW r \in Revisions, DrainRevision(r)
        PROVE  NoBack(drain, drain')
    BY <1>0, <1>2, BeginNoBack DEF DrainRevision
  <1>3. ASSUME NEW T, drain' = Advance(drain, T)
        PROVE  NoBack(drain, drain')
    <2>1. drain'.revisions = drain.revisions /\ drain'.coordinates = drain.coordinates
      BY <1>3 DEF Advance, Controllers
    <2>2. \A p \in Askable(drain, T) : drain.pins[p] \in Pins
      BY DEF Askable, TargetPins, InFlight, Controllers
    <2>3. \A p \in Askable(drain, T) : [drain.pins[p] EXCEPT !.asked = TRUE] \in Pins
      BY <2>2, AskedPin
    <2>4. drain' \in Controllers
      BY <1>3, <2>3 DEF Advance, Controllers
    <2>5. QED
      BY <2>1, <2>4, SameNoBack
  <1>4. ASSUME NEW r \in Revisions, ForceRetireRevision(r)
        PROVE  NoBack(drain, drain')
    <2> DEFINE f == [drain EXCEPT !.revisions[r] = "retired", !.forced = @ \cup {r}]
    <2>1. /\ f \in Controllers /\ f.coordinates = drain.coordinates
          /\ \A x \in Revisions : f.revisions[x] = IF x = r THEN "retired" ELSE drain.revisions[x]
      BY DEF Controllers, States
    <2>2. drain' = SettleCoordinate(f, CoordinateOf[r]) /\ CoordinateOf[r] \in Coordinates
      BY <1>4, ControllerAssumption DEF ForceRetireRevision, ForceRevision
    <2>3. Order["retired"] = 3 /\ drain.revisions[r] \in States
      BY DEF Order, Controllers
    <2> HIDE DEF f
    <2>4. NoBack(drain, f)
      BY <1>0, <2>1, <2>3, OrderIsNat DEF NoBack
    <2>5. QED
      BY <2>2, <2>4, SettleNoBack
  <1>5. ASSUME NEW r \in Revisions, NEW p \in PinIds, NEW cancellable \in BOOLEAN,
               AdmitExecution(r, p, cancellable)
        PROVE  NoBack(drain, drain')
    <2>1. /\ drain' \in Controllers
          /\ drain'.revisions = drain.revisions /\ drain'.coordinates = drain.coordinates
      BY <1>5 DEF AdmitExecution, Admit, Controllers, Pins
    <2>2. QED
      BY <2>1, SameNoBack
  <1>6. ASSUME NEW k \in Coordinates, DrainCoordinate(k)
        PROVE  NoBack(drain, drain')
    <2> DEFINE f == [drain EXCEPT !.coordinates[k] = IF @ = "accepting" THEN "draining" ELSE @]
    <2>1. /\ f \in Controllers /\ f.revisions = drain.revisions
          /\ \A c \in Coordinates :
               \/ f.coordinates[c] = drain.coordinates[c]
               \/ drain.coordinates[c] = "accepting" /\ f.coordinates[c] = "draining"
      BY DEF Controllers, States
    <2>2. drain' = SettleCoordinate(BeginRevisionDrain(f, RevisionsOf(k)), k)
      BY <1>6 DEF DrainCoordinate, BeginCoordinateDrain
    <2>3. Order["accepting"] = 1 /\ Order["draining"] = 2
      BY DEF Order
    <2> HIDE DEF f
    <2>4. NoBack(drain, f)
      <3>1. \A c \in Coordinates : Order[f.coordinates[c]] >= Order[drain.coordinates[c]]
        BY <1>0, <2>1, <2>3 DEF NoBack
      <3>2. QED
        BY <1>0, <2>1, <3>1 DEF NoBack
    <2>5. QED
      BY <2>2, <2>4, BeginNoBack, SettleNoBack
  <1>7. ASSUME NEW k \in Coordinates, ForceRetireCoordinate(k)
        PROVE  NoBack(drain, drain')
    <2>1. /\ drain' \in Controllers
          /\ \A x \in Revisions : drain'.revisions[x] \in {drain.revisions[x], "retired"}
          /\ \A c \in Coordinates : drain'.coordinates[c] \in {drain.coordinates[c], "retired"}
      BY <1>7 DEF ForceRetireCoordinate, ForceCoordinate, RevisionsOf, Controllers, States
    <2>2. /\ Order["retired"] = 3
          /\ \A x \in Revisions : drain.revisions[x] \in States
          /\ \A c \in Coordinates : drain.coordinates[c] \in States
      BY DEF Order, Controllers
    <2>3. QED
      BY <1>0, <2>1, <2>2, OrderIsNat DEF NoBack
  <1>8. ASSUME NEW p \in PinIds, ReleaseExecution(p)
        PROVE  NoBack(drain, drain')
    <2> DEFINE r == drain.pins[p].revision
               f == [drain EXCEPT !.pins[p] = NoPin]
    <2>1. r \in Revisions /\ CoordinateOf[r] \in Coordinates
      BY <1>8, ControllerAssumption DEF ReleaseExecution, Controllers, Pins
    <2>2. f \in Controllers /\ f.revisions = drain.revisions /\ f.coordinates = drain.coordinates
      BY DEF Controllers
    <2>3. drain' = SettleCoordinate(RetireIdle(f, {r}), CoordinateOf[r])
      BY <1>8 DEF ReleaseExecution, Release
    <2> HIDE DEF f, r
    <2>4. NoBack(drain, RetireIdle(f, {r}))
      BY <2>2, SameNoBack, RetireNoBack
    <2>5. QED
      BY <2>1, <2>3, <2>4, SettleNoBack
  <1>9. QED
    BY <1>1, <1>2, <1>3, <1>4, <1>5, <1>6, <1>7, <1>8
    DEF DrainNext, AdvanceRevision, AdvanceCoordinate

(* No call brings a revision or a capability back into service.            *)
THEOREM NeverBackHolds == DrainSpec => NeverBack
  <1> DEFINE Onward ==
        /\ \A r \in Revisions : Order[drain'.revisions[r]] >= Order[drain.revisions[r]]
        /\ \A c \in Coordinates : Order[drain'.coordinates[c]] >= Order[drain.coordinates[c]]
  <1>1. IInv /\ [DrainNext]_drain => [Onward]_drain
    BY StepNoBack DEF IInv, Good, Almost, NoBack
  <1>2. NeverBack <=> [][Onward]_drain
    BY DEF NeverBack
  <1> HIDE DEF Onward
  <1>3. QED
    BY <1>1, <1>2, DrainInvariance, PTL DEF DrainSpec

(* Leaving service is complete and final: no retirement under an execution *)
(* or before the revisions of the capability, and no return from one.      *)
THEOREM DrainIsFinalHolds == DrainSpec => DrainIsFinal
<1>1. [](RetiredIsIdle /\ CoordinateAgrees) /\ NeverBack <=> DrainIsFinal
  BY DEF DrainIsFinal
<1> QED
  BY <1>1, RetiredIsIdleHolds, CoordinateAgreesHolds, NeverBackHolds, PTL

-----------------------------------------------------------------------------
(* Supervision.                                                            *)

Points == {"idle", "sealing", "sealed", "spawning", "started", "done"} \union Enrolled
WorkerAnswers == Messages \union
  {"none", "refused", "alias_unavailable", "start_failed", "job_failed", "conflict",
   "cancelled", "os_error", "timeout", "too_large", "crashed", "no_result", "raised",
   "protocol_error"}

CallRecords ==
  [pc : Points, ref : Refs \union {NoCaller}, proc : {"none", "alive", "dead", "closed"},
   exit : {"none", "zero", "nonzero"}, pipe : {"empty", "begun", "shut"} \union Messages,
   open : BOOLEAN, raw : {"none"} \union Messages, answer : WorkerAnswers,
   accepted : {"no", "flagged", "early", "late"}]

(* A call by itself, given the references that are flagged: its worker has *)
(* been started and is closed when it must, a cancellation has flagged it  *)
(* while it was enrolled, and one that is over has stopped its worker.     *)
CallIsSound(c, flags) ==
  /\ c \in CallRecords
  /\ c.pc # "idle" => c.ref \in Refs
  /\ c.pc \in {"idle", "sealing", "sealed", "spawning", "removing", "done"} => c.proc # "alive"
  /\ c.pc \notin {"cleanup", "removing", "done"} => c.answer = "none"
  /\ c.answer = "cancelled" => c.accepted # "no"
  /\ c.accepted # "no" => c.pc \in Enrolled \union {"done"}
  /\ c.accepted \in {"early", "late"} => c.proc # "alive"
  /\ c.accepted = "early" =>
       /\ ~c.open
       /\ \/ c.pc \in {"polling", "receiving"} /\ c.ref \in flags
          \/ /\ c.pc \in {"cleanup", "removing", "done"}
             /\ c.answer \in {"cancelled", "timeout", "raised"}

FlagsAreOwned == \A r \in cancelFlags : workers[r] # NoCaller /\ call[workers[r]].accepted # "no"

(* The cancel under way has set its flag, and stops the worker before it   *)
(* closes the pipe.                                                        *)
CancelIsUnderWay ==
  \/ WorkerLockFree
  \/ /\ cancelling \in [ref : Refs, at : {"stopping", "closing"}]
     /\ cancelling.ref \in cancelFlags
     /\ cancelling.at = "closing" => call[workers[cancelling.ref]].proc # "alive"

SupervisionInv ==
  /\ call \in [Threads -> CallRecords]
  /\ workers \in [Refs -> Threads \union {NoCaller}]
  /\ cancelFlags \subseteq Refs
  /\ spawner \in Threads \union {NoCaller}
  /\ \A t \in Threads : CallIsSound(call[t], cancelFlags)
  /\ TableNamesCaller
  /\ FlagsAreOwned
  /\ CancelIsUnderWay

LEMMA InvSuffices == SupervisionInv => SupervisionIsExact
<1> SUFFICES ASSUME SupervisionInv PROVE SupervisionIsExact
  OBVIOUS
<1>1. SupervisionTypeOK
  BY DEF SupervisionInv, SupervisionTypeOK, CallRecords, Points, CancelIsUnderWay, WorkerLockFree
<1>2. NoOrphanWorker /\ CancelIsExact
  BY DEF SupervisionInv, NoOrphanWorker, CancelIsExact, FlagsAreOwned, CallIsSound, Enrolled
<1> QED
  BY <1>1, <1>2 DEF SupervisionIsExact, SupervisionInv

LEMMA SupervisionStarts == SupervisionInit => SupervisionInv
  BY SupervisionAssumption
  DEF SupervisionInit, SupervisionInv, CallIsSound, CallRecords, Idle, TableNamesCaller,
      FlagsAreOwned, CancelIsUnderWay, WorkerLockFree, Enrolled, Points, WorkerAnswers, Messages

(* What the helpers make of a call.                                        *)
LEMMA StoppedIs ==
  ASSUME NEW c \in CallRecords
  PROVE  LET s == Stopped(c) IN
         /\ s \in CallRecords /\ s.proc # "alive" /\ (c.proc # "alive" => s.proc = c.proc)
         /\ s.pc = c.pc /\ s.ref = c.ref /\ s.open = c.open /\ s.answer = c.answer
         /\ s.accepted = c.accepted
<1>1. CASE c.proc = "alive"
  BY <1>1 DEF Stopped, CallRecords, Enrolled, Points, WorkerAnswers, Messages
<1>2. CASE c.proc # "alive"
  BY <1>2 DEF Stopped
<1> QED
  BY <1>1, <1>2

LEMMA EndedIs ==
  ASSUME NEW c \in CallRecords, NEW answer \in WorkerAnswers
  PROVE  /\ LET s == Answered(c, answer) IN
            /\ s \in CallRecords /\ s.pc = "done" /\ ~s.open /\ s.answer = answer
            /\ s.proc = c.proc /\ s.ref = c.ref /\ s.accepted = c.accepted
         /\ LET s == Failing(c, answer) IN
            /\ s \in CallRecords /\ s.pc = "cleanup" /\ s.open = c.open /\ s.answer = answer
            /\ s.proc = c.proc /\ s.ref = c.ref /\ s.accepted = c.accepted
<1>1. "done" \in Points /\ "cleanup" \in Points
  BY DEF Points, Enrolled
<1>2. LET s == Answered(c, answer) IN
      /\ s \in CallRecords /\ s.pc = "done" /\ ~s.open /\ s.answer = answer
      /\ s.proc = c.proc /\ s.ref = c.ref /\ s.accepted = c.accepted
  BY <1>1 DEF Answered, Idle, CallRecords
<1>3. LET s == Failing(c, answer) IN
      /\ s \in CallRecords /\ s.pc = "cleanup" /\ s.open = c.open /\ s.answer = answer
      /\ s.proc = c.proc /\ s.ref = c.ref /\ s.accepted = c.accepted
  BY <1>1 DEF Failing, CallRecords
<1> QED
  BY <1>2, <1>3

LEMMA ClosedIs ==
  ASSUME NEW c \in CallRecords
  PROVE  LET s == [c EXCEPT !.pc = "removing", !.proc = "closed", !.open = FALSE] IN
         /\ s \in CallRecords /\ s.pc = "removing" /\ s.proc = "closed" /\ ~s.open
         /\ s.answer = c.answer /\ s.ref = c.ref /\ s.accepted = c.accepted
<1>1. "removing" \in Points
  BY DEF Points, Enrolled
<1> QED
  BY <1>1 DEF CallRecords

LEMMA ExitedIs ==
  ASSUME NEW c \in CallRecords, NEW code \in {"zero", "nonzero"}
  PROVE  LET s == [c EXCEPT !.proc = "dead", !.exit = code] IN
         /\ s \in CallRecords /\ s.pc = c.pc /\ s.proc = "dead" /\ s.open = c.open
         /\ s.answer = c.answer /\ s.ref = c.ref /\ s.accepted = c.accepted
  BY DEF CallRecords

LEMMA FlaggedIs ==
  ASSUME NEW c \in CallRecords
  PROVE  LET s == [c EXCEPT !.accepted = "flagged"] IN
         /\ s \in CallRecords /\ s.pc = c.pc /\ s.proc = c.proc /\ s.open = c.open
         /\ s.answer = c.answer /\ s.ref = c.ref /\ s.accepted = "flagged"
<1>1. "flagged" \in {"no", "flagged", "early", "late"}
  OBVIOUS
<1> QED
  BY <1>1 DEF CallRecords

LEMMA UnpipedIs ==
  ASSUME NEW c \in CallRecords, NEW when \in {"early", "late"}
  PROVE  LET s == [c EXCEPT !.open = FALSE, !.accepted = when] IN
         /\ s \in CallRecords /\ s.pc = c.pc /\ s.proc = c.proc /\ ~s.open
         /\ s.answer = c.answer /\ s.ref = c.ref /\ s.accepted = when
<1>1. when \in {"no", "flagged", "early", "late"}
  OBVIOUS
<1> QED
  BY <1>1 DEF CallRecords

(* A move of one call that neither enrols nor removes it.                  *)
LEMMA MoveKeeps ==
  ASSUME SupervisionInv, NEW t \in Threads, NEW c, Moves(t, c), CallIsSound(c, cancelFlags),
         c.pc \in Enrolled <=> call[t].pc \in Enrolled,
         c.pc \in Enrolled =>
           /\ c.ref = call[t].ref
           /\ call[t].accepted # "no" => c.accepted # "no"
           /\ call[t].proc # "alive" => c.proc # "alive",
         UNCHANGED <<workers, cancelFlags, cancelling>>, spawner' \in Threads \union {NoCaller}
  PROVE  SupervisionInv'
<1>1. c \in CallRecords
  BY DEF CallIsSound
<1>2. call' \in [Threads -> CallRecords] /\ call'[t] = c /\ \A x \in Threads \ {t} : call'[x] = call[x]
  BY <1>1 DEF SupervisionInv, Moves
<1>3. \A x \in Threads : CallIsSound(call'[x], cancelFlags')
  BY <1>2 DEF SupervisionInv
<1>4. TableNamesCaller'
  BY <1>2 DEF SupervisionInv, TableNamesCaller
<1>5. FlagsAreOwned'
  <2> SUFFICES ASSUME NEW r \in cancelFlags
               PROVE  workers[r] # NoCaller /\ call'[workers[r]].accepted # "no"
    BY DEF FlagsAreOwned
  <2>1. r \in Refs /\ workers[r] \in Threads /\ call[workers[r]].accepted # "no"
    BY DEF SupervisionInv, FlagsAreOwned
  <2>2. workers[r] = t => call[t].pc \in Enrolled
    BY <2>1 DEF SupervisionInv, TableNamesCaller
  <2> QED
    BY <1>2, <2>1, <2>2, SupervisionAssumption
<1>6. CancelIsUnderWay'
  <2>1. CASE WorkerLockFree
    BY <2>1 DEF CancelIsUnderWay, WorkerLockFree
  <2>2. CASE ~WorkerLockFree
    <3> DEFINE r == cancelling.ref
    <3>1. /\ cancelling \in [ref : Refs, at : {"stopping", "closing"}] /\ r \in cancelFlags
          /\ cancelling.at = "closing" => call[workers[r]].proc # "alive"
      BY <2>2 DEF SupervisionInv, CancelIsUnderWay
    <3>2. r \in Refs /\ workers[r] \in Threads
      BY <3>1 DEF SupervisionInv, FlagsAreOwned
    <3>3. workers[r] = t => call[t].pc \in Enrolled
      BY <3>2 DEF SupervisionInv, TableNamesCaller
    <3>4. cancelling.at = "closing" => call'[workers[r]].proc # "alive"
      BY <1>2, <3>1, <3>2, <3>3
    <3> QED
      BY <3>1, <3>4 DEF CancelIsUnderWay
  <2> QED
    BY <2>1, <2>2
<1> QED
  BY <1>2, <1>3, <1>4, <1>5, <1>6 DEF SupervisionInv

(* What the call at work is, and the steps before its worker is enrolled.  *)
LEMMA EarlySteps ==
  ASSUME SupervisionInv, NEW t \in Threads,
         \/ \E r \in Refs : Execute(t, r)
         \/ RefuseProvider(t) \/ Seal(t) \/ ScrubEnvironment(t) \/ StartWorker(t) \/ JobFails(t)
  PROVE  SupervisionInv'
<1>0. call[t] \in CallRecords /\ CallIsSound(call[t], cancelFlags) /\ spawner \in Threads \union {NoCaller}
  BY DEF SupervisionInv
<1> USE DEF CallIsSound, Enrolled, Points, WorkerAnswers, Messages, tables
<1>1. ASSUME NEW r \in Refs, Execute(t, r) PROVE SupervisionInv'
  <2> DEFINE c == [Idle EXCEPT !.pc = "sealing", !.ref = r]
  <2>1. CallIsSound(c, cancelFlags) /\ c.pc = "sealing"
    BY <1>1 DEF Idle, CallRecords
  <2> QED
    BY <1>0, <1>1, <2>1, MoveKeeps DEF Execute
<1>2. ASSUME NEW answer \in {"refused", "alias_unavailable", "start_failed"},
             call[t].pc \in {"sealing", "sealed", "spawning"},
             Moves(t, Answered(call[t], answer)), UNCHANGED <<workers, cancelFlags, cancelling>>,
             spawner' \in Threads \union {NoCaller}
      PROVE  SupervisionInv'
  <2> DEFINE c == Answered(call[t], answer)
  <2>1. CallIsSound(c, cancelFlags) /\ c.pc = "done"
    BY <1>0, <1>2, EndedIs
  <2> QED
    BY <1>0, <1>2, <2>1, MoveKeeps
<1>3. CASE RefuseProvider(t)
  BY <1>0, <1>2, <1>3 DEF RefuseProvider
<1>4. CASE Seal(t)
  <2>1. CASE Moves(t, Answered(call[t], "alias_unavailable"))
    BY <1>0, <1>2, <1>4, <2>1 DEF Seal
  <2>2. CASE Moves(t, [call[t] EXCEPT !.pc = "sealed"])
    <3> DEFINE c == [call[t] EXCEPT !.pc = "sealed"]
    <3>1. CallIsSound(c, cancelFlags) /\ c.pc = "sealed"
      BY <1>0, <1>4 DEF Seal, CallRecords
    <3> QED
      BY <1>0, <1>4, <2>2, <3>1, MoveKeeps DEF Seal
  <2> QED
    BY <1>4, <2>1, <2>2 DEF Seal
<1>5. CASE ScrubEnvironment(t)
  <2> DEFINE c == [call[t] EXCEPT !.pc = "spawning"]
  <2>1. CallIsSound(c, cancelFlags) /\ c.pc = "spawning"
    BY <1>0, <1>5 DEF ScrubEnvironment, CallRecords
  <2> QED
    BY <1>0, <1>5, <2>1, MoveKeeps DEF ScrubEnvironment
<1>6. CASE StartWorker(t)
  <2>1. CASE Moves(t, Answered(call[t], "start_failed"))
    BY <1>0, <1>2, <1>6, <2>1 DEF StartWorker
  <2>2. CASE Moves(t, [call[t] EXCEPT !.pc = "started", !.proc = "alive", !.open = TRUE])
    <3> DEFINE c == [call[t] EXCEPT !.pc = "started", !.proc = "alive", !.open = TRUE]
    <3>1. CallIsSound(c, cancelFlags) /\ c.pc = "started"
      BY <1>0, <1>6 DEF StartWorker, CallRecords
    <3> QED
      BY <1>0, <1>6, <2>2, <3>1, MoveKeeps DEF StartWorker
  <2> QED
    BY <1>6, <2>1, <2>2 DEF StartWorker
<1>7. CASE JobFails(t)
  <2> DEFINE s == Answered(Stopped(call[t]), "job_failed")
             c == [s EXCEPT !.proc = "closed"]
  <2>0. /\ s \in CallRecords /\ s.pc = "done" /\ s.answer = "job_failed"
        /\ s.ref = call[t].ref /\ s.accepted = call[t].accepted /\ call[t].pc = "started"
    BY <1>0, <1>7, StoppedIs, EndedIs DEF JobFails
  <2>1. CallIsSound(c, cancelFlags) /\ c.pc = "done"
    <3> HIDE DEF s
    <3> QED
      BY <1>0, <2>0 DEF CallRecords
  <2>2. call[t].pc = "started" /\ Moves(t, c) /\ UNCHANGED tables
    BY <1>7 DEF JobFails
  <2> HIDE DEF c
  <2> QED
    BY <1>0, <2>1, <2>2, MoveKeeps
<1> QED
  BY <1>1, <1>3, <1>4, <1>5, <1>6, <1>7

(* The steps of an enrolled call up to the closing of its worker, and of   *)
(* the worker itself.                                                      *)
LEMMA EnrolledSteps ==
  ASSUME SupervisionInv, NEW t \in Threads,
         \/ PollEnds(t) \/ PollFails(t) \/ Timeout(t)
         \/ Receive(t) \/ ReceiveFails(t) \/ ReceiveBreaks(t) \/ Join(t) \/ CloseWorker(t)
         \/ WorkerBegins(t) \/ WorkerShuts(t)
         \/ \E m \in Messages : WorkerSends(t, m)
         \/ \E code \in {"zero", "nonzero"} : WorkerExits(t, code)
  PROVE  SupervisionInv'
<1>0. /\ call[t] \in CallRecords /\ CallIsSound(call[t], cancelFlags)
      /\ spawner \in Threads \union {NoCaller}
      /\ call[t].pc \in Enrolled /\ call[t].ref \in cancelFlags => call[t].accepted # "no"
  BY DEF SupervisionInv, TableNamesCaller, FlagsAreOwned, CallIsSound
<1> USE DEF CallIsSound, Enrolled, Points, WorkerAnswers, Messages, tables
<1>1. ASSUME NEW c, Moves(t, c), CallIsSound(c, cancelFlags), c.pc \in Enrolled <=> call[t].pc \in Enrolled,
             c.ref = call[t].ref, c.accepted = call[t].accepted,
             call[t].proc # "alive" => c.proc # "alive", UNCHANGED tables
      PROVE  SupervisionInv'
  <2> HIDE DEF CallIsSound, Enrolled
  <2> QED
    BY <1>0, <1>1, MoveKeeps
<1>2. ASSUME NEW answer \in WorkerAnswers, call[t].pc \in {"polling", "receiving"},
             call[t].accepted = "early" => answer \in {"cancelled", "raised"},
             answer = "cancelled" => call[t].accepted # "no",
             Moves(t, Failing(call[t], answer)), UNCHANGED tables
      PROVE  SupervisionInv'
  <2> DEFINE c == Failing(call[t], answer)
  <2>1. /\ CallIsSound(c, cancelFlags) /\ c.pc \in Enrolled /\ c.proc = call[t].proc
        /\ c.ref = call[t].ref /\ c.accepted = call[t].accepted
    BY <1>0, <1>2, EndedIs
  <2> QED
    BY <1>1, <1>2, <2>1
<1>3. ASSUME NEW answer \in WorkerAnswers \ {"cancelled"},
             call[t].pc \in {"polling", "receiving"}, Fails(t, answer)
      PROVE  SupervisionInv'
  BY <1>0, <1>2, <1>3 DEF Fails
<1>a. CASE PollEnds(t)
  <2> DEFINE c == [call[t] EXCEPT !.pc = "receiving"]
  <2>1. CallIsSound(c, cancelFlags) /\ c.pc \in Enrolled /\ c.ref = call[t].ref
        /\ c.accepted = call[t].accepted /\ c.proc = call[t].proc
    BY <1>0, <1>a DEF PollEnds, CallRecords
  <2> QED
    BY <1>1, <1>a, <2>1 DEF PollEnds
<1>b. CASE PollFails(t)
  BY <1>3, <1>b DEF PollFails
<1>c. CASE ReceiveFails(t)
  <2>1. PICK answer \in {"crashed", "no_result", "too_large"} : Fails(t, answer)
    BY <1>c DEF ReceiveFails
  <2> QED
    BY <1>3, <1>c, <2>1 DEF ReceiveFails
<1>d. CASE ReceiveBreaks(t)
  BY <1>2, <1>d DEF ReceiveBreaks
<1>4. CASE Timeout(t)
  <2> DEFINE c == Failing(Stopped(call[t]), "timeout")
  <2>1. CallIsSound(c, cancelFlags) /\ c.pc \in Enrolled /\ c.ref = call[t].ref
        /\ c.accepted = call[t].accepted /\ c.proc # "alive"
    <3> DEFINE s == Stopped(call[t])
    <3>1. /\ s \in CallRecords /\ s.proc # "alive" /\ s.pc = call[t].pc /\ s.ref = call[t].ref
          /\ s.open = call[t].open /\ s.accepted = call[t].accepted
      BY <1>0, StoppedIs
    <3>2. /\ c \in CallRecords /\ c.pc = "cleanup" /\ c.open = s.open /\ c.answer = "timeout"
          /\ c.proc = s.proc /\ c.ref = s.ref /\ c.accepted = s.accepted
      BY <3>1, EndedIs
    <3>3. call[t].pc \in {"polling", "joining"}
      BY <1>4 DEF Timeout
    <3> HIDE DEF s, c
    <3> QED
      BY <1>0, <3>1, <3>2, <3>3
  <2>2. call[t].pc \in Enrolled /\ Moves(t, c) /\ UNCHANGED tables
    BY <1>4 DEF Timeout
  <2> HIDE DEF c
  <2> QED
    BY <1>1, <2>1, <2>2
<1>5. CASE Receive(t)
  <2> DEFINE c == [call[t] EXCEPT !.pc = "joining", !.raw = call[t].pipe]
  <2>1. CallIsSound(c, cancelFlags) /\ c.pc \in Enrolled /\ c.ref = call[t].ref
        /\ c.accepted = call[t].accepted /\ c.proc = call[t].proc
    BY <1>0, <1>5 DEF Receive, CallRecords
  <2> QED
    BY <1>1, <1>5, <2>1 DEF Receive
<1>6. CASE Join(t)
  <2> DEFINE c == [call[t] EXCEPT !.pc = "cleanup"]
  <2>1. CallIsSound(c, cancelFlags) /\ c.pc \in Enrolled /\ c.ref = call[t].ref
        /\ c.accepted = call[t].accepted /\ c.proc = call[t].proc
    BY <1>0, <1>6 DEF Join, CallRecords
  <2> QED
    BY <1>1, <1>6, <2>1 DEF Join
<1>7. CASE CloseWorker(t)
  <2> DEFINE s == Stopped(call[t])
             c == [s EXCEPT !.pc = "removing", !.proc = "closed", !.open = FALSE]
  <2>0. /\ s \in CallRecords /\ s.answer = call[t].answer
        /\ s.ref = call[t].ref /\ s.accepted = call[t].accepted /\ call[t].pc = "cleanup"
    BY <1>0, <1>7, StoppedIs DEF CloseWorker
  <2>1. CallIsSound(c, cancelFlags) /\ c.pc \in Enrolled /\ c.ref = call[t].ref
        /\ c.accepted = call[t].accepted /\ c.proc = "closed"
    <3>1. /\ c \in CallRecords /\ c.pc = "removing" /\ c.proc = "closed" /\ ~c.open
          /\ c.answer = s.answer /\ c.ref = s.ref /\ c.accepted = s.accepted
      BY <2>0, ClosedIs
    <3> HIDE DEF s, c
    <3> QED
      BY <1>0, <2>0, <3>1
  <2>2. call[t].pc \in Enrolled /\ Moves(t, c) /\ UNCHANGED tables
    BY <1>7 DEF CloseWorker
  <2> HIDE DEF c
  <2> QED
    BY <1>1, <2>1, <2>2
<1>8. ASSUME NEW m \in Messages, WorkerSends(t, m) PROVE SupervisionInv'
  <2> DEFINE c == [call[t] EXCEPT !.pipe = m]
  <2>1. CallIsSound(c, cancelFlags) /\ c.pc = call[t].pc /\ c.ref = call[t].ref
        /\ c.accepted = call[t].accepted /\ c.proc = call[t].proc
    BY <1>0, <1>8 DEF WorkerSends, CallRecords
  <2> QED
    BY <1>1, <1>8, <2>1 DEF WorkerSends
<1>9. ASSUME NEW code \in {"zero", "nonzero"}, WorkerExits(t, code) PROVE SupervisionInv'
  <2> DEFINE c == [call[t] EXCEPT !.proc = "dead", !.exit = code]
  <2>1. CallIsSound(c, cancelFlags) /\ c.pc = call[t].pc /\ c.ref = call[t].ref
        /\ c.accepted = call[t].accepted /\ c.proc = "dead"
    <3>1. /\ c \in CallRecords /\ c.pc = call[t].pc /\ c.proc = "dead" /\ c.open = call[t].open
          /\ c.answer = call[t].answer /\ c.ref = call[t].ref /\ c.accepted = call[t].accepted
      BY <1>0, ExitedIs
    <3>2. call[t].proc = "alive"
      BY <1>9 DEF WorkerExits
    <3> HIDE DEF c
    <3> QED
      BY <1>0, <3>1, <3>2
  <2> QED
    BY <1>1, <1>9, <2>1 DEF WorkerExits
<1>e. ASSUME NEW p \in {"begun", "shut"}, call[t].proc = "alive",
             Moves(t, [call[t] EXCEPT !.pipe = p]), UNCHANGED tables
      PROVE  SupervisionInv'
  <2> DEFINE c == [call[t] EXCEPT !.pipe = p]
  <2>1. CallIsSound(c, cancelFlags) /\ c.pc = call[t].pc /\ c.ref = call[t].ref
        /\ c.accepted = call[t].accepted /\ c.proc = call[t].proc
    BY <1>0, <1>e DEF CallRecords
  <2> QED
    BY <1>1, <1>e, <2>1
<1>f. CASE WorkerBegins(t)
  BY <1>e, <1>f DEF WorkerBegins
<1>g. CASE WorkerShuts(t)
  BY <1>e, <1>g DEF WorkerShuts
<1> QED
  BY <1>4, <1>5, <1>6, <1>7, <1>8, <1>9, <1>a, <1>b, <1>c, <1>d, <1>f, <1>g

LEMMA RegisterStep ==
  ASSUME SupervisionInv, NEW t \in Threads, RegisterWorker(t) PROVE SupervisionInv'
<1>0. /\ call[t] \in CallRecords /\ CallIsSound(call[t], cancelFlags)
      /\ call[t].ref \in Refs /\ spawner \in Threads \union {NoCaller} /\ call[t].pc = "started"
  BY DEF SupervisionInv, CallIsSound, RegisterWorker
<1>1. CASE workers[call[t].ref] # NoCaller
  <2> DEFINE c == Answered(Stopped(call[t]), "conflict")
  <2>1. CallIsSound(c, cancelFlags) /\ c.pc \notin Enrolled
    BY <1>0, StoppedIs, EndedIs DEF CallIsSound, Enrolled, WorkerAnswers
  <2>2. call[t].pc \notin Enrolled
    BY <1>0 DEF Enrolled
  <2> QED
    BY <1>0, <1>1, <2>1, <2>2, MoveKeeps DEF RegisterWorker
<1>2. CASE workers[call[t].ref] = NoCaller
  <2> DEFINE c == [call[t] EXCEPT !.pc = "polling"]
             r == call[t].ref
  <2>1. CallIsSound(c, cancelFlags) /\ c \in CallRecords /\ c.pc \in Enrolled /\ c.ref = r
    BY <1>0 DEF CallRecords, CallIsSound, Enrolled, Points, WorkerAnswers, Messages
  <2>2. /\ call' = [call EXCEPT ![t] = c] /\ workers' = [workers EXCEPT ![r] = t]
        /\ UNCHANGED <<cancelFlags, cancelling, spawner>>
    BY <1>2, SupervisionAssumption DEF RegisterWorker, Moves
  <2>3. call[t].pc \notin Enrolled /\ r \notin cancelFlags
    BY <1>0, <1>2 DEF Enrolled, SupervisionInv, FlagsAreOwned
  <2> HIDE DEF c
  <2>4. call'[t] = c /\ call' \in [Threads -> CallRecords]
        /\ \A x \in Threads \ {t} : call'[x] = call[x]
    BY <2>1, <2>2 DEF SupervisionInv
  <2>5. /\ workers' \in [Refs -> Threads \union {NoCaller}] /\ workers'[r] = t
        /\ \A s \in Refs \ {r} : workers'[s] = workers[s]
    BY <1>0, <2>2 DEF SupervisionInv
  <2>6. TableNamesCaller'
    BY <1>0, <1>2, <2>1, <2>3, <2>4, <2>5, SupervisionAssumption DEF SupervisionInv, TableNamesCaller
  <2>7. \A x \in Threads : CallIsSound(call'[x], cancelFlags')
    BY <2>1, <2>2, <2>4 DEF SupervisionInv
  <2>8. FlagsAreOwned'
    <3> SUFFICES ASSUME NEW s \in cancelFlags
                 PROVE  workers'[s] # NoCaller /\ call'[workers'[s]].accepted # "no"
      BY <2>2 DEF FlagsAreOwned
    <3>1. s \in Refs \ {r} /\ workers[s] \in Threads /\ call[workers[s]].accepted # "no"
      BY <2>3 DEF SupervisionInv, FlagsAreOwned
    <3>2. workers[s] # t
      BY <2>3, <3>1 DEF SupervisionInv, TableNamesCaller
    <3> QED
      BY <2>4, <2>5, <3>1, <3>2, SupervisionAssumption
  <2>9. CancelIsUnderWay'
    BY <2>2 DEF RegisterWorker, CancelIsUnderWay, WorkerLockFree
  <2> QED
    BY <2>2, <2>4, <2>5, <2>6, <2>7, <2>8, <2>9 DEF SupervisionInv
<1> QED
  BY <1>1, <1>2

(* No other call has this reference, so its flag is missed by nobody.      *)
LEMMA RemoveStep ==
  ASSUME SupervisionInv, NEW t \in Threads, RemoveWorker(t) PROVE SupervisionInv'
<1> DEFINE r == call[t].ref
           c == Answered(call[t], Decoded(call[t]))
<1>0. /\ call[t] \in CallRecords /\ CallIsSound(call[t], cancelFlags)
      /\ r \in Refs /\ spawner \in Threads \union {NoCaller} /\ call[t].pc = "removing"
  BY DEF SupervisionInv, CallIsSound, RemoveWorker
<1>1. call[t].pc \in Enrolled /\ workers[r] = t
  BY <1>0 DEF Enrolled, SupervisionInv, TableNamesCaller
<1>2. \A flags : CallIsSound(c, flags) /\ c.pc \notin Enrolled
  <2>1. /\ Decoded(call[t]) \in WorkerAnswers
        /\ Decoded(call[t]) = "cancelled" <=> call[t].answer = "cancelled"
        /\ call[t].answer # "none" => Decoded(call[t]) = call[t].answer
    BY <1>0 DEF Decoded, CallRecords, WorkerAnswers, Messages
  <2> QED
    BY <1>0, <2>1, EndedIs DEF CallIsSound, Enrolled
<1>3. /\ call' = [call EXCEPT ![t] = c] /\ workers' = [workers EXCEPT ![r] = NoCaller]
      /\ cancelFlags' = cancelFlags \ {r} /\ UNCHANGED <<cancelling, spawner>>
  BY DEF RemoveWorker, Moves
<1>4. c \in CallRecords
  BY <1>2 DEF CallIsSound
<1> HIDE DEF c
<1>5. call'[t] = c /\ call' \in [Threads -> CallRecords]
      /\ \A x \in Threads \ {t} : call'[x] = call[x]
  BY <1>3, <1>4 DEF SupervisionInv
<1>6. /\ workers' \in [Refs -> Threads \union {NoCaller}] /\ workers'[r] = NoCaller
      /\ \A s \in Refs \ {r} : workers'[s] = workers[s]
  BY <1>0, <1>3 DEF SupervisionInv
<1>7. TableNamesCaller'
  BY <1>0, <1>1, <1>2, <1>5, <1>6, SupervisionAssumption DEF SupervisionInv, TableNamesCaller
<1>8. ASSUME NEW x \in Threads PROVE CallIsSound(call'[x], cancelFlags')
  <2>1. CASE x = t
    BY <1>2, <1>5, <2>1
  <2>2. CASE x # t
    <3>1. CallIsSound(call[x], cancelFlags)
      BY DEF SupervisionInv
    <3>2. call[x].pc \in {"polling", "receiving"} => call[x].ref # r
      BY <1>0, <1>1, <2>2 DEF SupervisionInv, TableNamesCaller, Enrolled
    <3> QED
      BY <1>3, <1>5, <2>2, <3>1, <3>2 DEF CallIsSound
  <2> QED
    BY <2>1, <2>2
<1>9. FlagsAreOwned'
  <2> SUFFICES ASSUME NEW s \in cancelFlags, s # r
               PROVE  workers'[s] # NoCaller /\ call'[workers'[s]].accepted # "no"
    BY <1>3 DEF FlagsAreOwned
  <2>1. s \in Refs \ {r} /\ workers[s] \in Threads /\ call[workers[s]].accepted # "no"
    BY DEF SupervisionInv, FlagsAreOwned
  <2>2. workers[s] # t
    BY <1>0, <2>1 DEF SupervisionInv, TableNamesCaller
  <2> QED
    BY <1>5, <1>6, <2>1, <2>2, SupervisionAssumption
<1>10. CancelIsUnderWay'
  BY <1>3 DEF RemoveWorker, CancelIsUnderWay, WorkerLockFree
<1> QED
  BY <1>3, <1>5, <1>6, <1>7, <1>8, <1>9, <1>10 DEF SupervisionInv

LEMMA FlagStep ==
  ASSUME SupervisionInv, NEW r \in Refs, FlagWorker(r) PROVE SupervisionInv'
<1> DEFINE t == workers[r]
           c == [call[t] EXCEPT !.accepted = "flagged"]
<1>0. /\ t \in Threads /\ call[t].proc = "alive" /\ call[t] \in CallRecords
      /\ CallIsSound(call[t], cancelFlags) /\ call[t].ref = r /\ call[t].pc \in Enrolled
  BY DEF SupervisionInv, FlagWorker, TableNamesCaller
<1>1. /\ CallIsSound(c, cancelFlags \union {r}) /\ c.pc = call[t].pc /\ c.ref = r
      /\ c.accepted = "flagged" /\ c \in CallRecords
  <2>1. /\ c \in CallRecords /\ c.pc = call[t].pc /\ c.proc = call[t].proc
        /\ c.open = call[t].open /\ c.answer = call[t].answer /\ c.ref = r
        /\ c.accepted = "flagged"
    BY <1>0, FlaggedIs
  <2> HIDE DEF c
  <2> QED
    BY <1>0, <2>1 DEF CallIsSound
<1>2. /\ call' = [call EXCEPT ![t] = c] /\ cancelFlags' = cancelFlags \union {r}
      /\ cancelling' = [ref |-> r, at |-> "stopping"] /\ UNCHANGED <<workers, spawner>>
  BY DEF FlagWorker, Moves
<1> HIDE DEF c, t
<1>3. call'[t] = c /\ call' \in [Threads -> CallRecords]
      /\ \A x \in Threads \ {t} : call'[x] = call[x]
  BY <1>0, <1>1, <1>2 DEF SupervisionInv
<1>4. ASSUME NEW x \in Threads PROVE CallIsSound(call'[x], cancelFlags')
  <2>1. CASE x = t
    BY <1>1, <1>2, <1>3, <2>1
  <2>2. CASE x # t
    BY <1>2, <1>3, <2>2 DEF SupervisionInv, CallIsSound
  <2> QED
    BY <2>1, <2>2
<1>5. TableNamesCaller'
  BY <1>0, <1>1, <1>2, <1>3 DEF SupervisionInv, TableNamesCaller
<1>6. FlagsAreOwned'
  <2> SUFFICES ASSUME NEW s \in cancelFlags \union {r}
               PROVE  workers[s] # NoCaller /\ call'[workers[s]].accepted # "no"
    BY <1>2 DEF FlagsAreOwned
  <2>1. workers[s] \in Threads /\ (s # r => call[workers[s]].accepted # "no")
    BY <1>0 DEF SupervisionInv, FlagsAreOwned, t
  <2>2. s = r => workers[s] = t
    BY DEF t
  <2> QED
    BY <1>1, <1>3, <2>1, <2>2, SupervisionAssumption
<1>7. CancelIsUnderWay'
  BY <1>2 DEF CancelIsUnderWay
<1> QED
  BY <1>2, <1>3, <1>4, <1>5, <1>6, <1>7 DEF SupervisionInv

LEMMA StopStep == ASSUME SupervisionInv, StopWorker PROVE SupervisionInv'
<1> DEFINE r == cancelling.ref
           t == workers[r]
           c == Stopped(call[t])
<1>0. /\ cancelling \in [ref : Refs, at : {"stopping", "closing"}] /\ r \in cancelFlags
      /\ t \in Threads /\ call[t].accepted # "no" /\ call[t].ref = r /\ call[t].pc \in Enrolled
      /\ call[t] \in CallRecords /\ CallIsSound(call[t], cancelFlags)
  BY DEF SupervisionInv, StopWorker, CancelIsUnderWay, WorkerLockFree, NoCancel, FlagsAreOwned,
         TableNamesCaller
<1>1. /\ c \in CallRecords /\ c.proc # "alive" /\ c.pc = call[t].pc /\ c.ref = r
      /\ c.open = call[t].open /\ c.answer = call[t].answer /\ c.accepted = call[t].accepted
  BY <1>0, StoppedIs
<1>2. /\ call' = [call EXCEPT ![t] = c] /\ UNCHANGED <<workers, cancelFlags, spawner>>
      /\ cancelling' \in {NoCancel, [cancelling EXCEPT !.at = "closing"]}
  BY DEF StopWorker, Moves
<1> HIDE DEF c, t, r
<1>3. CallIsSound(c, cancelFlags)
  BY <1>0, <1>1 DEF CallIsSound
<1>4. call'[t] = c /\ call' \in [Threads -> CallRecords]
      /\ \A x \in Threads \ {t} : call'[x] = call[x]
  BY <1>0, <1>1, <1>2 DEF SupervisionInv
<1>5. \A x \in Threads : CallIsSound(call'[x], cancelFlags')
  BY <1>2, <1>3, <1>4 DEF SupervisionInv
<1>6. TableNamesCaller'
  BY <1>0, <1>1, <1>2, <1>4 DEF SupervisionInv, TableNamesCaller
<1>7. FlagsAreOwned'
  <2> SUFFICES ASSUME NEW s \in cancelFlags
               PROVE  workers[s] # NoCaller /\ call'[workers[s]].accepted # "no"
    BY <1>2 DEF FlagsAreOwned
  <2>1. workers[s] \in Threads /\ call[workers[s]].accepted # "no"
    BY DEF SupervisionInv, FlagsAreOwned
  <2> QED
    BY <1>0, <1>1, <1>4, <2>1, SupervisionAssumption
<1>8. CancelIsUnderWay'
  <2>1. CASE cancelling' = NoCancel
    BY <2>1 DEF CancelIsUnderWay, WorkerLockFree
  <2>2. CASE cancelling' = [cancelling EXCEPT !.at = "closing"]
    <3>1. cancelling' \in [ref : Refs, at : {"stopping", "closing"}] /\ cancelling'.ref = r
      BY <1>0, <2>2 DEF r
    <3>2. call'[workers'[r]].proc # "alive"
      BY <1>1, <1>2, <1>4 DEF t
    <3> QED
      BY <1>0, <1>2, <3>1, <3>2 DEF CancelIsUnderWay
  <2> QED
    BY <1>2, <2>1, <2>2
<1> QED
  BY <1>2, <1>4, <1>5, <1>6, <1>7, <1>8 DEF SupervisionInv

LEMMA CloseStep == ASSUME SupervisionInv, CloseReceiver PROVE SupervisionInv'
<1> DEFINE r == cancelling.ref
           t == workers[r]
           when == IF call[t].pc \in {"polling", "receiving"} THEN "early" ELSE "late"
           c == [call[t] EXCEPT !.open = FALSE, !.accepted = when]
<1>0. /\ r \in cancelFlags /\ t \in Threads /\ call[t].accepted # "no" /\ call[t].ref = r
      /\ call[t].pc \in Enrolled /\ call[t].proc # "alive"
      /\ call[t] \in CallRecords /\ CallIsSound(call[t], cancelFlags)
  BY DEF SupervisionInv, CloseReceiver, CancelIsUnderWay, WorkerLockFree, NoCancel, FlagsAreOwned,
         TableNamesCaller
<1>1. when \in {"early", "late"} /\ (when = "early" <=> call[t].pc \in {"polling", "receiving"})
  OBVIOUS
<1>2. /\ call' = [call EXCEPT ![t] = c] /\ cancelling' = NoCancel
      /\ UNCHANGED <<workers, cancelFlags, spawner>>
  BY DEF CloseReceiver, Moves
<1> HIDE DEF t, r, when
<1>3. /\ c \in CallRecords /\ c.pc = call[t].pc /\ c.proc = call[t].proc /\ ~c.open
      /\ c.answer = call[t].answer /\ c.ref = r /\ c.accepted = when
  BY <1>0, <1>1, UnpipedIs
<1> HIDE DEF c
<1>4. CallIsSound(c, cancelFlags)
  BY <1>0, <1>1, <1>3 DEF CallIsSound
<1>5. call'[t] = c /\ call' \in [Threads -> CallRecords]
      /\ \A x \in Threads \ {t} : call'[x] = call[x]
  BY <1>0, <1>2, <1>3 DEF SupervisionInv
<1>6. \A x \in Threads : CallIsSound(call'[x], cancelFlags')
  BY <1>2, <1>4, <1>5 DEF SupervisionInv
<1>7. TableNamesCaller'
  BY <1>0, <1>2, <1>3, <1>5 DEF SupervisionInv, TableNamesCaller
<1>8. FlagsAreOwned'
  <2> SUFFICES ASSUME NEW s \in cancelFlags
               PROVE  workers[s] # NoCaller /\ call'[workers[s]].accepted # "no"
    BY <1>2 DEF FlagsAreOwned
  <2>1. workers[s] \in Threads /\ call[workers[s]].accepted # "no"
    BY DEF SupervisionInv, FlagsAreOwned
  <2> QED
    BY <1>1, <1>3, <1>5, <2>1, SupervisionAssumption
<1>9. CancelIsUnderWay'
  BY <1>2 DEF CancelIsUnderWay, WorkerLockFree
<1> QED
  BY <1>2, <1>5, <1>6, <1>7, <1>8, <1>9 DEF SupervisionInv

LEMMA SupervisionSteps == SupervisionInv /\ [SupervisionNext]_supervision => SupervisionInv'
<1>1. SupervisionInv /\ UNCHANGED supervision => SupervisionInv'
  BY DEF SupervisionInv, supervision, tables, TableNamesCaller, FlagsAreOwned, CancelIsUnderWay,
         WorkerLockFree
<1> QED
  BY <1>1, EarlySteps, EnrolledSteps, RegisterStep, RemoveStep, FlagStep, StopStep, CloseStep
  DEF SupervisionNext, CallerStep, CancelGoesOn

(* supervision.py 123-307: for any number of threads and references, with  *)
(* workers that flood, hang or die and cancels at any moment, the table,   *)
(* the processes and what callers are told agree.                          *)
THEOREM SupervisionIsExactHolds == SupervisionSpec => []SupervisionIsExact
  BY InvSuffices, SupervisionStarts, SupervisionSteps, PTL DEF SupervisionSpec
=============================================================================
