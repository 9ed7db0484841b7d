------------------------------- MODULE Draining -------------------------------
(***************************************************************************)
(* DrainController (draining.py): revisions accept executions, drain and   *)
(* retire; executions are admitted with a pin and release it.  Every       *)
(* method runs under one lock, so a method is an action; what is hard is   *)
(* the order in which admissions, releases, drains of a revision and       *)
(* drains of a whole capability reach the controller.                      *)
(*                                                                         *)
(* A controller is a record d, and a method an operator from records to    *)
(* records, so that DrainedService can have one controller a generation.   *)
(***************************************************************************)
EXTENDS FiniteSets, Naturals

CONSTANTS
  Coordinates, Revisions, CoordinateOf, PinIds, NoPin,
  MaxCoordinates, MaxRevisions, MaxInFlight   \* capacities of the controller

ASSUME ControllerAssumption ==
  /\ CoordinateOf \in [Revisions -> Coordinates]
  /\ NoPin \notin [revision : Revisions, cancellable : BOOLEAN, asked : BOOLEAN]

States == {"unknown", "accepting", "draining", "retired"}
Pins   == [revision : Revisions, cancellable : BOOLEAN, asked : BOOLEAN]

(* The field forced is the part of the event log the properties need: the  *)
(* revisions recorded as revision_force_retired.                           *)
Controllers == [coordinates : [Coordinates -> States],
                revisions   : [Revisions -> States],
                pins        : [PinIds -> Pins \cup {NoPin}],
                forced      : SUBSET Revisions]

Empty == [coordinates |-> [c \in Coordinates |-> "unknown"],
          revisions   |-> [r \in Revisions |-> "unknown"],
          pins        |-> [p \in PinIds |-> NoPin],
          forced      |-> {}]

RevisionsOf(c) == {r \in Revisions : CoordinateOf[r] = c}

PinsOf(d, r) == {p \in PinIds : d.pins[p] # NoPin /\ d.pins[p].revision = r}
InFlight(d)  == {p \in PinIds : d.pins[p] # NoPin}

(* _target_pins: the pins of a set of revisions.                           *)
TargetPins(d, targets) == {p \in InFlight(d) : d.pins[p].revision \in targets}

Registered(d) == {r \in Revisions : d.revisions[r] # "unknown"}
Known(d)      == {c \in Coordinates : d.coordinates[c] # "unknown"}

-----------------------------------------------------------------------------
(* Mutant: registering a revision again starts it afresh.                  *)
CanRegisterAgain(d, r) ==
  d.coordinates[CoordinateOf[r]] \in {"unknown", "accepting"}

(* register: a revision that is known is left as it is.                    *)
CanRegister(d, r) ==
  /\ r \notin Registered(d)
  /\ d.coordinates[CoordinateOf[r]] \in {"unknown", "accepting"}
  /\ Cardinality(Registered(d)) < MaxRevisions
  /\ CoordinateOf[r] \in Known(d) \/ Cardinality(Known(d)) < MaxCoordinates

Register(d, r) ==
  [d EXCEPT !.revisions[r] = "accepting",
            !.coordinates[CoordinateOf[r]] = "accepting"]

(* Mutant: executions are admitted until the revision has retired.         *)
AcceptsWhileDraining(d, r) ==
  {d.revisions[r], d.coordinates[CoordinateOf[r]]} \subseteq {"accepting", "draining"}

Accepts(d, r) ==
  d.revisions[r] = "accepting" /\ d.coordinates[CoordinateOf[r]] = "accepting"

(* admit: a pin that is held with the same binding is handed out again.    *)
SameBinding(pin, r, cancellable) ==
  pin # NoPin /\ pin.revision = r /\ pin.cancellable = cancellable

CanAdmit(d, r, p, cancellable) ==
  /\ Accepts(d, r)
  /\ \/ SameBinding(d.pins[p], r, cancellable)
     \/ d.pins[p] = NoPin /\ Cardinality(InFlight(d)) < MaxInFlight

Admit(d, r, p, cancellable) ==
  IF d.pins[p] # NoPin THEN d
  ELSE [d EXCEPT !.pins[p] =
          [revision |-> r, cancellable |-> cancellable, asked |-> FALSE]]

(* _maybe_retire_coordinate.                                               *)
SettleCoordinate(d, c) ==
  IF /\ d.coordinates[c] = "draining"
     /\ \A r \in RevisionsOf(c) \cap Registered(d) : d.revisions[r] = "retired"
  THEN [d EXCEPT !.coordinates[c] = "retired"] ELSE d

(* A draining revision without pins retires (release, _begin_revision_drain). *)
RetireIdle(d, targets) ==
  [d EXCEPT !.revisions = [r \in Revisions |->
     IF r \in targets /\ @[r] = "draining" /\ PinsOf(d, r) = {}
     THEN "retired" ELSE @[r]]]

(* release, of a pin that is held.                                         *)
Release(d, p) ==
  LET r        == d.pins[p].revision
      released == [d EXCEPT !.pins[p] = NoPin]
  IN  SettleCoordinate(RetireIdle(released, {r}), CoordinateOf[r])

(* _begin_revision_drain, for every target that still accepts.             *)
BeginRevisionDrain(d, targets) ==
  RetireIdle([d EXCEPT !.revisions = [r \in Revisions |->
                IF r \in targets /\ @[r] = "accepting" THEN "draining" ELSE @[r]]],
             {r \in targets : d.revisions[r] = "accepting"})

(* begin_drain of a whole capability.                                      *)
BeginCoordinateDrain(d, c) ==
  SettleCoordinate(
    BeginRevisionDrain(
      [d EXCEPT !.coordinates[c] = IF @ = "accepting" THEN "draining" ELSE @],
      RevisionsOf(c)), c)

(* advance after the deadline: ask the pins that can be cancelled and have *)
(* not been asked.  Before the deadline, and when there is no such pin,    *)
(* advance only reports; a draining target without pins, which it would    *)
(* retire, does not occur (DrainingHasWork).                               *)
Askable(d, targets) ==
  {p \in TargetPins(d, targets) : d.pins[p].cancellable /\ ~d.pins[p].asked}

Advance(d, targets) ==
  [d EXCEPT !.pins = [p \in PinIds |->
     IF p \in Askable(d, targets) THEN [@[p] EXCEPT !.asked = TRUE] ELSE @[p]]]

(* force_retire (_retire_target): draining targets retire with their pins. *)
ForceRevision(d, r) ==
  SettleCoordinate([d EXCEPT !.revisions[r] = "retired", !.forced = @ \cup {r}],
                   CoordinateOf[r])

ForceCoordinate(d, c) ==
  LET forced == {r \in RevisionsOf(c) : d.revisions[r] = "draining"} IN
  [d EXCEPT !.revisions = [r \in Revisions |-> IF r \in forced THEN "retired" ELSE @[r]],
            !.coordinates[c] = "retired",
            !.forced = @ \cup forced]
=============================================================================
