---------------------------- MODULE PointerContract ----------------------------
(***************************************************************************)
(* What SQLiteUpdateStore (update_store.py) promises its readers: one      *)
(* active revision per capability, switched from one compatible set of     *)
(* revisions to another in one step, and pins that keep the revision they  *)
(* were taken on however the pointers move.  Staging and health checks     *)
(* are the store's own business (UpdateStore) and invisible here.          *)
(***************************************************************************)
EXTENDS FiniteSets

CONSTANTS
  Coordinates,   \* the capabilities
  Revisions,     \* their immutable revisions
  CoordinateOf,  \* the capability of each revision
  Needs,         \* the revisions any one of which meets the dependency of a
                 \* revision; none for a revision without dependency
  PinIds,        \* identifiers of the pins
  NoRevision, NoPin

Pointers == {p \in [Coordinates -> Revisions \cup {NoRevision}] :
               \A c \in Coordinates : p[c] # NoRevision => CoordinateOf[p[c]] = c}

Selected(p) == {p[c] : c \in Coordinates} \ {NoRevision}

(* CapabilityRegistry.validate_staged over the revisions pointed at: every *)
(* dependency is met by one of them.                                       *)
Compatible(p) ==
  \A r \in Selected(p) : Needs[r] # {} => Needs[r] \cap Selected(p) # {}

VARIABLES active, pins

contractVars == <<active, pins>>

ContractTypes ==
  /\ active \in Pointers
  /\ pins \in [PinIds -> Revisions \cup {NoPin}]

ContractInit(installed) ==
  /\ active = installed
  /\ pins = [p \in PinIds |-> NoPin]

(* The pointer of a capability moves; the outcome is compatible.           *)
Switch(c, r) ==
  /\ CoordinateOf[r] = c
  /\ active' = [active EXCEPT ![c] = r]
  /\ Compatible(active')
  /\ UNCHANGED pins

(* pin_active: a pin is taken on the active revision, and taking it again  *)
(* is accepted only while that revision is still the active one.           *)
Pinnable(c, p) == active[c] # NoRevision /\ pins[p] \in {NoPin, active[c]}

PinActive(c, p) ==
  /\ Pinnable(c, p)
  /\ pins' = [pins EXCEPT ![p] = active[c]]
  /\ UNCHANGED active

(* release_pin: deleting a pin that is not there is answered with False.   *)
ReleasePin(p) ==
  /\ pins' = [pins EXCEPT ![p] = NoPin]
  /\ UNCHANGED active

ContractNext ==
  \/ \E c \in Coordinates, r \in Revisions : Switch(c, r)
  \/ \E c \in Coordinates, p \in PinIds : PinActive(c, p)
  \/ \E p \in PinIds : ReleasePin(p)
=============================================================================
