--------------------------- MODULE DrainController ---------------------------
(***************************************************************************)
(* One DrainController (draining.py) whose methods are called in any order *)
(* by executions, operators and timers.                                    *)
(***************************************************************************)
EXTENDS Draining

VARIABLE drain

DrainInit == drain = Empty

RegisterRevision(r) == CanRegister(drain, r) /\ drain' = Register(drain, r)

AdmitExecution(r, p, cancellable) ==
  CanAdmit(drain, r, p, cancellable) /\ drain' = Admit(drain, r, p, cancellable)

ReleaseExecution(p) == drain.pins[p] # NoPin /\ drain' = Release(drain, p)

DrainRevision(r) ==
  r \in Registered(drain) /\ drain' = BeginRevisionDrain(drain, {r})

DrainCoordinate(c) ==
  c \in Known(drain) /\ drain' = BeginCoordinateDrain(drain, c)

AdvanceRevision(r) ==
  drain.revisions[r] = "draining" /\ drain' = Advance(drain, {r})

AdvanceCoordinate(c) ==
  drain.coordinates[c] = "draining" /\ drain' = Advance(drain, RevisionsOf(c))

ForceRetireRevision(r) ==
  drain.revisions[r] = "draining" /\ drain' = ForceRevision(drain, r)

ForceRetireCoordinate(c) ==
  drain.coordinates[c] = "draining" /\ drain' = ForceCoordinate(drain, c)

DrainNext ==
  \/ \E r \in Revisions :
       \/ RegisterRevision(r) \/ DrainRevision(r)
       \/ AdvanceRevision(r) \/ ForceRetireRevision(r)
       \/ \E p \in PinIds, cancellable \in BOOLEAN : AdmitExecution(r, p, cancellable)
  \/ \E c \in Coordinates :
       DrainCoordinate(c) \/ AdvanceCoordinate(c) \/ ForceRetireCoordinate(c)
  \/ \E p \in PinIds : ReleaseExecution(p)

(* Executions end and release their pins (execute does so in a finally).   *)
DrainSpec == /\ DrainInit /\ [][DrainNext]_drain
             /\ \A p \in PinIds : WF_drain(ReleaseExecution(p))

-----------------------------------------------------------------------------
(* Properties.                                                             *)

DrainTypeOK ==
  /\ drain \in Controllers
  /\ Cardinality(Registered(drain)) <= MaxRevisions
  /\ Cardinality(Known(drain)) <= MaxCoordinates
  /\ Cardinality(InFlight(drain)) <= MaxInFlight

(* A revision that was not forced retires only when its last execution has *)
(* released its pin, and takes no execution after (admit, release and      *)
(* begin_drain serialise on one lock).                                     *)
RetiredIsIdle ==
  \A r \in Revisions :
    drain.revisions[r] = "retired" /\ r \notin drain.forced => PinsOf(drain, r) = {}

(* A draining revision has work to wait for: with nothing in flight it     *)
(* would never be looked at again, as only a release retires it.           *)
DrainingHasWork ==
  \A r \in Revisions : drain.revisions[r] = "draining" => PinsOf(drain, r) # {}

(* A capability and its revisions agree: a retired capability has only     *)
(* retired revisions, a draining one accepts nowhere and still waits for   *)
(* one of them (_maybe_retire_coordinate is called wherever it matters).   *)
CoordinateAgrees ==
  \A c \in Coordinates :
    LET states == {drain.revisions[r] : r \in RevisionsOf(c)} \ {"unknown"} IN
    /\ drain.coordinates[c] = "retired" => states = {"retired"}
    /\ drain.coordinates[c] = "draining" =>
         "draining" \in states /\ "accepting" \notin states

(* Only executions on revisions that left service are asked to stop        *)
(* (advance), and only those that can.                                     *)
OnlyDrainingAsked ==
  \A p \in InFlight(drain) :
    drain.pins[p].asked =>
      drain.pins[p].cancellable /\ drain.revisions[drain.pins[p].revision] # "accepting"

Order == [unknown |-> 0, accepting |-> 1, draining |-> 2, retired |-> 3]

(* No call brings a revision or a capability back into service.            *)
NeverBack ==
  [][/\ \A r \in Revisions : Order[drain'.revisions[r]] >= Order[drain.revisions[r]]
     /\ \A c \in Coordinates : Order[drain'.coordinates[c]] >= Order[drain.coordinates[c]]]_drain

(* A drain ends when the executions do, without anybody advancing it.      *)
DrainsEnd ==
  /\ \A r \in Revisions : drain.revisions[r] = "draining" ~> drain.revisions[r] = "retired"
  /\ \A c \in Coordinates :
       drain.coordinates[c] = "draining" ~> drain.coordinates[c] = "retired"

(* Leaving service is final and complete: nothing returns, and nothing     *)
(* retires under an execution or before its revisions.                     *)
DrainIsFinal == [](RetiredIsIdle /\ CoordinateAgrees) /\ NeverBack
=============================================================================
