---- MODULE MCCalls ----
(***************************************************************************)
(* What happens while a capability is called, one component at a time:     *)
(* which is chosen at the start and the others rest.  Each keeps the       *)
(* fairness of its own specification.                                      *)
(***************************************************************************)
EXTENDS Execution, Supervision, DrainController, TLC

VARIABLE which

CONSTANTS tool, lib, tool1, tool2, lib1

(* DrainController: one capability with two revisions, another with one.   *)
MCCoordinateOf == tool1 :> tool @@ tool2 :> tool @@ lib1 :> lib

-----------------------------------------------------------------------------
In(k) ==
  /\ which = k /\ UNCHANGED which
  /\ k # "execution"   => UNCHANGED vars
  /\ k # "supervision" => UNCHANGED supervision
  /\ k # "drain"       => UNCHANGED drain

CallsInit ==
  /\ which \in {"execution", "supervision", "drain"}
  /\ Init /\ SupervisionInit /\ DrainInit
  (* A component that rests has one initial state.                         *)
  /\ \/ which = "execution"
     \/ request = CHOOSE f \in [Callers -> [slot : {NoSlot}, args : Arguments]] : TRUE

CallsNext ==
  \/ In("execution") /\ Next
  \/ In("supervision") /\ SupervisionNext
  \/ In("drain") /\ DrainNext

CallsVars == <<which, vars, supervision, drain>>

CallsSpec ==
  /\ CallsInit /\ [][CallsNext]_CallsVars
  /\ \A c \in Callers : WF_CallsVars(In("execution") /\ Work(c))
  /\ \A t \in Threads : SF_CallsVars(In("supervision") /\ CallerStep(t))
  /\ WF_CallsVars(In("supervision") /\ CancelGoesOn)
  /\ \A p \in PinIds : WF_CallsVars(In("drain") /\ ReleaseExecution(p))
====
