------------------------------ MODULE ApprovedCall ------------------------------
(***************************************************************************)
(* _local_execute (runtime.py): one call loads a capability, consumes the  *)
(* approval it was given, turns it into an approval reference and then     *)
(* executes.  The approval store is seen through what ApprovalStore        *)
(* promises; each call is a process, with a signer of its own, that may    *)
(* die between any two steps.                                              *)
(***************************************************************************)
EXTENDS FiniteSets, Naturals

CONSTANTS
  Runs,          \* calls of local_execute
  Approvals,     \* approval identifiers
  Intents        \* revision, operation and arguments, all of which need approval

VARIABLES
  granted,       \* approval -> the row of the approval store
  run,           \* what each call does
  effects        \* history: what the provider did, as <<run, intent, approval>>

approvedCalls == <<granted, run, effects>>

NoRun == [step |-> "idle"]
NoApproval == "none"   \* approved=True, or no approval at all

ASSUME ApprovedAssumption == NoApproval \notin Approvals \cup Intents

ApprovedInit ==
  /\ granted = [a \in Approvals |-> [status |-> "absent"]]
  /\ run = [r \in Runs |-> NoRun]
  /\ effects = {}

-----------------------------------------------------------------------------
(* local_approval_request binds the approval to an exact intent.           *)
RequestIntent(a, i) ==
  /\ granted[a].status = "absent"
  /\ granted' = [granted EXCEPT ![a] = [status |-> "pending", intent |-> i]]
  /\ UNCHANGED <<run, effects>>

DecideApproval(a, decision) ==
  /\ granted[a].status = "pending" /\ decision \in {"approved", "denied"}
  /\ granted' = [granted EXCEPT ![a].status = decision]
  /\ UNCHANGED <<run, effects>>

RunAt(r, step) == run[r] # NoRun /\ run[r].step = step
RunGoes(r, step) == run' = [run EXCEPT ![r].step = step]

(* The caller's identifier, or its word that the call is approved.         *)
StartRun(r, i, a, said) ==
  /\ run[r] = NoRun
  /\ run' = [run EXCEPT ![r] = [step |-> "loading", intent |-> i, approval |-> a,
                                said |-> said, ticket |-> NoApproval]]
  /\ UNCHANGED <<granted, effects>>

(* The load through the adapter, and the lookup of the operation.          *)
LoadForRun(r) ==
  /\ RunAt(r, "loading")
  /\ RunGoes(r, IF run[r].approval # NoApproval THEN "consuming"
             ELSE IF run[r].said THEN "issuing" ELSE "executing")
  /\ UNCHANGED <<granted, effects>>

ConsumableAnyIntent(r) == granted[run[r].approval].status = "approved"  \* faulty
Consumable(r) == granted[run[r].approval] = [status |-> "approved", intent |-> run[r].intent]

ConsumeForRun(r) ==
  /\ RunAt(r, "consuming")
  /\ IF Consumable(r)
     THEN RunGoes(r, "issuing") /\ granted' = [granted EXCEPT ![run[r].approval].status = "consumed"]
     ELSE RunGoes(r, "refused") /\ UNCHANGED granted
  /\ UNCHANGED effects

(* issue_approval: a reference for this intent, good for this call only.   *)
IssueTicket(r) ==
  /\ RunAt(r, "issuing")
  /\ run' = [run EXCEPT ![r].step = "executing", ![r].ticket = run[r].intent]
  /\ UNCHANGED <<granted, effects>>

(* The execution verifies the reference against its own intent, and calls. *)
ExecuteRun(r) ==
  /\ RunAt(r, "executing") /\ run[r].ticket = run[r].intent
  /\ RunGoes(r, "done")
  /\ effects' = effects \cup {<<r, run[r].intent, run[r].approval>>}
  /\ UNCHANGED granted

(* A policy, a budget, a dependency, a provider or a crash ends the call.  *)
AbandonRun(r) ==
  /\ run[r] # NoRun /\ run[r].step \notin {"done", "refused"}
  /\ RunGoes(r, "refused")
  /\ UNCHANGED <<granted, effects>>

ApprovedNext ==
  \/ \E a \in Approvals, i \in Intents : RequestIntent(a, i)
  \/ \E a \in Approvals, d \in {"approved", "denied"} : DecideApproval(a, d)
  \/ \E r \in Runs, i \in Intents, a \in Approvals \cup {NoApproval}, said \in BOOLEAN :
       StartRun(r, i, a, said)
  \/ \E r \in Runs : \/ LoadForRun(r) \/ ConsumeForRun(r) \/ IssueTicket(r)
                     \/ ExecuteRun(r) \/ AbandonRun(r)
ApprovedSpec == ApprovedInit /\ [][ApprovedNext]_approvedCalls

-----------------------------------------------------------------------------
(* However calls that were given the same approval interleave, fail or     *)
(* die, an approval lets the provider act once and only on what an         *)
(* operator approved; a call without an approval acts only on the word of  *)
(* its caller.                                                             *)
ApprovedOnce ==
  /\ \A e \in effects :
       IF e[3] = NoApproval THEN run[e[1]].said
       ELSE granted[e[3]] = [status |-> "consumed", intent |-> e[2]]
  /\ \A a \in Approvals : Cardinality({e \in effects : e[3] = a}) <= 1

(* What an approval was consumed for is done or still under way: not so,   *)
(* the approval is spent before the execution is admitted.                 *)
ConsumedIsUsed ==
  \A a \in Approvals : granted[a].status = "consumed" =>
    \E r \in Runs : run[r] # NoRun /\ run[r].approval = a /\ run[r].step # "refused"
=============================================================================
