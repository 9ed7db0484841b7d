------------------------------- MODULE Reasoning -------------------------------
(***************************************************************************)
(* Choosing a model for a task (reasoning.py, orchestration.py,            *)
(* reasoning_store.py, and _apply_reasoning of service_adapter.py): every  *)
(* operation of a task asks the router for a tier, may pay for a model     *)
(* call, runs and reports how it ended.  Threads of one task interleave    *)
(* between these steps.  The durable adviser of the command line gives the *)
(* same advice from a stored state (_recommend_persisted).                 *)
(***************************************************************************)
EXTENDS Integers, FiniteSets, FiniteSetsExt, Functions

CONSTANTS
  Askers,          \* threads
  Operations,      \* operations of the task
  ErrorCodes,      \* codes of the errors they end with
  EndpointTiers,   \* tiers of the configured endpoints, a subset of Tiers
  EstimateOf,      \* tier_token_estimates
  TokenBudget,     \* hard limit of reasoning_tokens
  MaxEscalations,  \* max_escalations
  MaxEquivalent,   \* max_equivalent_attempts
  MaxSpent         \* bound: tokens charged (the counter of a run grows for ever)

Tiers == 1..3      \* low, medium, high
NoTier == 0
NoOperation == "none"

(* What record_result keeps of an error, and the router counts attempts by.*)
Failures == Operations \X ErrorCodes
NoFailure == <<NoOperation, NoOperation>>

ASSUME EstimatesAssumption ==
  /\ EstimateOf \in [Tiers -> Nat \ {0}]
  /\ EstimateOf[1] <= EstimateOf[2] /\ EstimateOf[2] <= EstimateOf[3]
  /\ EndpointTiers \in SUBSET Tiers /\ MaxEquivalent \in Nat \ {0}
  /\ MaxEscalations \in Nat /\ TokenBudget \in Nat
  /\ IsFiniteSet(Askers) /\ NoOperation \notin Operations

VARIABLES
  task,            \* _TaskState of the task
  failure,         \* _failures: how the task failed last, or NoFailure
  tokens,          \* counter of reasoning_tokens in the task's ledger
  asker,           \* threads
  admitted         \* history: decisions given with each failure as evidence

reasoning == <<task, failure, tokens, asker, admitted>>

NothingSpent == [tier |-> NoTier, escalations |-> 0, attempts |-> [f \in Failures |-> 0]]
Asking == [pc : {"idle", "budgeting", "routing", "paying", "calling", "running"},
           op : Operations \union {NoOperation}, floor : Tiers, tiers : SUBSET Tiers,
           failed : Failures \union {NoFailure}, tier : Tiers \union {NoTier}]
NotAsking == [pc |-> "idle", op |-> NoOperation, floor |-> 1, tiers |-> {},
            failed |-> NoFailure, tier |-> NoTier]

ReasoningInit ==
  /\ task = NothingSpent /\ failure = NoFailure
  /\ tokens = [used |-> 0, reserved |-> 0]
  /\ asker = [a \in Askers |-> NotAsking]
  /\ admitted = [f \in Failures |-> 0]

Remaining == Max({0, TokenBudget - tokens.used - tokens.reserved})

-----------------------------------------------------------------------------
(* The router.  A count of attempts is kept only up to one more than the   *)
(* limit it is compared with.                                              *)

Lowest(tiers) == Min(tiers)
Candidates(tiers, floor) == {t \in tiers : t >= floor}
RepeatedOnceMore(st, failed) ==  \* faulty: one attempt too many
  failed # NoFailure /\ st.attempts[failed] > MaxEquivalent
Repeated(st, failed) == failed # NoFailure /\ st.attempts[failed] >= MaxEquivalent
Counted(st, failed) ==
  IF failed = NoFailure THEN st.attempts
  ELSE [st.attempts EXCEPT ![failed] = Min({@ + 1, MaxEquivalent + 1})]

Advice(st, tier, escalated, stop, failed) ==
  [tier |-> tier, stop |-> stop,
   state |-> [tier |-> tier, escalations |-> st.escalations + escalated,
              attempts |-> Counted(st, failed)]]

(* What follows once the current tier and the tiers above it are known.    *)
Escalate(st, current, higher, failed) ==
  IF failed = NoFailure THEN Advice(st, current, 0, FALSE, failed)
  ELSE IF Repeated(st, failed) \/ st.escalations >= MaxEscalations \/ higher = {}
    THEN Advice(st, current, 0, TRUE, failed)
    ELSE Advice(st, Lowest(higher), 1, FALSE, failed)

Route(st, affordable, floor, failed) ==
  LET candidates == Candidates(affordable, floor)
      current == IF st.tier \in candidates THEN st.tier ELSE Lowest(candidates)
  IN Escalate(st, current, {t \in candidates : t > current}, failed)

(* The durable adviser: a router with no history gives the baseline, and   *)
(* the stored state moves upwards from it.                                 *)
RecommendPersisted(st, affordable, floor, failed) ==
  LET baseline == Route(NothingSpent, affordable, floor, NoFailure).tier
      safe == {t \in affordable : t >= baseline}
      current == IF st.tier \in safe THEN st.tier ELSE baseline
  IN Escalate(st, current, {t \in safe : t > current}, failed)

-----------------------------------------------------------------------------
(* One operation of the task.                                              *)

(* The risk of the operation and its number of dependencies give the       *)
(* floor; the caller's ceilings of tier, cost and latency leave some of    *)
(* the endpoints, and none at all is an error that is not recorded.  The   *)
(* last failure is read in a lock of its own.                              *)
Ask(a, op, floor, eligible) ==
  /\ asker[a].pc = "idle" /\ eligible # {}
  /\ asker' = [asker EXCEPT ![a] = [pc |-> "budgeting", op |-> op, floor |-> floor,
                                    tiers |-> eligible, failed |-> failure, tier |-> NoTier]]
  /\ UNCHANGED <<task, failure, tokens, admitted>>

(* The tiers whose estimate fits the snapshot of the budget.               *)
SnapshotBudget(a) ==
  /\ asker[a].pc = "budgeting"
  /\ asker' = [asker EXCEPT ![a].pc = "routing",
                            ![a].tiers = {t \in @ : EstimateOf[t] <= Remaining}]
  /\ UNCHANGED <<task, failure, tokens, admitted>>

(* NoEligibleReasoningTier, before the router has touched its state.       *)
FindNoTier(a) ==
  /\ asker[a].pc = "routing"
  /\ Candidates(asker[a].tiers, asker[a].floor) = {}
  /\ asker' = [asker EXCEPT ![a] = NotAsking]
  /\ UNCHANGED <<task, failure, tokens, admitted>>

(* route, under the router's lock.  A decision to stop raises.             *)
Decide(a) ==
  LET q == asker[a]
      advice == Route(task, q.tiers, q.floor, q.failed)
  IN
  /\ q.pc = "routing" /\ Candidates(q.tiers, q.floor) # {}
  /\ task' = advice.state
  /\ asker' = [asker EXCEPT ![a] = IF advice.stop THEN NotAsking
                                   ELSE [pc |-> "paying", op |-> q.op, floor |-> q.floor,
                                         tiers |-> q.tiers, tier |-> advice.tier,
                                         failed |-> NoFailure]]
  /\ admitted' = IF advice.stop \/ q.failed = NoFailure THEN admitted
                 ELSE [admitted EXCEPT ![q.failed] = Min({@ + 1, MaxEquivalent + 1})]
  /\ UNCHANGED <<failure, tokens>>

(* Without a model executor nothing is paid for.                           *)
SkipModel(a) ==
  /\ asker[a].pc = "paying"
  /\ asker' = [asker EXCEPT ![a].pc = "running"]
  /\ UNCHANGED <<task, failure, tokens, admitted>>

(* The estimate is reserved; what another thread has taken meanwhile makes *)
(* it fail, outside the handler that records failures.                     *)
ReserveEstimate(a) ==
  LET estimate == EstimateOf[asker[a].tier] IN
  /\ asker[a].pc = "paying"
  /\ IF estimate <= Remaining
       THEN /\ tokens' = [tokens EXCEPT !.reserved = @ + estimate]
            /\ asker' = [asker EXCEPT ![a].pc = "calling"]
       ELSE /\ asker' = [asker EXCEPT ![a] = NotAsking] /\ UNCHANGED tokens
  /\ UNCHANGED <<task, failure, admitted>>

Fail(a) ==
  /\ \E code \in ErrorCodes : failure' = <<asker[a].op, code>>
  /\ asker' = [asker EXCEPT ![a] = NotAsking]

Release(a) == tokens.reserved - EstimateOf[asker[a].tier]
Charge(a, usage) == [used |-> tokens.used + usage, reserved |-> Release(a)]

(* The model answers within the policy.                                    *)
PayModel(a, usage) ==
  /\ asker[a].pc = "calling" /\ Charge(a, usage).used <= MaxSpent
  /\ Charge(a, usage).used + Release(a) <= TokenBudget
  /\ tokens' = Charge(a, usage)
  /\ asker' = [asker EXCEPT ![a].pc = "running"]
  /\ UNCHANGED <<task, failure, admitted>>

(* It answers but breaks the policy (endpoint, cost, latency): charged and *)
(* failed.                                                                 *)
PayOffender(a, usage) ==
  /\ asker[a].pc = "calling" /\ Charge(a, usage).used <= MaxSpent
  /\ Charge(a, usage).used + Release(a) <= TokenBudget
  /\ tokens' = Charge(a, usage) /\ Fail(a)
  /\ UNCHANGED <<task, admitted>>

(* The call raises, or its usage does not fit: the reservation, still      *)
(* active, is cancelled.                                                   *)
LoseModel(a) ==
  /\ asker[a].pc = "calling"
  /\ tokens' = [tokens EXCEPT !.reserved = Release(a)] /\ Fail(a)
  /\ UNCHANGED <<task, admitted>>

(* The operation itself, and record_result.                                *)
Succeed(a) ==
  /\ asker[a].pc = "running"
  /\ failure' = NoFailure /\ asker' = [asker EXCEPT ![a] = NotAsking]
  /\ UNCHANGED <<task, tokens, admitted>>

FailOperation(a) ==
  /\ asker[a].pc = "running" /\ Fail(a)
  /\ UNCHANGED <<task, tokens, admitted>>

ReasoningNext ==
  \E a \in Askers :
    \/ \E op \in Operations, floor \in EndpointTiers, eligible \in SUBSET EndpointTiers :
         Ask(a, op, floor, eligible)
    \/ SnapshotBudget(a) \/ FindNoTier(a) \/ Decide(a)
    \/ SkipModel(a) \/ ReserveEstimate(a)
    \/ \E usage \in 0..MaxSpent : PayModel(a, usage) \/ PayOffender(a, usage)
    \/ LoseModel(a) \/ Succeed(a) \/ FailOperation(a)

ReasoningSpec == ReasoningInit /\ [][ReasoningNext]_reasoning

-----------------------------------------------------------------------------
(* Properties.                                                             *)

ReasoningTypeOK ==
  /\ task \in [tier : Tiers \union {NoTier}, escalations : 0..MaxEscalations,
               attempts : [Failures -> 0..(MaxEquivalent + 1)]]
  /\ failure \in Failures \union {NoFailure}
  /\ tokens \in [used : Nat, reserved : Nat]
  /\ asker \in [Askers -> Asking]

(* However the threads of a task interleave, at most MaxEquivalent of its  *)
(* decisions go ahead on the evidence of one and the same failure, and the *)
(* tier rises at most MaxEscalations times (the bounds of ReasoningRouter).*)
RetriesAreBounded ==
  /\ \A f \in Failures : admitted[f] <= MaxEquivalent
  /\ task.escalations <= MaxEscalations

HeldBy(a) == IF asker[a].pc = "calling" THEN EstimateOf[asker[a].tier] ELSE 0

(* The tier a thread goes on with is one its endpoints offer and its risk  *)
(* demands, and what the threads hold of the budget is what it reserves:   *)
(* a failed call or a broken policy leaves no tokens behind.               *)
TokensAreSettled ==
  /\ \A a \in Askers : asker[a].pc \in {"paying", "calling", "running"} =>
       asker[a].tier \in Candidates(asker[a].tiers, asker[a].floor)
  /\ tokens.reserved = SumFunction([a \in Askers |-> HeldBy(a)])
  /\ tokens.used + tokens.reserved <= TokenBudget

(* Whenever a thread is about to be advised, the in-memory router and the  *)
(* durable adviser would advise the same, whatever tiers are affordable    *)
(* and whatever the risk demands.                                          *)
StoresAgree ==
  \A a \in Askers : asker[a].pc = "routing" =>
    \A floor \in Tiers, affordable \in SUBSET EndpointTiers :
      Candidates(affordable, floor) # {} =>
        Route(task, affordable, floor, asker[a].failed)
          = RecommendPersisted(task, affordable, floor, asker[a].failed)

(* Retries and escalations are bounded, tokens are charged once, and both  *)
(* stores tell of the same attempts.                                       *)
ReasoningIsBounded ==
  ReasoningTypeOK /\ RetriesAreBounded /\ TokensAreSettled /\ StoresAgree
=============================================================================
