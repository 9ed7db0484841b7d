------------------------- MODULE ResilientExecutor -------------------------
(***************************************************************************)
(* ResilientProviderExecutor (resilience.py): each caller runs one request *)
(* through execute, a loop that checks its deadline, takes a permit from   *)
(* the shared circuit breaker, calls the provider and, when the failure is *)
(* known to have left no effect and the operation may be repeated, sleeps  *)
(* and tries again.  The provider is external: a call ends in any of the   *)
(* ways Failures and Succeed allow.                                        *)
(***************************************************************************)
EXTENDS CircuitBreaker

CONSTANTS
  MaxAttempts,       \* RetryPolicy.max_attempts
  InitialBackoff,    \* RetryPolicy.initial_backoff_seconds
  MaxBackoff,        \* RetryPolicy.max_backoff_seconds
  Deadline           \* the deadline_seconds of every request

ASSUME ExecutorAssumption ==
  /\ MaxAttempts \in Nat \ {0}
  /\ InitialBackoff \in Nat
  /\ MaxBackoff \in Nat
  /\ Deadline \in Nat

VARIABLES
  request,   \* the provider and the kind of operation of each caller
  pc,        \* where in the loop each caller is
  attempts,  \* calls it has begun
  left,      \* time left until its deadline
  nap,       \* what is left of its backoff
  applied    \* history: how often the provider applied its operation

loopVars == <<pc, attempts, left, nap>>
vars == <<breakerVars, request, loopVars, applied>>

(* NONE and READ are safe; a keyed operation is a REVERSIBLE_WRITE with an *)
(* idempotency key; every other operation must not be repeated.            *)
Kinds == {"safe", "keyed", "unsafe"}

(* How a call fails: the category of its error, whether the error says it  *)
(* is retryable, whether the provider applied the operation all the same,  *)
(* and whether the classifier reports NOT_APPLIED, which it does only of   *)
(* failures to start (classify_adapter_failure).  An exception that is not *)
(* a CapabilityHubError is a failure of its own.                           *)
Failures ==
  {f \in [category : {"transient", "internal", "other"}, retryable : BOOLEAN,
          applied : BOOLEAN, notApplied : BOOLEAN] : f.notApplied => ~f.applied}

TypeOK ==
  /\ BreakerTypeOK
  /\ request \in [Callers -> [key : Keys, kind : Kinds]]
  /\ pc \in [Callers -> {"checking", "acquiring", "calling", "deciding", "sleeping", "done"}]
  /\ attempts \in [Callers -> 0..MaxAttempts]
  /\ left \in [Callers -> 0..Deadline]
  /\ nap \in [Callers -> 0..MaxBackoff]
  /\ applied \in [Callers -> Nat]

Init ==
  /\ BreakerInit
  /\ request \in [Callers -> [key : Keys, kind : Kinds]]
  /\ pc = [t \in Callers |-> "checking"]
  /\ attempts = [t \in Callers |-> 0]
  /\ left = [t \in Callers |-> Deadline]
  /\ nap = [t \in Callers |-> 0]
  /\ applied = [t \in Callers |-> 0]

GoTo(t, label) == pc' = [pc EXCEPT ![t] = label]

(* Mutant: a failure is repeated although the effect may have happened.    *)
MayRetryUncertain(f, kind) ==
  f.category = "transient" /\ f.retryable /\ kind # "unsafe"

(* RetryPolicy.decide and backoff_seconds.                                 *)
MayRetry(f, kind) ==
  f.notApplied /\ f.category = "transient" /\ f.retryable /\ kind # "unsafe"

Smaller(a, b) == IF a < b THEN a ELSE b
Backoff(n) == Smaller(InitialBackoff * 2 ^ (n - 1), MaxBackoff)

(* The top of the loop.                                                    *)
CheckDeadline(t) ==
  /\ pc[t] = "checking"
  /\ GoTo(t, IF left[t] = 0 THEN "done" ELSE "acquiring")
  /\ UNCHANGED <<breakerVars, request, attempts, left, nap, applied>>

Begin(t) ==
  /\ pc[t] = "acquiring"
  /\ Acquire(t, request[t].key)
  /\ GoTo(t, "calling")
  /\ attempts' = [attempts EXCEPT ![t] = @ + 1]
  /\ UNCHANGED <<request, left, nap, applied>>

(* acquire raises, outside the try: the request ends.                      *)
Refused(t) ==
  /\ pc[t] = "acquiring"
  /\ RefusedOpen(t, request[t].key) \/ RefusedCapacity(t, request[t].key)
  /\ GoTo(t, "done")
  /\ UNCHANGED <<request, attempts, left, nap, applied>>

Succeed(t) ==
  /\ pc[t] = "calling"
  /\ RecordSuccess(t)
  /\ applied' = [applied EXCEPT ![t] = @ + 1]
  /\ GoTo(t, "done")
  /\ UNCHANGED <<request, attempts, left, nap>>

(* except CapabilityHubError: the failure is reported, classified, and the *)
(* request ends unless it may be repeated.                                 *)
Fail(t, f) ==
  LET again == MayRetry(f, request[t].kind) /\ attempts[t] < MaxAttempts IN
  /\ pc[t] = "calling"
  /\ RecordFailure(t, f.category # "other")
  /\ applied' = [applied EXCEPT ![t] = IF f.applied THEN @ + 1 ELSE @]
  /\ GoTo(t, IF again THEN "deciding" ELSE "done")
  /\ UNCHANGED <<request, attempts, left, nap>>

(* except Exception.                                                       *)
Crash(t, took) ==
  /\ pc[t] = "calling"
  /\ RecordFailure(t, TRUE)
  /\ applied' = [applied EXCEPT ![t] = IF took THEN @ + 1 ELSE @]
  /\ GoTo(t, "done")
  /\ UNCHANGED <<request, attempts, left, nap>>

(* The clock is read again once the failure has been reported.             *)
Decide(t) ==
  LET over == left[t] <= Backoff(attempts[t]) IN
  /\ pc[t] = "deciding"
  /\ GoTo(t, IF over THEN "done" ELSE "sleeping")
  /\ nap' = [nap EXCEPT ![t] = IF over THEN 0 ELSE Backoff(attempts[t])]
  /\ UNCHANGED <<breakerVars, request, attempts, left, applied>>

(* The sleeper returns; it may return late.                                *)
Wake(t) ==
  /\ pc[t] = "sleeping"
  /\ nap[t] = 0
  /\ GoTo(t, "checking")
  /\ UNCHANGED <<breakerVars, request, attempts, left, nap, applied>>

(* The clock.                                                              *)
Elapse ==
  /\ AgeCircuits
  /\ left' = [t \in Callers |-> IF left[t] > 0 THEN left[t] - 1 ELSE 0]
  /\ nap' = [t \in Callers |-> IF nap[t] > 0 THEN nap[t] - 1 ELSE 0]
  /\ UNCHANGED <<order, permit, stale, request, pc, attempts, applied>>

Return(t) == Succeed(t) \/ (\E f \in Failures : Fail(t, f)) \/ (\E took \in BOOLEAN : Crash(t, took))
Step(t) == CheckDeadline(t) \/ Begin(t) \/ Refused(t) \/ Return(t) \/ Decide(t) \/ Wake(t)

Done == (\A t \in Callers : pc[t] = "done") /\ UNCHANGED vars
Next == (\E t \in Callers : Step(t)) \/ Elapse \/ Done

(* Threads run, provider calls return (their workers are killed at a hard  *)
(* deadline), the clock advances.                                          *)
Fairness == (\A t \in Callers : WF_vars(Step(t))) /\ WF_vars(Elapse)
Spec == Init /\ [][Next]_vars /\ Fairness

-----------------------------------------------------------------------------
(* However often execute repeats a call, the provider applies the          *)
(* operation at most once, as long as NOT_APPLIED is only reported of      *)
(* failures that applied nothing.                                          *)
AppliedAtMostOnce == \A t \in Callers : applied[t] <= 1

(* An operation without an idempotency key that writes is never called a   *)
(* second time (README: retries only when the operation is safe or         *)
(* idempotent).                                                            *)
UnsafeCalledOnce ==
  \A t \in Callers : request[t].kind = "unsafe" => attempts[t] <= 1

(* Every way out of a call gives its permit back, and no caller holds one  *)
(* while it sleeps: a permit that leaked would leave a half-open circuit   *)
(* refusing every call for good.                                           *)
NoPermitLeaks == \A t \in Callers : permit[t] # NoPermit <=> pc[t] = "calling"

(* Every request ends.                                                     *)
EveryRequestEnds == \A t \in Callers : <>(pc[t] = "done")

(* A half-open circuit is decided, and an open one lets its provider be    *)
(* tried again, although requests end in every way they can.               *)
CircuitsRecover ==
  \A k \in Keys : (entry[k].state # "closed") ~>
                    (entry[k].state = "closed" \/ Recovers(entry[k]))

(* A request, however often it is attempted, is applied at most once and   *)
(* holds its permit exactly while its provider call runs.                  *)
AppliedAndReleased == AppliedAtMostOnce /\ NoPermitLeaks

(* Requests end, and the circuits they leave behind do not stay shut.      *)
RequestsAndCircuitsSettle == EveryRequestEnds /\ CircuitsRecover
=============================================================================
