----------------------------- MODULE Execution -----------------------------
(***************************************************************************)
(* CapabilityHubService.execute (service.py) with the stores it crosses: a *)
(* reservation in the budget ledger, the idempotency record of the request *)
(* (idempotency.py, SqliteIdempotencyStore), and the provider, which is    *)
(* external.  Each of them is a transaction or a call of its own, so what  *)
(* this module is about is the steps between them: other callers with the  *)
(* same idempotency key, a crash, a record that expires, a startup that    *)
(* recovers abandoned records while their owner still works, a step that   *)
(* raises after others have been made.                                     *)
(*                                                                         *)
(* The service without a store keeps its records in memory: the same steps *)
(* without Expire, Recover and Wait (it answers in_progress at once).      *)
(***************************************************************************)
EXTENDS Naturals, FiniteSets

CONSTANTS
  Callers,     \* calls of execute
  Slots,       \* idempotency slots: scope, task, revision, operation and key
  Arguments,   \* digests of arguments and side effect
  NoSlot, Nobody,
  Capacity,    \* how many executions the budget allows
  Persist,     \* persist_results
  CanCrash,    \* a caller's process may die
  CanRecover,  \* a store may be opened with recover_abandoned
  CanFail      \* a transaction or the audit sink may raise

ASSUME ExecutionAssumption ==
  /\ NoSlot \notin Slots
  /\ Arguments # {}
  /\ Nobody \notin Callers
  /\ Capacity \in Nat
  /\ {Persist, CanCrash, CanRecover, CanFail} \subseteq BOOLEAN

VARIABLES
  request,   \* the slot (none without an idempotency key) and the arguments
  pc,        \* where in execute each caller is
  budget,    \* the state of each caller's reservation
  slot,      \* the local idempotency_slot of each caller
  row,       \* the idempotency_records table
  did,       \* history: the callers whose call the provider has applied
  answer,    \* what each caller was answered: an error, or whose result
  owner,     \* history: the caller whose reserve made the row that is there
  applied,   \* history: applications by callers admitted for that row
  disturbed  \* history: the callers who met a fault

vars == <<request, pc, budget, slot, row, did, answer, owner, applied, disturbed>>

Labels == {"idle", "admitting", "waiting", "replaying", "refusing", "announcing",
           "calling", "settling", "trimming", "completing", "failing", "marking",
           "done", "crashed"}

Errors == {"none", "rejected", "conflict", "in_progress", "unavailable", "unknown", "failed"}
Failure(code) == [error |-> code, from |-> Nobody]
Result(c)     == [error |-> "none", from |-> c]

(* A record; the one of status none stands for the absence of a row.       *)
Records == [status : {"none", "in_progress", "complete", "uncertain"}, args : Arguments,
            result : Callers \cup {Nobody}, old : BOOLEAN]

NoRow == [status |-> "none", args |-> CHOOSE a \in Arguments : TRUE,
          result |-> Nobody, old |-> FALSE]

TypeOK ==
  /\ request \in [Callers -> [slot : Slots \cup {NoSlot}, args : Arguments]]
  /\ pc \in [Callers -> Labels]
  /\ budget \in [Callers -> {"none", "active", "reconciled", "cancelled"}]
  /\ slot \in [Callers -> Slots \cup {NoSlot}]
  /\ row \in [Slots -> Records]
  /\ did \in SUBSET Callers
  /\ answer \in [Callers -> [error : Errors, from : Callers \cup {Nobody}]]
  /\ owner \in [Slots -> Callers \cup {Nobody}]
  /\ applied \in [Slots -> Nat]
  /\ disturbed \in SUBSET Callers
  /\ \A c \in Callers : pc[c] \in {"admitting", "waiting", "calling", "settling", "trimming"}
                          => budget[c] = "active"

Init ==
  /\ request \in [Callers -> [slot : Slots \cup {NoSlot}, args : Arguments]]
  /\ pc = [c \in Callers |-> "idle"]
  /\ budget = [c \in Callers |-> "none"]
  /\ slot = [c \in Callers |-> NoSlot]
  /\ row = [s \in Slots |-> NoRow]
  /\ did = {}
  /\ answer = [c \in Callers |-> Failure("none")]
  /\ owner = [s \in Slots |-> Nobody]
  /\ applied = [s \in Slots |-> 0]
  /\ disturbed = {}

GoTo(c, label)    == pc' = [pc EXCEPT ![c] = label]
Answer(c, a)      == answer' = [answer EXCEPT ![c] = a]
Budget(c, status) == budget' = [budget EXCEPT ![c] = status]
historyVars == <<did, owner, applied>>

-----------------------------------------------------------------------------
(* execute, up to the budget.                                              *)

(* A reference, an argument, a policy, a dependency or the approval is     *)
(* refused, a write has no key, or the budget is exhausted.                *)
Reject(c) ==
  /\ pc[c] = "idle"
  /\ GoTo(c, "done")
  /\ Answer(c, Failure("rejected"))
  /\ UNCHANGED <<request, budget, slot, row, historyVars>>

Committed == {c \in Callers : budget[c] \in {"active", "reconciled"}}

ReserveBudget(c) ==
  /\ pc[c] = "idle"
  /\ Cardinality(Committed) < Capacity
  /\ Budget(c, "active")
  /\ GoTo(c, IF request[c].slot = NoSlot THEN "calling" ELSE "admitting")
  /\ UNCHANGED <<request, slot, row, answer, historyVars>>

-----------------------------------------------------------------------------
(* _admit_idempotency, with the store's reserve and wait.                  *)

(* A complete record is forgotten once it is as old as the result TTL.     *)
Vacant(r) == r.status = "none" \/ (r.status = "complete" /\ r.old)

(* Mutant: the record that is there is not looked at.                      *)
AdmitAnyway(c) ==
  LET s == request[c].slot IN
  /\ pc[c] = "admitting"
  /\ row' = [row EXCEPT ![s] = [status |-> "in_progress", args |-> request[c].args,
                                result |-> Nobody, old |-> FALSE]]
  /\ owner' = [owner EXCEPT ![s] = c]
  /\ applied' = [applied EXCEPT ![s] = IF Vacant(row[s]) THEN 0 ELSE @]
  /\ slot' = [slot EXCEPT ![c] = s]
  /\ GoTo(c, "calling")
  /\ UNCHANGED <<request, budget, did, answer>>

AdmitNew(c) ==
  LET s == request[c].slot IN
  /\ pc[c] = "admitting"
  /\ Vacant(row[s])
  /\ row' = [row EXCEPT ![s] = [status |-> "in_progress", args |-> request[c].args,
                                result |-> Nobody, old |-> FALSE]]
  /\ owner' = [owner EXCEPT ![s] = c]
  /\ applied' = [applied EXCEPT ![s] = 0]
  /\ slot' = [slot EXCEPT ![c] = s]
  /\ GoTo(c, "calling")
  /\ UNCHANGED <<request, budget, did, answer>>

AdmitWait(c) ==
  /\ pc[c] = "admitting"
  /\ row[request[c].slot].status = "in_progress"
  /\ GoTo(c, "waiting")
  /\ UNCHANGED <<request, budget, slot, row, answer, historyVars>>

(* What an existing record answers.                                        *)
Replayable(c, r) == r.args = request[c].args /\ r.status = "complete" /\ r.result # Nobody

Refusal(c, r) ==
  CASE r.args # request[c].args  -> "conflict"
    [] r.status = "in_progress"  -> "in_progress"
    [] r.status = "complete"     -> "unavailable"
    [] r.status = "uncertain"    -> "unknown"

Refuse(c, r) ==
  /\ ~Replayable(c, r)
  /\ GoTo(c, "refusing")
  /\ Answer(c, Failure(Refusal(c, r)))
  /\ UNCHANGED slot

Replay(c, r) ==
  /\ Replayable(c, r)
  /\ GoTo(c, "replaying")
  /\ Answer(c, Result(r.result))
  /\ slot' = [slot EXCEPT ![c] = request[c].slot]

AdmitExisting(c) ==
  LET r == row[request[c].slot] IN
  /\ pc[c] = "admitting"
  /\ r.status \in {"complete", "uncertain"} /\ ~Vacant(r)
  /\ Refuse(c, r) \/ Replay(c, r)
  /\ UNCHANGED <<request, budget, row, historyVars>>

(* Mutant: wait is satisfied by a completed record only.                   *)
WaitForCompletion(c) ==
  LET r == row[request[c].slot] IN
  /\ pc[c] = "waiting"
  /\ r.status = "complete" \/ r.args # request[c].args
  /\ Refuse(c, r) \/ Replay(c, r)
  /\ UNCHANGED <<request, budget, row, historyVars>>

(* wait polls until the record is no longer in progress or is one of other *)
(* arguments; its timeout is the request's deadline.  It does not look at  *)
(* the record's age.                                                       *)
WaitEnds(c) ==
  LET r == row[request[c].slot] IN
  /\ pc[c] = "waiting"
  /\ r.status # "in_progress" \/ r.args # request[c].args
  /\ Refuse(c, r) \/ Replay(c, r)
  /\ UNCHANGED <<request, budget, row, historyVars>>

WaitTimesOut(c) ==
  LET r == row[request[c].slot] IN
  /\ pc[c] = "waiting"
  /\ r.status = "in_progress"
  /\ Refuse(c, r)
  /\ UNCHANGED <<request, budget, row, historyVars>>

AdmitFails(c) ==
  /\ CanFail
  /\ pc[c] \in {"admitting", "waiting"}
  /\ GoTo(c, "refusing")
  /\ Answer(c, Failure("failed"))
  /\ UNCHANGED <<request, budget, slot, row, historyVars>>

(* The reservation of a request that does not reach the provider.          *)
CancelBudget(c) ==
  /\ pc[c] \in {"replaying", "refusing"}
  /\ Budget(c, "cancelled")
  /\ GoTo(c, IF pc[c] = "replaying" THEN "announcing" ELSE "done")
  /\ UNCHANGED <<request, slot, row, answer, historyVars>>

CancelFails(c) ==
  /\ CanFail
  /\ pc[c] \in {"replaying", "refusing"}
  /\ GoTo(c, "failing")
  /\ Answer(c, Failure("failed"))
  /\ UNCHANGED <<request, budget, slot, row, historyVars>>

(* The audit event of a replay is emitted inside the try block.            *)
Announce(c) ==
  /\ pc[c] = "announcing"
  /\ GoTo(c, "done")
  /\ UNCHANGED <<request, budget, slot, row, answer, historyVars>>

AnnounceFails(c) ==
  /\ CanFail
  /\ pc[c] = "announcing"
  /\ GoTo(c, "marking")
  /\ Answer(c, Failure("failed"))
  /\ UNCHANGED <<request, budget, slot, row, historyVars>>

-----------------------------------------------------------------------------
(* The provider, and what execute does with its result.                    *)

(* Resilient or not, the executor applies an operation at most once        *)
(* (ResilientExecutor, AppliedAtMostOnce).                                 *)
ProviderApplies(c) ==
  /\ pc[c] = "calling"
  /\ c \notin did
  /\ did' = did \cup {c}
  /\ applied' = [s \in Slots |-> IF s = slot[c] THEN applied[s] + 1 ELSE applied[s]]
  /\ UNCHANGED <<request, pc, budget, slot, row, answer, owner>>

(* The result fits the output budget, or it does not.                      *)
ProviderReturns(c) ==
  /\ pc[c] = "calling"
  /\ c \in did
  /\ GoTo(c, "settling") \/ GoTo(c, "trimming")
  /\ UNCHANGED <<request, budget, slot, row, answer, historyVars>>

(* An error, a timeout, a refusal by the circuit breaker, or an invalid    *)
(* result, whether or not the operation was applied.                       *)
ProviderFails(c) ==
  /\ pc[c] = "calling"
  /\ GoTo(c, "failing")
  /\ Answer(c, Failure("failed"))
  /\ UNCHANGED <<request, budget, slot, row, historyVars>>

Settle(c) ==
  /\ pc[c] \in {"settling", "trimming"}
  /\ Budget(c, "reconciled")
  /\ \/ pc[c] = "settling" /\ GoTo(c, "completing") /\ UNCHANGED answer
     \/ pc[c] = "trimming" /\ GoTo(c, "marking") /\ Answer(c, Failure("failed"))
  /\ UNCHANGED <<request, slot, row, historyVars>>

SettleFails(c) ==
  /\ CanFail
  /\ pc[c] \in {"settling", "trimming"}
  /\ GoTo(c, "failing")
  /\ Answer(c, Failure("failed"))
  /\ UNCHANGED <<request, budget, slot, row, historyVars>>

(* complete and uncertain change a record only while it is in progress;    *)
(* they do not ask whose it is.                                            *)
MarkRow(s, status, result) ==
  IF s # NoSlot /\ row[s].status = "in_progress"
  THEN row' = [row EXCEPT ![s] = [status |-> status, args |-> @.args,
                                  result |-> result, old |-> FALSE]]
  ELSE UNCHANGED row

Complete(c) ==
  /\ pc[c] = "completing"
  /\ MarkRow(slot[c], "complete", IF Persist THEN c ELSE Nobody)
  /\ GoTo(c, "done")
  /\ Answer(c, Result(c))
  /\ UNCHANGED <<request, budget, slot, historyVars>>

CompleteFails(c) ==
  /\ CanFail
  /\ pc[c] = "completing"
  /\ GoTo(c, "marking")
  /\ Answer(c, Failure("failed"))
  /\ UNCHANGED <<request, budget, slot, row, historyVars>>

(* Mutant: the error path leaves an active reservation as it is.           *)
FailWithoutSettling(c) ==
  /\ pc[c] = "failing"
  /\ GoTo(c, "marking")
  /\ UNCHANGED <<request, budget, slot, row, answer, historyVars>>

(* The error path: an active reservation is charged one execution, then    *)
(* the record becomes uncertain.  If either raises, the rest is not done.  *)
FailSettles(c) ==
  /\ pc[c] = "failing"
  /\ Budget(c, "reconciled")
  /\ GoTo(c, "marking")
  /\ UNCHANGED <<request, slot, row, answer, historyVars>>

Mark(c) ==
  /\ pc[c] = "marking"
  /\ MarkRow(slot[c], "uncertain", Nobody)
  /\ GoTo(c, "done")
  /\ UNCHANGED <<request, budget, slot, answer, historyVars>>

HandlerFails(c) ==
  /\ CanFail
  /\ pc[c] \in {"failing", "marking"}
  /\ GoTo(c, "done")
  /\ UNCHANGED <<request, budget, slot, row, answer, historyVars>>

-----------------------------------------------------------------------------
Crash(c) ==
  /\ CanCrash
  /\ pc[c] \notin {"idle", "done", "crashed"}
  /\ GoTo(c, "crashed")
  /\ UNCHANGED <<request, budget, slot, row, answer, historyVars>>

(* The result TTL of a record passes.                                      *)
Expire(s) ==
  /\ row[s].status \in {"complete", "uncertain"}
  /\ ~row[s].old
  /\ row' = [row EXCEPT ![s].old = TRUE]
  /\ UNCHANGED <<request, pc, budget, slot, answer, historyVars>>

(* Opening a store with recover_abandoned, whoever is at work.             *)
Recover ==
  /\ CanRecover
  /\ \E s \in Slots : row[s].status = "in_progress"
  /\ row' = [s \in Slots |-> IF row[s].status = "in_progress"
                             THEN [row[s] EXCEPT !.status = "uncertain"] ELSE row[s]]
  /\ UNCHANGED <<request, pc, budget, slot, answer, historyVars>>

Provider(c) == ProviderApplies(c) \/ ProviderReturns(c) \/ ProviderFails(c)

Step(c) ==
  \/ Reject(c) \/ ReserveBudget(c)
  \/ AdmitNew(c) \/ AdmitWait(c) \/ AdmitExisting(c) \/ WaitEnds(c) \/ WaitTimesOut(c)
  \/ CancelBudget(c) \/ Announce(c)
  \/ Provider(c) \/ Settle(c) \/ Complete(c) \/ FailSettles(c) \/ Mark(c)

Fault(c) ==
  \/ AdmitFails(c) \/ CancelFails(c) \/ AnnounceFails(c) \/ SettleFails(c)
  \/ CompleteFails(c) \/ HandlerFails(c) \/ Crash(c)

Work(c)    == Step(c) /\ UNCHANGED disturbed
Disturb(c) == Fault(c) /\ disturbed' = disturbed \cup {c}

Ended == /\ \A c \in Callers : pc[c] \in {"done", "crashed"}
         /\ UNCHANGED vars

Next ==
  \/ \E c \in Callers : Work(c) \/ Disturb(c)
  \/ \E s \in Slots : Expire(s) /\ UNCHANGED disturbed
  \/ Recover /\ UNCHANGED disturbed
  \/ Ended

(* Threads run, providers return or are killed at a deadline, and waiting  *)
(* is bounded by the deadline of the request.                              *)
Spec == Init /\ [][Next]_vars /\ \A c \in Callers : WF_vars(Work(c))

-----------------------------------------------------------------------------
(* However many calls carry an idempotency key, the provider applies the   *)
(* operation at most once, until a completed record is as old as the TTL:  *)
(* across retries, crashes of the owner, recoveries and late completions.  *)
AtMostOnce == \A s \in Slots : applied[s] <= 1

(* Whoever is answered with a result gets the result of a call with the    *)
(* same key and the same arguments that the provider did apply.            *)
ReplayIsFaithful ==
  \A c \in Callers : answer[c].from # Nobody =>
    /\ answer[c].from \in did
    /\ request[answer[c].from] = request[c]

(* A record is completed by the caller it was made for, after its provider *)
(* call, although complete itself only asks that it be in progress.        *)
CompletedByOwner ==
  \A s \in Slots : row[s].status = "complete" =>
    /\ owner[s] \in did
    /\ pc[owner[s]] \in {"done", "crashed"}
    /\ row[s].args = request[owner[s]].args
    /\ row[s].result \in {owner[s], Nobody}

(* What a call that has ended left of its reservation: work the provider   *)
(* did is charged, a replay is free, and nothing stays reserved unless one *)
(* of the call's own transactions failed.                                  *)
Settled ==
  \A c \in Callers : pc[c] = "done" =>
    /\ c \in did => budget[c] # "cancelled"
    /\ answer[c].from = c => budget[c] = "reconciled"
    /\ answer[c].from \notin {c, Nobody} => budget[c] = "cancelled"
    /\ budget[c] = "active" => c \in disturbed

(* Once the outcome of a key is unknown it stays unknown: the key is never *)
(* admitted again.                                                         *)
UnknownIsFinal ==
  [][\A s \in Slots : row[s].status = "uncertain" => row'[s].status = "uncertain"]_vars

(* Every call that has begun is answered, unless its process dies: none    *)
(* waits for good on the record of another, although that one may crash    *)
(* and never finish it.                                                    *)
EveryCallEnds == \A c \in Callers : (pc[c] # "idle") ~> (pc[c] \in {"done", "crashed"})

(* No key is left in progress by an owner who met no fault: whatever the   *)
(* provider did, the record is completed or becomes uncertain.             *)
KeysAreDecided ==
  \A s \in Slots : (row[s].status = "in_progress") ~>
                      (row[s].status # "in_progress" \/ owner[s] \in disturbed)

(* An execution with an idempotency key happens once and is answered with  *)
(* what it did, by the caller its record was made for.                     *)
ExecutedOnce == AtMostOnce /\ ReplayIsFaithful /\ CompletedByOwner

(* Calls end, and so does the state of their keys.                         *)
CallsAndKeysSettle == EveryCallEnds /\ KeysAreDecided
=============================================================================
