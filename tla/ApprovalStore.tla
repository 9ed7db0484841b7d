--------------------------- MODULE ApprovalStore ---------------------------
(***************************************************************************)
(* ScopedApprovalStore and SqliteApprovalStore (approval_store.py):        *)
(* approvals in an SQLite table shared by any number of processes.  Each   *)
(* call reads the clock, then runs one BEGIN IMMEDIATE transaction that    *)
(* first expires what is due by that clock: between the two the call may   *)
(* wait for other writers, so the clock it goes by may be old.  A call     *)
(* that raises inside its transaction rolls the expiry back with the rest. *)
(*                                                                         *)
(* The scoped store reads the record back in a transaction of its own to   *)
(* answer; by the same clock nothing can be due, so that read changes      *)
(* nothing and is not a step.  The unscoped store is the case of one scope *)
(* for the identifiers; its intents carry the scope all the same.          *)
(***************************************************************************)
EXTENDS Naturals

CONSTANTS
  Callers,    \* threads and processes
  Scopes,     \* tenant, principal, session and task
  Ids,        \* approval identifiers
  Works,      \* the rest of an intent: revision, operation, arguments digest,
              \* side effect and policy revision
  Ttls,       \* the ttl_seconds callers ask for
  MaxTime     \* bounds the clock

Slots   == Scopes \X Ids
Intents == [scope : Scopes, work : Works]

ASSUME ApprovalAssumption ==
  /\ Scopes # {} /\ Works # {}
  /\ Ttls \subseteq Nat \ {0}
  /\ MaxTime \in Nat

VARIABLES
  now,        \* the wall clock
  at,         \* the clock reading each caller goes by, when it is in a call
  status,     \* column status
  intent,     \* the scope and the intent columns
  expires,    \* column expires_at
  decided,    \* column decided_at
  consumed,   \* column consumed_at
  uses,       \* history: how many calls of consume returned
  usedFor     \* history: the intent the last of them presented

recordVars  == <<status, intent, expires, decided, consumed>>
historyVars == <<uses, usedFor>>
approvalsVars == <<now, at, recordVars, historyVars>>

ApprovalsContract == INSTANCE ApprovalContract

NoTime == MaxTime + 1
Blank  == CHOOSE i \in Intents : TRUE
Statuses == {"absent", "pending", "approved", "denied", "consumed", "expired"}
Final    == {"denied", "consumed", "expired"}

ApprovalsTypeOK ==
  /\ now \in 0..MaxTime
  /\ at \in [Callers -> 0..NoTime]
  /\ status \in [Slots -> Statuses]
  /\ intent \in [Slots -> Intents]
  /\ expires \in [Slots -> Nat]
  /\ decided \in [Slots -> 0..NoTime]
  /\ consumed \in [Slots -> 0..NoTime]
  /\ uses \in [Slots -> Nat]
  /\ usedFor \in [Slots -> Intents]
  /\ \A k \in Slots :
       /\ status[k] \in {"absent", "pending"} => decided[k] = NoTime
       /\ status[k] \in {"approved", "denied", "consumed"} => decided[k] # NoTime
       /\ status[k] = "consumed" <=> consumed[k] # NoTime

ApprovalsInit ==
  /\ now = 0
  /\ at = [p \in Callers |-> NoTime]
  /\ status = [k \in Slots |-> "absent"]
  /\ intent = [k \in Slots |-> Blank]
  /\ expires = [k \in Slots |-> 0]
  /\ decided = [k \in Slots |-> NoTime]
  /\ consumed = [k \in Slots |-> NoTime]
  /\ uses = [k \in Slots |-> 0]
  /\ usedFor = [k \in Slots |-> Blank]

-----------------------------------------------------------------------------
(* _now, before the transaction is begun.                                  *)
ReadClock(p) ==
  /\ at[p] = NoTime
  /\ at' = [at EXCEPT ![p] = now]
  /\ UNCHANGED <<now, recordVars, historyVars>>

(* The end of every call.                                                  *)
InCall(p) == at[p] # NoTime
Return(p) == at' = [at EXCEPT ![p] = NoTime]

(* _expire, for one record or for every record of a scope.                 *)
Due(k, time) == status[k] \in {"pending", "approved"} /\ expires[k] <= time
Expire(ks, time) ==
  status' = [k \in Slots |-> IF k \in ks /\ Due(k, time) THEN "expired" ELSE status[k]]

(* request: the identifier is the table's primary key.                     *)
Request(p, k, work, ttl) ==
  /\ InCall(p)
  /\ status[k] = "absent"
  /\ status' = [status EXCEPT ![k] = "pending"]
  /\ intent' = [intent EXCEPT ![k] = [scope |-> k[1], work |-> work]]
  /\ expires' = [expires EXCEPT ![k] = at[p] + ttl]
  /\ Return(p)
  /\ UNCHANGED <<now, decided, consumed, historyVars>>

(* get and list: what they find due stays expired.                         *)
Look(p, ks) ==
  /\ InCall(p)
  /\ Expire(ks, at[p])
  /\ Return(p)
  /\ UNCHANGED <<now, intent, expires, decided, consumed, historyVars>>

Get(p, k)  == Look(p, {k})
List(p, s) == Look(p, {s} \X Ids)

(* _decide, for approve and deny and, for an approver of the same tenant,  *)
(* approve_as and deny_as.                                                 *)
Decide(p, k, decision) ==
  /\ InCall(p)
  /\ status[k] = "pending"
  /\ ~Due(k, at[p])
  /\ status' = [status EXCEPT ![k] = decision]
  /\ decided' = [decided EXCEPT ![k] = at[p]]
  /\ Return(p)
  /\ UNCHANGED <<now, intent, expires, consumed, historyVars>>

(* Mutant: the intent presented is compared with the scope alone.          *)
ConsumeForAnyWork(p, k, presented) ==
  /\ InCall(p)
  /\ presented.scope = k[1]
  /\ status[k] = "approved"
  /\ ~Due(k, at[p])
  /\ status' = [status EXCEPT ![k] = "consumed"]
  /\ consumed' = [consumed EXCEPT ![k] = at[p]]
  /\ uses' = [uses EXCEPT ![k] = @ + 1]
  /\ usedFor' = [usedFor EXCEPT ![k] = presented]
  /\ Return(p)
  /\ UNCHANGED <<now, intent, expires, decided>>

(* Mutant: the status is not written.                                      *)
ConsumeWithoutMark(p, k, presented) ==
  /\ InCall(p)
  /\ presented = intent[k]
  /\ status[k] = "approved"
  /\ ~Due(k, at[p])
  /\ consumed' = [consumed EXCEPT ![k] = at[p]]
  /\ uses' = [uses EXCEPT ![k] = @ + 1]
  /\ usedFor' = [usedFor EXCEPT ![k] = presented]
  /\ Return(p)
  /\ UNCHANGED <<now, status, intent, expires, decided>>

(* consume: _require_matching_scope, then the exact intent, then the       *)
(* status.                                                                 *)
Consume(p, k, presented) ==
  /\ InCall(p)
  /\ presented.scope = k[1]
  /\ presented = intent[k]
  /\ status[k] = "approved"
  /\ ~Due(k, at[p])
  /\ status' = [status EXCEPT ![k] = "consumed"]
  /\ consumed' = [consumed EXCEPT ![k] = at[p]]
  /\ uses' = [uses EXCEPT ![k] = @ + 1]
  /\ usedFor' = [usedFor EXCEPT ![k] = presented]
  /\ Return(p)
  /\ UNCHANGED <<now, intent, expires, decided>>

(* A call that raises, or whose process dies before it commits: the        *)
(* transaction is rolled back, the expiry it began with included.          *)
RollBack(p) ==
  /\ InCall(p)
  /\ Return(p)
  /\ UNCHANGED <<now, recordVars, historyVars>>

Tick ==
  /\ now < MaxTime
  /\ now' = now + 1
  /\ UNCHANGED <<at, recordVars, historyVars>>

ApprovalsNext ==
  \/ \E p \in Callers : ReadClock(p) \/ RollBack(p)
  \/ \E p \in Callers, k \in Slots, work \in Works, ttl \in Ttls : Request(p, k, work, ttl)
  \/ \E p \in Callers, k \in Slots : Get(p, k)
  \/ \E p \in Callers, s \in Scopes : List(p, s)
  \/ \E p \in Callers, k \in Slots, decision \in {"approved", "denied"} : Decide(p, k, decision)
  \/ \E p \in Callers, k \in Slots, presented \in Intents : Consume(p, k, presented)
  \/ Tick

ApprovalsSpec == ApprovalsInit /\ [][ApprovalsNext]_approvalsVars

-----------------------------------------------------------------------------
(* However many callers hold an approval, consume returns for one of them  *)
(* at most, and for none unless the approval is used up.                   *)
SingleUse ==
  \A k \in Slots : uses[k] = IF status[k] = "consumed" THEN 1 ELSE 0

(* An approval is used for exactly the intent it was requested with, by a  *)
(* caller of the scope it belongs to.                                      *)
UsedAsRequested ==
  \A k \in Slots : uses[k] > 0 => usedFor[k] = intent[k] /\ intent[k].scope = k[1]

(* What a call decides or uses had not expired by that call's own clock,   *)
(* and only a decided request is ever used.                                *)
InTime ==
  \A k \in Slots :
    /\ consumed[k] # NoTime => consumed[k] < expires[k] /\ decided[k] # NoTime
    /\ decided[k] # NoTime => decided[k] < expires[k]

(* Denied, consumed and expired are final, whatever calls with older       *)
(* clocks commit afterwards, and an approval never goes back to pending.   *)
FinalStatus ==
  [][\A k \in Slots :
       /\ status[k] \in Final => status'[k] = status[k]
       /\ status[k] = "approved" => status'[k] # "pending"]_approvalsVars

(* The table keeps the approval contract.                                  *)
ApprovalsKeepContract == ApprovalsContract!Spec

(* An approval is used for what was decided, by whom it was decided for,   *)
(* and in time.                                                            *)
UsedOnlyAsDecided == UsedAsRequested /\ InTime
=============================================================================
