------------------------------ MODULE BudgetLedger ------------------------------
(***************************************************************************)
(* BudgetLedger (budget.py): budget nodes in memory, each with a lock, and *)
(* threads that take the locks of a whole chain.  Its durable counterpart  *)
(* (budget_store.py) has scopes without parents, one lock, the database,   *)
(* and limits that can be changed.  Both promise BudgetContract.           *)
(***************************************************************************)
EXTENDS BudgetTree

CONSTANTS Rids,          \* reservations
          LedgerThreads,
          DurableScopes, Database, \* scopes of a SQLite ledger, and its lock
          InitialCaps,   \* the limits they are created with
          MaxAmount      \* bound of amounts

ASSUME DurableAssumption ==
  \A s \in DurableScopes : s \in Scopes /\ Parent[s] = NoScope /\ Children[s] = {}

(* A ledger is made after its parent, so its chain is finite and leads     *)
(* away from it.                                                           *)
ASSUME LedgerAssumption ==
  /\ IsFiniteSet(Scopes)
  /\ \A s \in Scopes : Parent[s] # NoScope => s \notin Chain[Parent[s]]
  /\ InitialCaps \subseteq [Scopes -> Limits]
  /\ Database \notin Scopes
  /\ "nobody" \notin LedgerThreads

VARIABLES caps,          \* _limits
          used, reserved, \* _used and _reserved
          booked,        \* reservations: scope, status, amounts, charge
          thread,        \* calls under way
          holder         \* who holds each lock

ledgerVars == <<caps, used, reserved, booked, thread, holder>>

Contract == INSTANCE BudgetContract WITH limits <- caps, resv <- booked

NoThread == "nobody"
Free == [pc |-> "free"]
LedgerCalls == {"reserve", "reconcile", "cancel", "configure"}
Vectors == [Counters -> 0..MaxAmount]
(* A mapping of limits keeps its zeros: what it does not name is Unlimited.*)
Ceilings == [Counters -> 0..MaxAmount \union {Unlimited}]
Lockable == (Scopes \ DurableScopes) \union {Database}

LedgerInit ==
  /\ caps \in InitialCaps
  /\ used = [s \in Scopes |-> Zero] /\ reserved = [s \in Scopes |-> Zero]
  /\ booked = [r \in Rids |-> Contract!NoReservation]
  /\ thread = [t \in LedgerThreads |-> Free]
  /\ holder = [l \in Lockable |-> NoThread]

-----------------------------------------------------------------------------
(* A call of a thread.  amounts: what is asked for, what is charged, or    *)
(* the limits; a cancel charges nothing.                                   *)
StartCall(t, call, r, s, amounts) ==
  /\ thread[t] = Free
  /\ thread' = [thread EXCEPT ![t] =
                  [pc |-> "locking", call |-> call, rid |-> r, scope |-> s, amounts |-> amounts]]
  /\ UNCHANGED <<caps, used, reserved, booked, holder>>

StartReserve(t, r, s, amounts) ==
  /\ booked[r].status = "absent"
  /\ \A u \in LedgerThreads : thread[u] # Free => thread[u].rid # r
  /\ StartCall(t, "reserve", r, s, amounts)

(* Whoever was given the reservation settles or cancels it, twice perhaps. *)
StartFinish(t, call, r, amounts) ==
  /\ booked[r].status # "absent" /\ (call = "cancel" => amounts = Zero)
  /\ StartCall(t, call, r, booked[r].scope, amounts)

StartConfigure(t, s, ceilings) ==
  s \in DurableScopes /\ Limited(ceilings) # {} /\ StartCall(t, "configure", Database, s, ceilings)

(* _locked_chain: always root to leaf.                                     *)
LocksOf(s) == IF s \in DurableScopes THEN {Database} ELSE Chain[s]
MissingLocks(t) == {l \in LocksOf(thread[t].scope) : holder[l] # t}
NextLockInAnyOrder(t, l) == l \in MissingLocks(t)  \* faulty: the chain is not sorted
NextLock(t, l) ==
  /\ l \in MissingLocks(t)
  /\ \A m \in MissingLocks(t) \ {Database} : Depth(l) <= Depth(m)

TakeLock(t) ==
  /\ thread[t].pc = "locking"
  /\ \E l \in Lockable : /\ NextLock(t, l) /\ holder[l] = NoThread
                         /\ holder' = [holder EXCEPT ![l] = t]
  /\ UNCHANGED <<caps, used, reserved, booked, thread>>

Locked(t, call) ==
  thread[t].pc = "locking" /\ thread[t].call = call /\ MissingLocks(t) = {}
Unlock(t) ==
  /\ thread' = [thread EXCEPT ![t] = Free]
  /\ holder' = [l \in Lockable |-> IF holder[l] = t THEN NoThread ELSE holder[l]]

-----------------------------------------------------------------------------
(* What is done under the locks.                                           *)

(* _check_capacity looks at the counters that are named only.              *)
Fits(s, amounts, replaced) ==
  \A a \in Chain[s], c \in Named(amounts) :
    caps[a][c] # Unlimited => used[a][c] + reserved[a][c] - replaced[c] + amounts[c] <= caps[a][c]

Raised(counters, s, amounts) ==
  [a \in Scopes |-> IF a \in Chain[s] THEN Plus(counters[a], amounts) ELSE counters[a]]
Lowered(counters, s, amounts) ==
  [a \in Scopes |-> IF a \in Chain[s] THEN Less(counters[a], amounts) ELSE counters[a]]

Reserve(t) ==
  LET q == thread[t] IN
  /\ Locked(t, "reserve") /\ Unlock(t)
  /\ IF Fits(q.scope, q.amounts, Zero)
       THEN /\ reserved' = Raised(reserved, q.scope, q.amounts)
            /\ booked' = [booked EXCEPT ![q.rid] =
                            Contract!Reservation(q.scope, "active", q.amounts, Zero)]
       ELSE UNCHANGED <<reserved, booked>>
  /\ UNCHANGED <<caps, used>>

(* A settlement that does not fit leaves the reservation active.           *)
Reconcile(t) ==
  LET q == thread[t]
      b == booked[q.rid]
  IN
  /\ Locked(t, "reconcile") /\ Unlock(t)
  /\ IF b.status = "active" /\ Fits(q.scope, q.amounts, b.held)
       THEN /\ reserved' = Lowered(reserved, q.scope, b.held)
            /\ used' = Raised(used, q.scope, q.amounts)
            /\ booked' = [booked EXCEPT ![q.rid].status = "reconciled",
                                        ![q.rid].charged = q.amounts]
       ELSE UNCHANGED <<used, reserved, booked>>
  /\ UNCHANGED caps

CancelHeld(t) ==
  LET q == thread[t]
      b == booked[q.rid]
  IN
  /\ Locked(t, "cancel") /\ Unlock(t)
  /\ IF b.status = "active"
       THEN /\ reserved' = Lowered(reserved, q.scope, b.held)
            /\ booked' = [booked EXCEPT ![q.rid].status = "cancelled"]
       ELSE UNCHANGED <<reserved, booked>>
  /\ UNCHANGED <<caps, used>>

(* configure: what is used and held must fit each limit that is given.     *)
Configure(t) ==
  LET q == thread[t] IN
  /\ Locked(t, "configure") /\ Unlock(t)
  /\ caps' = IF \A c \in Limited(q.amounts) :
                  used[q.scope][c] + reserved[q.scope][c] <= q.amounts[c]
             THEN [caps EXCEPT ![q.scope] = Merge(@, q.amounts)]
             ELSE caps
  /\ UNCHANGED <<used, reserved, booked>>

LedgerNext ==
  \E t \in LedgerThreads :
    \/ \E r \in Rids, amounts \in Vectors :
         \/ \E s \in Scopes : StartReserve(t, r, s, amounts)
         \/ \E call \in {"reconcile", "cancel"} : StartFinish(t, call, r, amounts)
    \/ \E s \in Scopes, ceilings \in Ceilings : StartConfigure(t, s, ceilings)
    \/ TakeLock(t) \/ Reserve(t) \/ Reconcile(t) \/ CancelHeld(t) \/ Configure(t)

LedgerSpec == LedgerInit /\ [][LedgerNext]_ledgerVars

-----------------------------------------------------------------------------
(* Properties.                                                             *)

(* The counters of the ledgers, each kept under its own lock, say what the *)
(* reservations below them hold and were charged.                          *)
LedgerIsExact ==
  \A s \in Scopes, c \in Counters :
    /\ used[s][c] = Contract!TotalCharged(booked, s, c)
    /\ reserved[s][c] = Contract!TotalHeld(booked, s, c)

(* The ledgers implement the budget contract.                              *)
LedgerContract == Contract!Spec

(* A call that has its locks, or finds the next one free.                  *)
CanGoOn(t) ==
  \/ \E call \in LedgerCalls : Locked(t, call)
  \/ thread[t].pc = "locking" /\ \E l \in Lockable : NextLock(t, l) /\ holder[l] = NoThread

(* No two chains wait for each other's locks, and no call ends without     *)
(* giving its locks back: while a call is under way, one can go on.        *)
LedgerNeverStuck ==
  (\E t \in LedgerThreads : thread[t] # Free) => \E t \in LedgerThreads : CanGoOn(t)

(* The ledgers promise the contract, their counters are exact at every     *)
(* step, and their locks let every call return.                            *)
LedgerHolds == LedgerContract /\ [](LedgerIsExact /\ LedgerNeverStuck)
=============================================================================
