--------------------------- MODULE BudgetContract ---------------------------
(***************************************************************************)
(* What a budget ledger promises its callers (budget.py, module and class  *)
(* docstrings), with no counters at all: a reservation is live from the    *)
(* moment it is granted until it is settled or cancelled, once; a scope's  *)
(* usage is the sum of what was charged below it and of what is held below *)
(* it; and no call may make that usage exceed a hard limit.  The ledgers   *)
(* of the code answer from counters they keep up to date instead.          *)
(***************************************************************************)
EXTENDS BudgetTree

CONSTANT Rids   \* reservation identities

VARIABLES
  limits,       \* the hard limits of each scope
  resv          \* every reservation: its scope, status, hold and charge

vars == <<limits, resv>>

Status == {"absent", "active", "reconciled", "cancelled"}

Reservation(s, st, held, charged) ==
  [scope |-> s, status |-> st, held |-> held, charged |-> charged]

NoReservation == Reservation(NoScope, "absent", Zero, Zero)

(* What one reservation weighs on the scopes of its chain.                 *)
Held(book, r, c)    == IF book[r].status = "active" THEN book[r].held[c] ELSE 0
Charged(book, r, c) == IF book[r].status = "reconciled"
                       THEN book[r].charged[c] ELSE 0

Below(book, s) == {r \in Rids : /\ book[r].status # "absent"
                                /\ s \in Chain[book[r].scope]}

TotalHeld(book, s, c) ==
  SumFunctionOnSet([r \in Rids |-> Held(book, r, c)], Below(book, s))
TotalCharged(book, s, c) ==
  SumFunctionOnSet([r \in Rids |-> Charged(book, r, c)], Below(book, s))
Usage(book, s, c) == TotalHeld(book, s, c) + TotalCharged(book, s, c)

WithinLimits(lim, book) ==
  \A s \in Scopes, c \in Counters :
    lim[s][c] # Unlimited => Usage(book, s, c) <= lim[s][c]

Init ==
  /\ limits \in [Scopes -> Limits]
  /\ resv = [r \in Rids |-> NoReservation]

(* The caps change only to values that what is held and charged fits.      *)
SetLimits(s) ==
  /\ \E c \in Counters : limits'[s][c] # limits[s][c]
  /\ \A t \in Scopes \ {s} : limits'[t] = limits[t]
  /\ WithinLimits(limits', resv)
  /\ UNCHANGED resv

Reserve(r, s, amounts) ==
  /\ resv[r].status = "absent"
  /\ resv' = [resv EXCEPT ![r] = Reservation(s, "active", amounts, Zero)]
  /\ WithinLimits(limits, resv')
  /\ UNCHANGED limits

Reconcile(r, actual) ==
  /\ resv[r].status = "active"
  /\ resv' = [resv EXCEPT ![r].status = "reconciled", ![r].charged = actual]
  /\ WithinLimits(limits, resv')
  /\ UNCHANGED limits

Cancel(r) ==
  /\ resv[r].status = "active"
  /\ resv' = [resv EXCEPT ![r].status = "cancelled"]
  /\ UNCHANGED limits

(* The amounts of a step are read off the next state, so that a module     *)
(* that implements this one is not held to a range of amounts.             *)
Next ==
  \/ \E s \in Scopes : SetLimits(s)
  \/ \E r \in Rids : \/ Reserve(r, resv'[r].scope, resv'[r].held)
                     \/ Reconcile(r, resv'[r].charged)
                     \/ Cancel(r)

Spec == Init /\ [][Next]_vars
=============================================================================
