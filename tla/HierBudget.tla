----------------------------- MODULE HierBudget -----------------------------
(***************************************************************************)
(* SQLiteHierarchicalBudgetStore (hierarchical_budget.py): a forest of     *)
(* budget scopes in one SQLite file, shared by any number of processes.    *)
(* Every writing call is one BEGIN IMMEDIATE transaction, so an action is  *)
(* a whole call; a call that raises rolls back and leaves every row as it  *)
(* was, so a refusal is a guard that fails.  What interleaves is the calls *)
(* of several holders: two that settle the same reservation, an operator   *)
(* who changes limits it read some time ago, a scope created under another *)
(* whose limits move.                                                      *)
(***************************************************************************)
EXTENDS BudgetTree

CONSTANTS
  Rids,         \* reservation identities (uuid4)
  Operators,    \* callers of configure
  MaxDepth,     \* MAX_DEPTH
  MaxCounters,  \* MAX_COUNTERS
  AmountBound,  \* the largest amount a caller asks for
  LimitBound    \* the largest limit a caller sets

ASSUME BoundsAssumption ==
  /\ MaxDepth \in Nat
  /\ MaxCounters \in Nat
  /\ AmountBound \in Nat
  /\ LimitBound \in Nat

VARIABLES
  scopes,       \* rows of hierarchical_budget_scopes (and _roots)
  limits,       \* rows of hierarchical_budget_limits
  rows,         \* the counters with a row in hierarchical_budget_counters
  used,         \* their used column
  reserved,     \* their reserved column
  resv,         \* rows of hierarchical_budget_reservations; the field charged
                \* is a history of what reconcile charged
  seen          \* the scope and the limits each operator has read

vars == <<scopes, limits, rows, used, reserved, resv, seen>>
counterVars == <<rows, used, reserved>>

Contract == INSTANCE BudgetContract

NothingSeen == [scope |-> NoScope, limits |-> NoLimits]

(* Inputs of the callers.                                                  *)
AskedAmounts == [Counters -> 0..AmountBound]
AskedLimits  == {l \in [Counters -> 0..LimitBound \cup {Unlimited}] :
                   /\ Limited(l) # {}
                   /\ Cardinality(Limited(l)) <= MaxCounters}

TypeOK ==
  /\ scopes \in SUBSET Scopes
  /\ limits \in [Scopes -> Limits]
  /\ rows \in [Scopes -> SUBSET Counters]
  /\ used \in [Scopes -> Amounts]
  /\ reserved \in [Scopes -> Amounts]
  /\ resv \in [Rids -> [scope : Scopes \cup {NoScope}, status : Contract!Status,
                        held : Amounts, charged : Amounts]]
  /\ seen \in [Operators -> [scope : Scopes \cup {NoScope}, limits : Limits]]

Init ==
  /\ scopes = {}
  /\ limits = [s \in Scopes |-> NoLimits]
  /\ rows = [s \in Scopes |-> {}]
  /\ used = [s \in Scopes |-> Zero]
  /\ reserved = [s \in Scopes |-> Zero]
  /\ resv = [r \in Rids |-> Contract!NoReservation]
  /\ seen = [o \in Operators |-> NothingSeen]

-----------------------------------------------------------------------------
(* Checks the transactions make.                                           *)

(* _child_allocation: what the children of a scope are allotted.           *)
ChildAllocation(s, c, excluding) ==
  SumFunctionOnSet([x \in Scopes |-> limits[x][c]],
                   {x \in Children[s] \cap scopes :
                      x \notin excluding /\ limits[x][c] # Unlimited})

(* _check_parent_allocation: a child's limits fit beside its siblings'.    *)
AllocationFits(p, childLimits, excluding) ==
  \A c \in Limited(childLimits) :
    limits[p][c] # Unlimited =>
      ChildAllocation(p, c, excluding) + childLimits[c] <= limits[p][c]

(* _ensure_counter_bounds, with the limits it reads.                       *)
CounterNames(s, lim) == Limited(lim[s]) \cup rows[s]
CountersBounded(chain, amounts) ==
  \A s \in chain :
    Cardinality(CounterNames(s, limits) \cup Named(amounts)) <= MaxCounters

(* Mutant: what has been charged already is not counted.                   *)
CapacityIgnoresUsed(chain, amounts, replaced) ==
  \A s \in chain : \A c \in Named(amounts) :
    limits[s][c] # Unlimited => reserved[s][c] - replaced[c] + amounts[c] <= limits[s][c]

(* _check_capacity: amounts, in the place of the ones replaced, fit every  *)
(* limit of the chain.  A counter that amounts do not name is not checked. *)
CapacityAllows(chain, amounts, replaced) ==
  \A s \in chain : \A c \in Named(amounts) :
    limits[s][c] # Unlimited =>
      used[s][c] + reserved[s][c] - replaced[c] + amounts[c] <= limits[s][c]

-----------------------------------------------------------------------------
(* root: create a root scope.  Reopening one with the same limits and      *)
(* being refused because the limits differ both change nothing.            *)
CreateRoot(s, lim) ==
  /\ Parent[s] = NoScope
  /\ s \notin scopes
  /\ scopes' = scopes \cup {s}
  /\ limits' = [limits EXCEPT ![s] = Merge(@, lim)]
  /\ UNCHANGED <<counterVars, resv, seen>>

(* _create_child, below a scope some caller has a handle of.               *)
CreateChild(s, lim) ==
  /\ Parent[s] \in scopes
  /\ Depth(Parent[s]) < MaxDepth
  /\ Chain[Parent[s]] \subseteq scopes
  /\ s \notin scopes
  /\ AllocationFits(Parent[s], lim, {})
  /\ scopes' = scopes \cup {s}
  /\ limits' = [limits EXCEPT ![s] = Merge(@, lim)]
  /\ UNCHANGED <<counterVars, resv, seen>>

(* The limits property: the operator reads the limits it will later name   *)
(* as the ones it expects.                                                 *)
ReadLimits(o, s) ==
  /\ s \in scopes
  /\ seen' = [seen EXCEPT ![o] = [scope |-> s, limits |-> limits[s]]]
  /\ UNCHANGED <<scopes, limits, counterVars, resv>>

(* _configure: compare and swap against the limits the operator has read,  *)
(* then the checks on the scope itself, on its children and on its parent. *)
ChangeFits(s, changes) ==
  \A c \in Limited(changes) :
    /\ used[s][c] + reserved[s][c] <= changes[c]
    /\ ChildAllocation(s, c, {}) <= changes[c]

(* Mutant: the expected limits are not compared with the current ones.     *)
ConfigureBlindly(o, s, changes) ==
  LET replacement == Merge(limits[s], changes) IN
  /\ seen[o].scope = s
  /\ Chain[s] \subseteq scopes
  /\ Cardinality(Limited(replacement)) <= MaxCounters
  /\ ChangeFits(s, changes)
  /\ Parent[s] # NoScope => AllocationFits(Parent[s], replacement, {s})
  /\ limits' = [limits EXCEPT ![s] = replacement]
  /\ UNCHANGED <<scopes, counterVars, resv, seen>>

Configure(o, s, changes) ==
  LET replacement == Merge(limits[s], changes) IN
  /\ seen[o].scope = s
  /\ Chain[s] \subseteq scopes
  /\ limits[s] = seen[o].limits
  /\ Cardinality(Limited(replacement)) <= MaxCounters
  /\ ChangeFits(s, changes)
  /\ Parent[s] # NoScope => AllocationFits(Parent[s], replacement, {s})
  /\ limits' = [limits EXCEPT ![s] = replacement]
  /\ UNCHANGED <<scopes, counterVars, resv, seen>>

(* _reserve: the reservation row and the reserved column of every scope of *)
(* the chain, in one transaction.                                          *)
Reserve(r, s, amounts) ==
  /\ resv[r].status = "absent"
  /\ Chain[s] \subseteq scopes
  /\ CountersBounded(Chain[s], amounts)
  /\ CapacityAllows(Chain[s], amounts, Zero)
  /\ resv' = [resv EXCEPT ![r] = Contract!Reservation(s, "active", amounts, Zero)]
  /\ rows' = [x \in Scopes |-> IF x \in Chain[s] THEN rows[x] \cup Named(amounts)
                                                 ELSE rows[x]]
  /\ reserved' = [x \in Scopes |-> IF x \in Chain[s] THEN Plus(reserved[x], amounts)
                                                     ELSE reserved[x]]
  /\ UNCHANGED <<scopes, limits, used, seen>>

(* Mutant: the ancestors keep what was held.                               *)
ReleaseOwnScopeOnly(r, final) ==
  LET s == resv[r].scope IN
  /\ CapacityAllows(Chain[s], final, resv[r].held)
  /\ rows' = [rows EXCEPT ![s] = @ \cup Named(final)]
  /\ used' = [x \in Scopes |-> IF x \in Chain[s] THEN Plus(used[x], final) ELSE used[x]]
  /\ reserved' = [reserved EXCEPT ![s] = Less(@, resv[r].held)]

(* _finish_reservation: replace what r holds by final along its chain.  A  *)
(* negative remainder would raise budget_state_invalid.                    *)
ReplaceReserved(r, final) ==
  LET chain == Chain[resv[r].scope]
      held  == resv[r].held
  IN
  /\ chain \subseteq scopes
  /\ CountersBounded(chain, final)
  /\ CapacityAllows(chain, final, held)
  /\ \A s \in chain, c \in Counters : reserved[s][c] >= held[c]
  /\ rows' = [x \in Scopes |-> IF x \in chain
                               THEN rows[x] \cup Named(held) \cup Named(final)
                               ELSE rows[x]]
  /\ used' = [x \in Scopes |-> IF x \in chain THEN Plus(used[x], final) ELSE used[x]]
  /\ reserved' = [x \in Scopes |-> IF x \in chain THEN Less(reserved[x], held)
                                                  ELSE reserved[x]]

(* Mutant: the status of the reservation is not looked at.                 *)
ReconcileAgain(r, actual) ==
  /\ resv[r].status # "absent"
  /\ ReplaceReserved(r, actual)
  /\ resv' = [resv EXCEPT ![r].status = "reconciled", ![r].charged = actual]
  /\ UNCHANGED <<scopes, limits, seen>>

Reconcile(r, actual) ==
  /\ resv[r].status = "active"
  /\ ReplaceReserved(r, actual)
  /\ resv' = [resv EXCEPT ![r].status = "reconciled", ![r].charged = actual]
  /\ UNCHANGED <<scopes, limits, seen>>

Cancel(r) ==
  /\ resv[r].status = "active"
  /\ ReplaceReserved(r, Zero)
  /\ resv' = [resv EXCEPT ![r].status = "cancelled"]
  /\ UNCHANGED <<scopes, limits, seen>>

Next ==
  \/ \E s \in Scopes, lim \in AskedLimits : CreateRoot(s, lim) \/ CreateChild(s, lim)
  \/ \E o \in Operators, s \in Scopes : ReadLimits(o, s)
  \/ \E o \in Operators, s \in Scopes, changes \in AskedLimits : Configure(o, s, changes)
  \/ \E r \in Rids, s \in Scopes, amounts \in AskedAmounts : Reserve(r, s, amounts)
  \/ \E r \in Rids, actual \in AskedAmounts : Reconcile(r, actual)
  \/ \E r \in Rids : Cancel(r)

Spec == Init /\ [][Next]_vars

-----------------------------------------------------------------------------
(* Properties.                                                             *)

(* Every limit of every scope covers what is charged and what is held      *)
(* there, whichever order reservations, settlements and limit changes come *)
(* in: the hard cap of _check_capacity and of _configure.                  *)
HardCap ==
  \A s \in scopes, c \in Counters :
    limits[s][c] # Unlimited => used[s][c] + reserved[s][c] <= limits[s][c]

(* A scope never promises its children more than it has, although both its *)
(* own limits and theirs move (_check_parent_allocation, _configure).      *)
NoOverAllocation ==
  \A s \in scopes, c \in Counters :
    limits[s][c] # Unlimited => ChildAllocation(s, c, {}) <= limits[s][c]

(* The counter columns are exactly the sums over the reservations of the   *)
(* subtree: nothing is held twice, released twice or charged twice, at any *)
(* level, so _replace_reserved never meets a negative remainder.           *)
Conservation ==
  \A s \in Scopes, c \in Counters :
    /\ reserved[s][c] = Contract!TotalHeld(resv, s, c)
    /\ used[s][c] = Contract!TotalCharged(resv, s, c)

(* A step that changes a limit of an existing scope is made by an operator *)
(* that had seen the limit's current value: no update of another operator  *)
(* is overwritten unseen (the compare and swap of _configure).             *)
NoLostUpdate ==
  [][\A s \in scopes, c \in Counters :
       limits'[s][c] # limits[s][c] =>
         \E o \in Operators : /\ seen[o].scope = s
                              /\ seen[o].limits[c] = limits[s][c]]_vars

(* Every active reservation can still be cancelled: the checks that        *)
(* _finish_reservation makes before it releases capacity all hold.         *)
Cancellable(r) ==
  /\ Chain[resv[r].scope] \subseteq scopes
  /\ CountersBounded(Chain[resv[r].scope], Zero)
  /\ CapacityAllows(Chain[resv[r].scope], Zero, resv[r].held)
ActiveReservationCanBeReleased ==
  \A r \in Rids : resv[r].status = "active" => Cancellable(r)

(* The store keeps the budget contract, its counters standing for the sums.*)
ContractSpec == Contract!Spec

(* What the counters of a scope say, and what its children were promised,  *)
(* is exact however the three stores of an amount move.                    *)
CountersAreExact == NoOverAllocation /\ Conservation
=============================================================================
