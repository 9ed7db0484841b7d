----------------------------- MODULE BudgetTree -----------------------------
(***************************************************************************)
(* The data the budget modules share: scopes arranged in a forest, counter *)
(* vectors and hard limits.  A scope of the durable store is addressed by  *)
(* an HMAC of its root, its parent and its name                            *)
(* (hierarchical_budget.py, _digest), so a scope determines its parent and *)
(* the shape of the forest never changes: which of its scopes have been    *)
(* created does, and that is state of the modules that extend this one.    *)
(***************************************************************************)
EXTENDS Integers, FiniteSets, Functions

CONSTANTS
  Scopes,     \* the scopes that may ever be created
  Counters,   \* the names of the counters
  Parent,     \* the parent of each scope
  NoScope     \* the parent of a root

ASSUME ParentAssumption ==
  /\ NoScope \notin Scopes
  /\ Parent \in [Scopes -> Scopes \cup {NoScope}]

(* _chain walks from a scope to its root.  Stated without recursion: the   *)
(* least set that holds s and, with each scope, the scope's parent.        *)
ClosedUpward(S) == \A x \in S : Parent[x] # NoScope => Parent[x] \in S

Chain == [s \in Scopes |->
            {a \in Scopes : \A S \in SUBSET Scopes :
                              s \in S /\ ClosedUpward(S) => a \in S}]

Children == [s \in Scopes |-> {x \in Scopes : Parent[x] = s}]
Depth(s) == Cardinality(Chain[s]) - 1

(* A limit that is not set: the counter is unlimited at that scope.        *)
Unlimited == -1

Zero == [c \in Counters |-> 0]
NoLimits == [c \in Counters |-> Unlimited]

Amounts == [Counters -> Nat]
Limits  == [Counters -> Nat \cup {Unlimited}]

(* The counters a normalised vector of amounts names: _validate_amounts    *)
(* drops the zero entries of amounts and keeps those of limits.            *)
Named(amounts)  == {c \in Counters : amounts[c] # 0}
Limited(limits) == {c \in Counters : limits[c] # Unlimited}

Plus(a, b) == [c \in Counters |-> a[c] + b[c]]
Less(a, b) == [c \in Counters |-> a[c] - b[c]]

(* Setting limits merges them over the ones that are there.                *)
Merge(limits, changes) ==
  [c \in Counters |-> IF changes[c] # Unlimited THEN changes[c] ELSE limits[c]]
=============================================================================
