-------------------------- MODULE HierBudgetProofs --------------------------
(***************************************************************************)
(* The hard cap of the hierarchical budget store, for every forest, every  *)
(* set of counters and any number of reservations and operators.  HardCap  *)
(* is not inductive alone: a scope that is created takes over the counter  *)
(* rows of its identity, and only Fresh says that there are none; and a    *)
(* reservation that is settled must have a chain, which Placed gives it.   *)
(***************************************************************************)
EXTENDS HierBudget, SumTheorems, TLAPS

(* A scope without a row has no counters and no limits yet.                *)
Fresh == \A s \in Scopes \ scopes : /\ used[s] = Zero
                                    /\ reserved[s] = Zero
                                    /\ limits[s] = NoLimits

(* A reservation that exists was made in a scope.                          *)
Placed == \A r \in Rids : resv[r].status # "absent" => resv[r].scope \in Scopes

IInv == TypeOK /\ Fresh /\ Placed /\ HardCap

-----------------------------------------------------------------------------
(* Merging the limits a caller asks for gives limits again.                *)
LEMMA MergeType ==
  ASSUME NEW l \in Limits, NEW k \in AskedLimits
  PROVE  /\ Merge(l, k) \in Limits
         /\ \A c \in Counters : Merge(l, k)[c] = IF k[c] # Unlimited THEN k[c] ELSE l[c]
         /\ \A c \in Counters : k[c] \in Nat \cup {Unlimited}
         /\ \A c \in Counters : l[c] \in Nat \cup {Unlimited}
  BY BoundsAssumption DEF Merge, Limits, AskedLimits, Unlimited

(* The chain of a scope is made of scopes.                                 *)
LEMMA ChainType == \A s \in Scopes : Chain[s] \in SUBSET Scopes
  BY DEF Chain

(* What a caller asks for is a vector of amounts.                          *)
LEMMA AskedType == AskedAmounts \subseteq Amounts /\ Zero \in Amounts
  BY BoundsAssumption DEF AskedAmounts, Amounts, Zero

-----------------------------------------------------------------------------
(* The initial state satisfies the inductive invariant.                    *)
LEMMA InitIInv == Init => IInv
  <1> SUFFICES ASSUME Init PROVE IInv
    OBVIOUS
  <1>1. Contract!NoReservation \in [scope : Scopes \cup {NoScope}, status : Contract!Status,
                                    held : Amounts, charged : Amounts]
    BY AskedType DEF Contract!NoReservation, Contract!Reservation, Contract!Status,
                     Contract!Zero, Zero
  <1>2. NoLimits \in Limits
    BY DEF NoLimits, Limits, Unlimited
  <1>3. TypeOK
    BY <1>1, <1>2, AskedType DEF Init, TypeOK, NothingSeen
  <1>4. Fresh /\ Placed /\ HardCap
    BY DEF Init, Fresh, Placed, HardCap, Contract!NoReservation, Contract!Reservation
  <1>5. QED
    BY <1>3, <1>4 DEF IInv

(* Creating a root or a child keeps the invariant: the counters of a scope *)
(* that did not exist are zero, and its limits are not negative.           *)
LEMMA CreateStep ==
  ASSUME IInv, NEW s \in Scopes, NEW lim \in AskedLimits,
         CreateRoot(s, lim) \/ CreateChild(s, lim)
  PROVE  IInv'
  <1>1. /\ s \notin scopes
        /\ scopes' = scopes \cup {s}
        /\ limits' = [limits EXCEPT ![s] = Merge(@, lim)]
        /\ UNCHANGED <<rows, used, reserved, resv, seen>>
    BY DEF CreateRoot, CreateChild, counterVars
  <1>2. limits[s] \in Limits
    BY DEF IInv, TypeOK
  <1>3. TypeOK'
    BY <1>1, <1>2, MergeType DEF IInv, TypeOK
  <1>4. Fresh' /\ Placed'
    BY <1>1 DEF IInv, TypeOK, Fresh, Placed
  <1>5. HardCap'
    <2> SUFFICES ASSUME NEW t \in scopes', NEW c \in Counters, limits'[t][c] # Unlimited
                 PROVE  used'[t][c] + reserved'[t][c] <= limits'[t][c]
      BY DEF HardCap
    <2>1. CASE t = s
      <3>1. limits'[s] \in Limits
        BY <1>3 DEF TypeOK
      <3>2. limits'[s][c] \in Nat
        BY <3>1, <2>1 DEF Limits
      <3>3. used'[s][c] = 0 /\ reserved'[s][c] = 0
        BY <1>1 DEF IInv, Fresh, Zero
      <3>4. QED
        BY <2>1, <3>2, <3>3
    <2>2. CASE t # s
      BY <1>1, <2>2 DEF IInv, TypeOK, HardCap
    <2>3. QED
      BY <2>1, <2>2
  <1>6. QED
    BY <1>3, <1>4, <1>5 DEF IInv

(* Configure keeps the invariant: a counter it changes is checked against  *)
(* what is charged and held, any other keeps its limit.                    *)
LEMMA ConfigureStep ==
  ASSUME IInv, NEW o \in Operators, NEW s \in Scopes, NEW changes \in AskedLimits,
         Configure(o, s, changes), s \in Chain[s]
  PROVE  IInv'
  <1>1. /\ s \in scopes
        /\ ChangeFits(s, changes)
        /\ limits' = [limits EXCEPT ![s] = Merge(limits[s], changes)]
        /\ UNCHANGED <<scopes, rows, used, reserved, resv, seen>>
    BY DEF Configure, counterVars
  <1>2. limits[s] \in Limits
    BY DEF IInv, TypeOK
  <1>3. TypeOK'
    BY <1>1, <1>2, MergeType DEF IInv, TypeOK
  <1>4. Fresh' /\ Placed'
    BY <1>1 DEF IInv, TypeOK, Fresh, Placed
  <1>5. HardCap'
    <2> SUFFICES ASSUME NEW t \in scopes, NEW c \in Counters, limits'[t][c] # Unlimited
                 PROVE  used[t][c] + reserved[t][c] <= limits'[t][c]
      BY <1>1 DEF HardCap
    <2>1. CASE t = s /\ changes[c] # Unlimited
      <3>1. limits'[s][c] = changes[c]
        BY <1>1, <1>2, <2>1, MergeType DEF IInv, TypeOK
      <3>2. used[s][c] + reserved[s][c] <= changes[c]
        BY <1>1, <2>1 DEF ChangeFits, Limited
      <3>3. QED
        BY <2>1, <3>1, <3>2
    <2>2. CASE t = s /\ changes[c] = Unlimited
      <3>1. limits'[s][c] = limits[s][c]
        BY <1>1, <1>2, <2>2, MergeType DEF IInv, TypeOK
      <3>2. QED
        BY <2>2, <3>1 DEF IInv, HardCap
    <2>3. CASE t # s
      BY <1>1, <2>3 DEF IInv, TypeOK, HardCap
    <2>4. QED
      BY <2>1, <2>2, <2>3
  <1>6. QED
    BY <1>3, <1>4, <1>5 DEF IInv

(* A scope is on its own chain.                                            *)
LEMMA SelfOnChain == \A s \in Scopes : s \in Chain[s]
  BY DEF Chain

-----------------------------------------------------------------------------
(* A reservation that _check_capacity admits keeps every limit of its      *)
(* chain, and leaves the scopes off its chain alone.                       *)
LEMMA ReserveStep ==
  ASSUME IInv, NEW r \in Rids, NEW s \in Scopes, NEW amounts \in AskedAmounts,
         Reserve(r, s, amounts)
  PROVE  IInv'
  <1>0. amounts \in Amounts
    BY AskedType
  <1>1. /\ Chain[s] \subseteq scopes
        /\ CapacityAllows(Chain[s], amounts, Zero)
        /\ resv' = [resv EXCEPT ![r] = Contract!Reservation(s, "active", amounts, Zero)]
        /\ rows' = [x \in Scopes |-> IF x \in Chain[s] THEN rows[x] \cup Named(amounts)
                                                       ELSE rows[x]]
        /\ reserved' = [x \in Scopes |-> IF x \in Chain[s] THEN Plus(reserved[x], amounts)
                                                           ELSE reserved[x]]
        /\ UNCHANGED <<scopes, limits, used, seen>>
    BY DEF Reserve
  <1>2. \A x \in Scopes : Plus(reserved[x], amounts) \in Amounts
    BY <1>0 DEF IInv, TypeOK, Amounts, Plus
  <1>3. TypeOK'
    <2>1. Contract!Reservation(s, "active", amounts, Zero) \in
            [scope : Scopes \cup {NoScope}, status : Contract!Status,
             held : Amounts, charged : Amounts]
      BY <1>0, AskedType DEF Contract!Reservation, Contract!Status
    <2>2. resv' \in [Rids -> [scope : Scopes \cup {NoScope}, status : Contract!Status,
                             held : Amounts, charged : Amounts]]
      BY <1>1, <2>1 DEF IInv, TypeOK
    <2>3. rows' \in [Scopes -> SUBSET Counters] /\ reserved' \in [Scopes -> Amounts]
      BY <1>1, <1>2 DEF IInv, TypeOK, Named
    <2>4. QED
      BY <1>1, <2>2, <2>3 DEF IInv, TypeOK
  <1>4. Fresh' /\ Placed'
    BY <1>1 DEF IInv, TypeOK, Fresh, Placed, Contract!Reservation
  <1>5. HardCap'
    <2> SUFFICES ASSUME NEW t \in scopes, NEW c \in Counters, limits[t][c] # Unlimited
                 PROVE  used[t][c] + reserved'[t][c] <= limits[t][c]
      BY <1>1 DEF HardCap
    <2>1. /\ used[t][c] + reserved[t][c] <= limits[t][c]
          /\ used[t][c] \in Nat /\ reserved[t][c] \in Nat /\ amounts[c] \in Nat
          /\ limits[t][c] \in Int
      BY <1>0 DEF IInv, TypeOK, HardCap, Amounts, Limits, Unlimited
    <2>2. CASE t \in Chain[s] /\ amounts[c] # 0
      <3>1. used[t][c] + reserved[t][c] - Zero[c] + amounts[c] <= limits[t][c]
        BY <1>1, <2>2 DEF CapacityAllows, Named
      <3>2. reserved'[t][c] = reserved[t][c] + amounts[c]
        BY <1>1, <2>2 DEF IInv, TypeOK, Plus
      <3>3. QED
        BY <2>1, <3>1, <3>2 DEF Zero
    <2>3. CASE t \notin Chain[s] \/ amounts[c] = 0
      <3>1. reserved'[t][c] = reserved[t][c]
        BY <1>1, <2>1, <2>3 DEF IInv, TypeOK, Plus
      <3>2. QED
        BY <2>1, <3>1
    <2>4. QED
      BY <2>2, <2>3
  <1>6. QED
    BY <1>3, <1>4, <1>5 DEF IInv

(* Settling a reservation along its chain keeps every limit: the charge    *)
(* fits where it is counted, and elsewhere the total only goes down.       *)
LEMMA ReplaceStep ==
  ASSUME IInv, NEW r \in Rids, NEW final \in Amounts, ReplaceReserved(r, final),
         resv[r].scope \in Scopes, UNCHANGED <<scopes, limits>>
  PROVE  /\ rows' \in [Scopes -> SUBSET Counters]
         /\ used' \in [Scopes -> Amounts]
         /\ reserved' \in [Scopes -> Amounts]
         /\ Fresh'
         /\ HardCap'
  <1> DEFINE chain == Chain[resv[r].scope]
             held  == resv[r].held
  <1>1. /\ chain \subseteq scopes
        /\ CapacityAllows(chain, final, held)
        /\ \A x \in chain, c \in Counters : reserved[x][c] >= held[c]
        /\ rows' = [x \in Scopes |-> IF x \in chain
                                     THEN rows[x] \cup Named(held) \cup Named(final)
                                     ELSE rows[x]]
        /\ used' = [x \in Scopes |-> IF x \in chain THEN Plus(used[x], final) ELSE used[x]]
        /\ reserved' = [x \in Scopes |-> IF x \in chain THEN Less(reserved[x], held)
                                                        ELSE reserved[x]]
    BY DEF ReplaceReserved
  <1>2. held \in Amounts
    BY DEF IInv, TypeOK
  <1> HIDE DEF held, chain
  <1>3. \A x \in Scopes : Plus(used[x], final) \in Amounts
    BY DEF IInv, TypeOK, Amounts, Plus
  <1>4. \A x \in chain : x \in Scopes => Less(reserved[x], held) \in Amounts
    BY <1>1, <1>2 DEF IInv, TypeOK, Amounts, Less
  <1>5. rows' \in [Scopes -> SUBSET Counters]
    BY <1>1 DEF IInv, TypeOK, Named
  <1>6. used' \in [Scopes -> Amounts] /\ reserved' \in [Scopes -> Amounts]
    BY <1>1, <1>3, <1>4 DEF IInv, TypeOK
  <1>7. Fresh'
    BY <1>1 DEF IInv, Fresh
  <1>8. HardCap'
    <2> SUFFICES ASSUME NEW t \in scopes, NEW c \in Counters, limits[t][c] # Unlimited
                 PROVE  used'[t][c] + reserved'[t][c] <= limits[t][c]
      BY DEF HardCap
    <2>1. /\ used[t][c] + reserved[t][c] <= limits[t][c]
          /\ used[t][c] \in Nat /\ reserved[t][c] \in Nat
          /\ held[c] \in Nat /\ final[c] \in Nat /\ limits[t][c] \in Int
          /\ t \in Scopes
      BY <1>2 DEF IInv, TypeOK, HardCap, Amounts, Limits, Unlimited
    <2>2. CASE t \notin chain
      BY <1>1, <2>1, <2>2
    <2>3. CASE t \in chain
      <3>1. /\ used'[t][c] = used[t][c] + final[c]
            /\ reserved'[t][c] = reserved[t][c] - held[c]
        BY <1>1, <2>1, <2>3 DEF Plus, Less
      <3>2. CASE final[c] # 0
        <4>1. used[t][c] + reserved[t][c] - held[c] + final[c] <= limits[t][c]
          BY <1>1, <2>3, <3>2 DEF CapacityAllows, Named
        <4>2. QED
          BY <2>1, <3>1, <4>1
      <3>3. CASE final[c] = 0
        BY <2>1, <3>1, <3>3
      <3>4. QED
        BY <3>2, <3>3
    <2>4. QED
      BY <2>2, <2>3
  <1>9. QED
    BY <1>5, <1>6, <1>7, <1>8

(* Reconcile and Cancel settle one active reservation.                     *)
LEMMA FinishStep ==
  ASSUME IInv, NEW r \in Rids,
         \/ \E actual \in AskedAmounts : Reconcile(r, actual)
         \/ Cancel(r)
  PROVE  IInv'
  <1>1. resv[r].status = "active" /\ UNCHANGED <<scopes, limits, seen>>
    BY DEF Reconcile, Cancel
  <1>2. resv[r].scope \in Scopes
    BY <1>1 DEF IInv, Placed
  <1>3. PICK final \in Amounts : ReplaceReserved(r, final)
    BY AskedType DEF Reconcile, Cancel
  <1>4. /\ rows' \in [Scopes -> SUBSET Counters]
        /\ used' \in [Scopes -> Amounts]
        /\ reserved' \in [Scopes -> Amounts]
        /\ Fresh'
        /\ HardCap'
    BY <1>1, <1>2, <1>3, ReplaceStep
  <1>5. /\ resv' \in [Rids -> [scope : Scopes \cup {NoScope}, status : Contract!Status,
                              held : Amounts, charged : Amounts]]
        /\ Placed'
    <2>1. CASE Cancel(r)
      BY <2>1, <1>2 DEF Cancel, IInv, TypeOK, Placed, Contract!Status
    <2>2. CASE \E actual \in AskedAmounts : Reconcile(r, actual)
      <3>1. PICK actual \in Amounts :
              resv' = [resv EXCEPT ![r].status = "reconciled", ![r].charged = actual]
        BY <2>2, AskedType DEF Reconcile
      <3>2. resv \in [Rids -> [scope : Scopes \cup {NoScope}, status : Contract!Status,
                               held : Amounts, charged : Amounts]]
        BY DEF IInv, TypeOK
      <3>3. [resv[r] EXCEPT !.status = "reconciled", !.charged = actual]
              \in [scope : Scopes \cup {NoScope}, status : Contract!Status,
                   held : Amounts, charged : Amounts]
        BY <3>2 DEF Contract!Status
      <3>4. QED
        BY <3>1, <3>2, <3>3, <1>2 DEF IInv, Placed
    <2>3. QED
      BY <2>1, <2>2
  <1>6. QED
    BY <1>1, <1>4, <1>5 DEF IInv, TypeOK

-----------------------------------------------------------------------------
(* Every step of the store keeps the inductive invariant.                  *)
LEMMA NextIInv == IInv /\ [Next]_vars => IInv'
  <1> SUFFICES ASSUME IInv, [Next]_vars PROVE IInv'
    OBVIOUS
  <1>1. ASSUME NEW s \in Scopes, NEW lim \in AskedLimits,
               CreateRoot(s, lim) \/ CreateChild(s, lim)
        PROVE  IInv'
    BY <1>1, CreateStep
  <1>2. ASSUME NEW o \in Operators, NEW s \in Scopes, ReadLimits(o, s)
        PROVE  IInv'
    BY <1>2 DEF ReadLimits, counterVars, IInv, TypeOK, Fresh, Placed, HardCap
  <1>3. ASSUME NEW o \in Operators, NEW s \in Scopes, NEW changes \in AskedLimits,
               Configure(o, s, changes)
        PROVE  IInv'
    BY <1>3, ConfigureStep, SelfOnChain
  <1>4. ASSUME NEW r \in Rids, NEW s \in Scopes, NEW amounts \in AskedAmounts,
               Reserve(r, s, amounts)
        PROVE  IInv'
    BY <1>4, ReserveStep
  <1>5. ASSUME NEW r \in Rids, NEW actual \in AskedAmounts, Reconcile(r, actual)
        PROVE  IInv'
    BY <1>5, FinishStep
  <1>6. ASSUME NEW r \in Rids, Cancel(r)
        PROVE  IInv'
    BY <1>6, FinishStep
  <1>7. CASE UNCHANGED vars
    BY <1>7 DEF vars, IInv, TypeOK, Fresh, Placed, HardCap
  <1>8. QED
    BY <1>1, <1>2, <1>3, <1>4, <1>5, <1>6, <1>7 DEF Next

(* The types, the freshness of scopes that do not exist and the hard cap   *)
(* hold in every state of the store.                                       *)
THEOREM Invariance == Spec => []IInv
  BY InitIInv, NextIInv, PTL DEF Spec

(* No interleaving of reservations, settlements and limit changes ever     *)
(* takes a scope over one of its limits: the hard cap that _check_capacity *)
(* and _configure enforce, for every forest and every number of holders.   *)
THEOREM HardCapHolds == Spec => []HardCap
  <1>1. IInv => HardCap
    BY DEF IInv
  <1>2. QED
    BY <1>1, Invariance, PTL

(* The rows of the store always have their types; in particular no counter *)
(* column goes negative.                                                   *)
THEOREM TypesHold == Spec => []TypeOK
  <1>1. IInv => TypeOK
    BY DEF IInv
  <1>2. QED
    BY <1>1, Invariance, PTL

(* No limit is overwritten by an operator who had not seen its value: the  *)
(* compare and swap of _configure, for any number of operators.            *)
THEOREM NoLostUpdateHolds == Spec => NoLostUpdate
  <1> DEFINE Seen == \A s \in scopes, c \in Counters :
                       limits'[s][c] # limits[s][c] =>
                         \E o \in Operators : /\ seen[o].scope = s
                                              /\ seen[o].limits[c] = limits[s][c]
  <1>1. ASSUME TypeOK, [Next]_vars PROVE Seen
    <2> SUFFICES ASSUME NEW s \in scopes, NEW c \in Counters,
                        limits'[s][c] # limits[s][c]
                 PROVE  \E o \in Operators : /\ seen[o].scope = s
                                             /\ seen[o].limits[c] = limits[s][c]
      OBVIOUS
    <2>1. PICK t \in Scopes, lim \in AskedLimits :
            \/ CreateRoot(t, lim) \/ CreateChild(t, lim)
            \/ \E o \in Operators : Configure(o, t, lim)
      BY <1>1 DEF Next, vars, ReadLimits, Reserve, Reconcile, Cancel
    <2>2. CASE CreateRoot(t, lim) \/ CreateChild(t, lim)
      BY <1>1, <2>2 DEF CreateRoot, CreateChild, TypeOK
    <2>3. CASE \E o \in Operators : Configure(o, t, lim)
      BY <1>1, <2>3 DEF Configure, TypeOK
    <2>4. QED
      BY <2>1, <2>2, <2>3
  <1>2. QED
    BY <1>1, TypesHold, PTL DEF Spec, NoLostUpdate

-----------------------------------------------------------------------------
(* The counters.  They are exact because every transaction moves its       *)
(* amounts on the whole chain; and a scope never promises more than it     *)
(* has because a scope that is created has no children yet (Rooted).  The  *)
(* sums are taken over what exists, which is finite whatever may be asked  *)
(* for.                                                                    *)
Finite == /\ IsFiniteSet(scopes)
          /\ IsFiniteSet({r \in Rids : resv[r].status # "absent"})

Rooted == \A s \in scopes : /\ Parent[s] # s
                            /\ Parent[s] # NoScope => Parent[s] \in scopes

ExactInv == IInv /\ Finite /\ Rooted /\ NoOverAllocation /\ Conservation

(* The tree of the contract is the tree of the store.                      *)
LEMMA SameTree == Contract!Chain = Chain /\ Contract!Zero = Zero
  BY DEF Contract!Chain, Chain, Contract!ClosedUpward, ClosedUpward, Contract!Zero, Zero

LEMMA SameSum ==
  ASSUME NEW f, NEW S
  PROVE  Contract!SumFunctionOnSet(f, S) = SumFunctionOnSet(f, S)
  BY Zenon DEF Contract!SumFunctionOnSet, Contract!FoldFunctionOnSet, Contract!MapThenFoldSet,
               SumFunctionOnSet, FoldFunctionOnSet, MapThenFoldSet

(* What the contract sums, and over which reservations.                    *)
HeldOf(book, c)    == [r \in Rids |-> Contract!Held(book, r, c)]
ChargedOf(book, c) == [r \in Rids |-> Contract!Charged(book, r, c)]

LEMMA SummedType ==
  ASSUME TypeOK, Finite, NEW c \in Counters
  PROVE  /\ \A r \in Rids : HeldOf(resv, c)[r] \in Nat /\ ChargedOf(resv, c)[r] \in Nat
         /\ \A x \in Scopes : IsFiniteSet(Contract!Below(resv, x))
<1>1. \A r \in Rids : resv[r].held[c] \in Nat /\ resv[r].charged[c] \in Nat
  BY DEF TypeOK, Amounts
<1>2. \A x \in Scopes : Contract!Below(resv, x) \subseteq {r \in Rids : resv[r].status # "absent"}
  BY DEF Contract!Below
<1> QED
  BY <1>1, <1>2, SubsetFinite DEF Finite, HeldOf, ChargedOf, Contract!Held, Contract!Charged

(* A reservation that is granted adds what it holds to the sums of its     *)
(* chain.                                                                  *)
LEMMA ReserveSums ==
  ASSUME TypeOK, Finite, NEW r \in Rids, NEW s \in Scopes, NEW amounts \in Amounts,
         resv[r].status = "absent",
         resv' = [resv EXCEPT ![r] = Contract!Reservation(s, "active", amounts, Zero)],
         NEW x \in Scopes, NEW c \in Counters
  PROVE  /\ Contract!TotalHeld(resv', x, c)
              = Contract!TotalHeld(resv, x, c) + (IF x \in Chain[s] THEN amounts[c] ELSE 0)
         /\ Contract!TotalCharged(resv', x, c) = Contract!TotalCharged(resv, x, c)
<1> DEFINE below  == Contract!Below(resv, x)
           hold   == HeldOf(resv, c)
           charge == ChargedOf(resv, c)
           hold2   == HeldOf(resv', c)
           charge2 == ChargedOf(resv', c)
<1>1. /\ IsFiniteSet(below)
      /\ \A q \in Rids : hold[q] \in Nat /\ charge[q] \in Nat
  BY SummedType
<1>2. /\ below \subseteq Rids
      /\ r \notin below
      /\ Contract!Below(resv', x) = IF x \in Chain[s] THEN below \cup {r} ELSE below
  BY SameTree DEF Contract!Below, TypeOK, Contract!Reservation
<1>3. /\ hold2[r] = amounts[c]
      /\ charge2[r] = 0
      /\ \A q \in Rids \ {r} : hold2[q] = hold[q] /\ charge2[q] = charge[q]
  BY DEF HeldOf, ChargedOf, Contract!Held, Contract!Charged, TypeOK, Contract!Reservation
<1>4. amounts[c] \in Nat
  BY DEF Amounts
<1>5. /\ Contract!TotalHeld(resv, x, c) = SumFunctionOnSet(hold, below)
      /\ Contract!TotalCharged(resv, x, c) = SumFunctionOnSet(charge, below)
      /\ Contract!TotalHeld(resv', x, c) = SumFunctionOnSet(hold2, Contract!Below(resv', x))
      /\ Contract!TotalCharged(resv', x, c) = SumFunctionOnSet(charge2, Contract!Below(resv', x))
  BY SameSum, Zenon DEF HeldOf, ChargedOf, Contract!TotalHeld, Contract!TotalCharged
<1> HIDE DEF below, hold, charge, hold2, charge2
<1> DEFINE after == Contract!Below(resv', x)
<1>6. /\ \A q \in below : /\ hold[q] \in Nat /\ hold2[q] = hold[q]
                          /\ charge[q] \in Nat /\ charge2[q] = charge[q]
      /\ after \in {below, below \cup {r}}
      /\ r \in after <=> x \in Chain[s]
  BY <1>1, <1>2, <1>3
<1>7. SumFunctionOnSet(hold2, after)
        = SumFunctionOnSet(hold, below) + (IF r \in after THEN hold2[r] ELSE 0)
  BY <1>1, <1>2, <1>3, <1>4, <1>6, SumJoined
<1>8. /\ SumFunctionOnSet(charge, below) \in Nat
      /\ SumFunctionOnSet(charge2, after)
           = SumFunctionOnSet(charge, below) + (IF r \in after THEN charge2[r] ELSE 0)
  BY <1>1, <1>2, <1>3, <1>4, <1>6, SumJoined
<1> QED
  BY <1>3, <1>5, <1>6, <1>7, <1>8

Settled(r, final, done) ==
  /\ resv[r].status = "active"
  /\ done.status \in {"reconciled", "cancelled"}
  /\ done.scope = resv[r].scope
  /\ \A c \in Counters : final[c] = IF done.status = "reconciled" THEN done.charged[c] ELSE 0
  /\ resv' = [resv EXCEPT ![r] = done]

(* A reservation that is settled takes what it held from the sums of its   *)
(* chain, and adds what it is charged.                                     *)
LEMMA FinishSums ==
  ASSUME TypeOK, Finite, NEW r \in Rids, NEW final \in Amounts, NEW done,
         Settled(r, final, done), NEW x \in Scopes, NEW c \in Counters
  PROVE  /\ Contract!TotalHeld(resv', x, c)
              = Contract!TotalHeld(resv, x, c)
                  - (IF x \in Chain[resv[r].scope] THEN resv[r].held[c] ELSE 0)
         /\ Contract!TotalCharged(resv', x, c)
              = Contract!TotalCharged(resv, x, c)
                  + (IF x \in Chain[resv[r].scope] THEN final[c] ELSE 0)
<1> DEFINE below  == Contract!Below(resv, x)
           hold   == HeldOf(resv, c)
           charge == ChargedOf(resv, c)
           hold2   == HeldOf(resv', c)
           charge2 == ChargedOf(resv', c)
<1>1. /\ IsFiniteSet(below)
      /\ \A q \in Rids : hold[q] \in Nat /\ charge[q] \in Nat
  BY SummedType
<1>2. /\ below \subseteq Rids
      /\ r \in below <=> x \in Chain[resv[r].scope]
      /\ Contract!Below(resv', x) = below
  BY SameTree DEF Contract!Below, TypeOK, Settled
<1>3. /\ hold[r] = resv[r].held[c] /\ hold2[r] = 0
      /\ charge[r] = 0 /\ charge2[r] = final[c]
      /\ \A q \in Rids \ {r} : hold2[q] = hold[q] /\ charge2[q] = charge[q]
  BY DEF HeldOf, ChargedOf, Contract!Held, Contract!Charged, TypeOK, Settled
<1>4. final[c] \in Nat /\ resv[r].held[c] \in Nat
  BY DEF Amounts, TypeOK
<1>5. /\ Contract!TotalHeld(resv, x, c) = SumFunctionOnSet(hold, below)
      /\ Contract!TotalCharged(resv, x, c) = SumFunctionOnSet(charge, below)
      /\ Contract!TotalHeld(resv', x, c) = SumFunctionOnSet(hold2, Contract!Below(resv', x))
      /\ Contract!TotalCharged(resv', x, c) = SumFunctionOnSet(charge2, Contract!Below(resv', x))
  BY SameSum, Zenon DEF HeldOf, ChargedOf, Contract!TotalHeld, Contract!TotalCharged
<1> HIDE DEF below, hold, charge, hold2, charge2
<1>6. /\ \A q \in below : /\ hold[q] \in Nat /\ hold2[q] \in Nat
                          /\ charge[q] \in Nat /\ charge2[q] \in Nat
      /\ \A q \in below \ {r} : hold2[q] = hold[q] /\ charge2[q] = charge[q]
  BY <1>1, <1>2, <1>3, <1>4
<1>7. /\ SumFunctionOnSet(hold, below) \in Nat
      /\ SumFunctionOnSet(hold2, below)
           = SumFunctionOnSet(hold, below) + (IF r \in below THEN hold2[r] - hold[r] ELSE 0)
  BY <1>1, <1>6, SumMoved
<1>8. /\ SumFunctionOnSet(charge, below) \in Nat
      /\ SumFunctionOnSet(charge2, below)
           = SumFunctionOnSet(charge, below) + (IF r \in below THEN charge2[r] - charge[r] ELSE 0)
  BY <1>1, <1>6, SumMoved
<1> QED
  BY <1>2, <1>3, <1>4, <1>5, <1>7, <1>8

-----------------------------------------------------------------------------
(* What a scope has promised its children, as a function of the rows.      *)
LimitOf(lim, c) == [x \in Scopes |-> lim[x][c]]
Limiting(sc, lim, p, c, ex) ==
  {x \in Children[p] \cap sc : x \notin ex /\ lim[x][c] # Unlimited}
Promised(sc, lim, p, c, ex) ==
  SumFunctionOnSet(LimitOf(lim, c), Limiting(sc, lim, p, c, ex))

LEMMA PromisedIsAllocation ==
  ASSUME NEW p, NEW c, NEW ex
  PROVE  /\ ChildAllocation(p, c, ex) = Promised(scopes, limits, p, c, ex)
         /\ ChildAllocation(p, c, ex)' = Promised(scopes', limits', p, c, ex')
  BY Zenon DEF ChildAllocation, Promised, LimitOf, Limiting

GivenLimits(sc, lim, s, new, sc2, lim2) ==
  sc2 = sc \cup {s} /\ lim2 = [lim EXCEPT ![s] = new]

(* A scope that gets its limits, or new ones, weighs on its parent with    *)
(* these, instead of with what it had.                                     *)
PromiseMoved(sc, lim, s, new, sc2, lim2, p, c) ==
  /\ Promised(sc, lim, p, c, {s}) \in Nat
  /\ Promised(sc2, lim2, p, c, {})
       = Promised(sc, lim, p, c, {s})
           + (IF Parent[s] = p /\ new[c] # Unlimited THEN new[c] ELSE 0)
  /\ s \notin sc \/ Parent[s] # p \/ lim[s][c] = Unlimited
       => Promised(sc, lim, p, c, {s}) = Promised(sc, lim, p, c, {})

LEMMA PromiseMoves ==
  ASSUME NEW sc \in SUBSET Scopes, IsFiniteSet(sc), NEW lim \in [Scopes -> Limits],
         NEW s \in Scopes, NEW new \in Limits, NEW p \in Scopes, NEW c \in Counters,
         NEW sc2, NEW lim2, GivenLimits(sc, lim, s, new, sc2, lim2)
  PROVE  PromiseMoved(sc, lim, s, new, sc2, lim2, p, c)
<1> DEFINE others == Limiting(sc, lim, p, c, {s})
           after  == Limiting(sc2, lim2, p, c, {})
           f == LimitOf(lim, c)
           g == LimitOf(lim2, c)
<1>1. /\ others \subseteq sc \ {s}
      /\ after = IF Parent[s] = p /\ new[c] # Unlimited THEN others \cup {s} ELSE others
  BY DEF Limiting, Children, GivenLimits
<1>2. IsFiniteSet(others)
  BY <1>1, SubsetFinite
<1>3. /\ \A x \in others : f[x] \in Nat /\ f[x] = g[x]
      /\ g[s] = new[c]
      /\ new[c] # Unlimited => new[c] \in Nat
  BY DEF Limiting, LimitOf, Limits, GivenLimits
<1>4. s \notin sc \/ Parent[s] # p \/ lim[s][c] = Unlimited
        => others = Limiting(sc, lim, p, c, {})
  BY DEF Limiting, Children
<1>5. /\ Promised(sc, lim, p, c, {s}) = SumFunctionOnSet(f, others)
      /\ Promised(sc2, lim2, p, c, {}) = SumFunctionOnSet(g, after)
      /\ Promised(sc, lim, p, c, {}) = SumFunctionOnSet(f, Limiting(sc, lim, p, c, {}))
  BY DEF Promised
<1> HIDE DEF others, after, f, g
<1>6. /\ SumFunctionOnSet(f, others) \in Nat
      /\ SumFunctionOnSet(g, others) = SumFunctionOnSet(f, others)
  BY <1>2, <1>3, SumNat, SumSame
<1>7. SumFunctionOnSet(g, after) = SumFunctionOnSet(f, others)
                  + (IF Parent[s] = p /\ new[c] # Unlimited THEN new[c] ELSE 0)
  <2>1. CASE Parent[s] = p /\ new[c] # Unlimited
    <3>1. \A x \in others \cup {s} : g[x] \in Int
      BY <1>3, <2>1
    <3>2. SumFunctionOnSet(g, others \cup {s}) = new[c] + SumFunctionOnSet(g, others)
      BY <1>1, <1>2, <1>3, <3>1, SumAdd
    <3> QED
      BY <1>1, <1>3, <1>6, <2>1, <3>2
  <2>2. CASE ~(Parent[s] = p /\ new[c] # Unlimited)
    BY <1>1, <1>6, <2>2
  <2> QED
    BY <2>1, <2>2
<1> QED
  BY <1>4, <1>5, <1>6, <1>7 DEF PromiseMoved

(* Limits that fit beside the siblings' and cover the children's promise   *)
(* no scope more than it has.                                              *)
LEMMA LimitsStep ==
  ASSUME TypeOK, Finite, NoOverAllocation, Rooted,
         NEW s \in Scopes, Parent[s] # s, NEW new \in Limits,
         scopes' = scopes \cup {s}, limits' = [limits EXCEPT ![s] = new],
         \A c \in Counters : new[c] = Unlimited => limits[s][c] = Unlimited,
         \A c \in Counters : new[c] # Unlimited => ChildAllocation(s, c, {}) <= new[c],
         Parent[s] \in scopes =>
           \A c \in Counters : new[c] # Unlimited /\ limits[Parent[s]][c] # Unlimited =>
             ChildAllocation(Parent[s], c, {s}) + new[c] <= limits[Parent[s]][c]
  PROVE  NoOverAllocation'
<1>0. \A p \in scopes', c \in Counters :
        ChildAllocation(p, c, {})' = Promised(scopes', limits', p, c, {})
  BY Zenon DEF ChildAllocation, Promised, LimitOf, Limiting
<1> SUFFICES ASSUME NEW p \in scopes', NEW c \in Counters, limits'[p][c] # Unlimited
             PROVE  Promised(scopes', limits', p, c, {}) <= limits'[p][c]
  BY <1>0 DEF NoOverAllocation
<1>1. /\ scopes \in SUBSET Scopes /\ IsFiniteSet(scopes)
      /\ limits \in [Scopes -> Limits] /\ p \in Scopes
  BY DEF TypeOK, Finite
<1>2. /\ Promised(scopes, limits, p, c, {s}) \in Nat
      /\ Promised(scopes', limits', p, c, {})
           = Promised(scopes, limits, p, c, {s})
               + (IF Parent[s] = p /\ new[c] # Unlimited THEN new[c] ELSE 0)
      /\ s \notin scopes \/ Parent[s] # p \/ limits[s][c] = Unlimited
           => Promised(scopes, limits, p, c, {s}) = Promised(scopes, limits, p, c, {})
  <2>1. GivenLimits(scopes, limits, s, new, scopes', limits')
    BY DEF GivenLimits
  <2>2. PromiseMoved(scopes, limits, s, new, scopes', limits', p, c)
    BY <1>1, <2>1, PromiseMoves
  <2> QED
    BY <2>2 DEF PromiseMoved
<1>3. CASE p = s
  <2>1. new[c] # Unlimited /\ limits'[p][c] = new[c]
    BY <1>1, <1>3
  <2>2. Promised(scopes, limits, s, c, {}) <= new[c]
    BY <2>1, PromisedIsAllocation
  <2> QED
    BY <1>2, <1>3, <2>1, <2>2
<1>4. CASE p # s
  <2>1. p \in scopes /\ limits'[p][c] = limits[p][c]
    BY <1>1, <1>4
  <2>2. Promised(scopes, limits, p, c, {}) <= limits[p][c]
    BY <2>1, PromisedIsAllocation DEF NoOverAllocation
  <2>3. CASE Parent[s] = p /\ new[c] # Unlimited
    <3>1. Promised(scopes, limits, p, c, {s}) + new[c] <= limits[p][c]
      BY <2>1, <2>3, PromisedIsAllocation
    <3> QED
      BY <1>2, <2>1, <2>3, <3>1
  <2>4. CASE ~(Parent[s] = p /\ new[c] # Unlimited)
    <3>1. Promised(scopes, limits, p, c, {s}) = Promised(scopes, limits, p, c, {})
      BY <1>2, <2>4
    <3> QED
      BY <1>2, <2>1, <2>2, <2>4, <3>1
  <2> QED
    BY <2>3, <2>4
<1> QED
  BY <1>3, <1>4

(* A step that leaves the counters and the reservations keeps them exact.  *)
LEMMA ConservationKept ==
  ASSUME Conservation, UNCHANGED <<used, reserved, resv>>
  PROVE  Conservation'
  BY DEF Conservation

-----------------------------------------------------------------------------
LEMMA InitExact == Init => ExactInv
<1> SUFFICES ASSUME Init PROVE ExactInv
  OBVIOUS
<1>1. /\ scopes = {}
      /\ {r \in Rids : resv[r].status # "absent"} = {}
  BY DEF Init, Contract!NoReservation, Contract!Reservation
<1>2. Finite /\ Rooted /\ NoOverAllocation
  BY <1>1, FS_EmptySet DEF Finite, Rooted, NoOverAllocation
<1>3. Conservation
  <2> SUFFICES ASSUME NEW x \in Scopes, NEW c \in Counters
               PROVE  /\ reserved[x][c] = Contract!TotalHeld(resv, x, c)
                      /\ used[x][c] = Contract!TotalCharged(resv, x, c)
    BY DEF Conservation
  <2>1. Contract!Below(resv, x) = {}
    BY <1>1 DEF Contract!Below
  <2>2. Contract!TotalHeld(resv, x, c) = 0 /\ Contract!TotalCharged(resv, x, c) = 0
    BY <2>1, SameSum, SumEmpty DEF Contract!TotalHeld, Contract!TotalCharged
  <2> QED
    BY <2>2 DEF Init, Zero
<1> QED
  BY <1>2, <1>3, InitIInv DEF ExactInv

LEMMA CreateExact ==
  ASSUME ExactInv, NEW s \in Scopes, NEW lim \in AskedLimits,
         CreateRoot(s, lim) \/ CreateChild(s, lim)
  PROVE  ExactInv'
<1>1. /\ s \notin scopes
      /\ scopes' = scopes \cup {s}
      /\ limits' = [limits EXCEPT ![s] = Merge(limits[s], lim)]
      /\ UNCHANGED <<used, reserved, resv>>
      /\ Parent[s] # NoScope => Parent[s] \in scopes /\ AllocationFits(Parent[s], lim, {})
  BY DEF CreateRoot, CreateChild, counterVars
<1>2. IInv'
  BY CreateStep DEF ExactInv
<1>3. Finite' /\ Rooted'
  BY <1>1, FS_AddElement, ParentAssumption DEF ExactInv, Finite, Rooted
<1>4. limits[s] = NoLimits /\ limits \in [Scopes -> Limits]
  BY <1>1 DEF ExactInv, IInv, TypeOK, Fresh
<1>5. /\ Merge(limits[s], lim) \in Limits
      /\ \A c \in Counters : Merge(limits[s], lim)[c] = lim[c]
  BY <1>4, MergeType DEF NoLimits
<1>6. NoOverAllocation'
  <2>1. Parent[s] # s
    BY <1>1, ParentAssumption
  <2>2. \A c \in Counters : lim[c] # Unlimited => ChildAllocation(s, c, {}) <= lim[c]
    <3> SUFFICES ASSUME NEW c \in Counters, lim[c] # Unlimited
                 PROVE  ChildAllocation(s, c, {}) <= lim[c]
      OBVIOUS
    <3>1. Limiting(scopes, limits, s, c, {}) = {}
      BY <1>1, ParentAssumption DEF Limiting, Children, ExactInv, Rooted
    <3>2. ChildAllocation(s, c, {}) = 0
      BY <3>1, PromisedIsAllocation, SumEmpty DEF Promised
    <3> QED
      BY <1>5, <3>2 DEF Limits
  <2>3. ASSUME Parent[s] \in scopes, NEW c \in Counters, lim[c] # Unlimited,
               limits[Parent[s]][c] # Unlimited
        PROVE  ChildAllocation(Parent[s], c, {s}) + lim[c] <= limits[Parent[s]][c]
    <3>1. Parent[s] \in Scopes /\ Parent[s] # NoScope
      BY <2>3, ParentAssumption DEF ExactInv, IInv, TypeOK
    <3>2. ChildAllocation(Parent[s], c, {}) + lim[c] <= limits[Parent[s]][c]
      BY <1>1, <2>3, <3>1 DEF AllocationFits, Limited
    <3>3. ChildAllocation(Parent[s], c, {s}) = ChildAllocation(Parent[s], c, {})
      <4>1. Limiting(scopes, limits, Parent[s], c, {s}) = Limiting(scopes, limits, Parent[s], c, {})
        BY <1>1 DEF Limiting
      <4> QED
        BY <4>1, PromisedIsAllocation DEF Promised
    <3> QED
      BY <3>2, <3>3
  <2> QED
    BY <1>1, <1>4, <1>5, <2>1, <2>2, <2>3, LimitsStep DEF ExactInv, IInv, NoLimits
<1> QED
  BY <1>1, <1>2, <1>3, <1>6, ConservationKept DEF ExactInv

LEMMA ConfigureExact ==
  ASSUME ExactInv, NEW o \in Operators, NEW s \in Scopes, NEW changes \in AskedLimits,
         Configure(o, s, changes)
  PROVE  ExactInv'
<1> DEFINE new == Merge(limits[s], changes)
<1>1. /\ s \in scopes
      /\ ChangeFits(s, changes)
      /\ Parent[s] # NoScope => AllocationFits(Parent[s], new, {s})
      /\ limits' = [limits EXCEPT ![s] = new]
      /\ UNCHANGED <<scopes, used, reserved, resv>>
  BY SelfOnChain DEF Configure, counterVars
<1>2. IInv'
  BY ConfigureStep, SelfOnChain DEF ExactInv
<1>3. Finite' /\ Rooted'
  BY <1>1 DEF ExactInv, Finite, Rooted
<1>4. /\ limits \in [Scopes -> Limits]
      /\ new \in Limits
      /\ \A c \in Counters : new[c] = IF changes[c] # Unlimited THEN changes[c]
                                                              ELSE limits[s][c]
  BY MergeType DEF ExactInv, IInv, TypeOK
<1> HIDE DEF new
<1>5. NoOverAllocation'
  <2>1. Parent[s] # s
    BY <1>1 DEF ExactInv, Rooted
  <2>2. ASSUME NEW c \in Counters, new[c] # Unlimited
        PROVE  ChildAllocation(s, c, {}) <= new[c]
    BY <1>1, <1>4, <2>2 DEF ChangeFits, Limited, ExactInv, NoOverAllocation
  <2>3. ASSUME Parent[s] \in scopes, NEW c \in Counters, new[c] # Unlimited,
               limits[Parent[s]][c] # Unlimited
        PROVE  ChildAllocation(Parent[s], c, {s}) + new[c] <= limits[Parent[s]][c]
    <3>1. Parent[s] # NoScope
      BY <2>3, ParentAssumption DEF ExactInv, IInv, TypeOK
    <3> QED
      BY <1>1, <2>3, <3>1 DEF AllocationFits, Limited
  <2>4. scopes' = scopes \cup {s}
    BY <1>1
  <2>5. \A c \in Counters : new[c] = Unlimited => limits[s][c] = Unlimited
    BY <1>4
  <2>6. TypeOK /\ Finite /\ NoOverAllocation /\ Rooted
    BY DEF ExactInv, IInv
  <2> QED
    BY <1>1, <1>4, <2>1, <2>2, <2>3, <2>4, <2>5, <2>6, LimitsStep
<1> QED
  BY <1>1, <1>2, <1>3, <1>5, ConservationKept DEF ExactInv

LEMMA ReserveExact ==
  ASSUME ExactInv, NEW r \in Rids, NEW s \in Scopes, NEW amounts \in AskedAmounts,
         Reserve(r, s, amounts)
  PROVE  ExactInv'
<1>1. /\ amounts \in Amounts
      /\ resv[r].status = "absent"
      /\ resv' = [resv EXCEPT ![r] = Contract!Reservation(s, "active", amounts, Zero)]
      /\ reserved' = [x \in Scopes |-> IF x \in Chain[s] THEN Plus(reserved[x], amounts)
                                                         ELSE reserved[x]]
      /\ UNCHANGED <<scopes, limits, used>>
  BY AskedType DEF Reserve
<1>2. IInv'
  BY ReserveStep DEF ExactInv
<1>3. Finite'
  <2>1. {q \in Rids : resv'[q].status # "absent"}
          = {q \in Rids : resv[q].status # "absent"} \cup {r}
    BY <1>1 DEF Contract!Reservation, ExactInv, IInv, TypeOK
  <2> QED
    BY <1>1, <2>1, FS_AddElement DEF ExactInv, Finite
<1>4. Rooted' /\ NoOverAllocation'
  BY <1>1 DEF ExactInv, Rooted, NoOverAllocation, ChildAllocation
<1>5. Conservation'
  <2> SUFFICES ASSUME NEW x \in Scopes, NEW c \in Counters
               PROVE  /\ reserved'[x][c] = Contract!TotalHeld(resv', x, c)
                      /\ used'[x][c] = Contract!TotalCharged(resv', x, c)
    BY DEF Conservation
  <2>1. /\ reserved[x][c] = Contract!TotalHeld(resv, x, c)
        /\ used[x][c] = Contract!TotalCharged(resv, x, c)
    BY DEF ExactInv, Conservation
  <2>2. reserved'[x][c] = reserved[x][c] + (IF x \in Chain[s] THEN amounts[c] ELSE 0)
    BY <1>1 DEF Plus, ExactInv, IInv, TypeOK, Amounts
  <2>3. /\ Contract!TotalHeld(resv', x, c)
             = Contract!TotalHeld(resv, x, c) + (IF x \in Chain[s] THEN amounts[c] ELSE 0)
        /\ Contract!TotalCharged(resv', x, c) = Contract!TotalCharged(resv, x, c)
    BY <1>1, ReserveSums DEF ExactInv, IInv
  <2> QED
    BY <1>1, <2>1, <2>2, <2>3
<1> QED
  BY <1>2, <1>3, <1>4, <1>5 DEF ExactInv

LEMMA FinishExact ==
  ASSUME ExactInv, NEW r \in Rids,
         \/ \E actual \in AskedAmounts : Reconcile(r, actual)
         \/ Cancel(r)
  PROVE  ExactInv'
<1>1. /\ resv[r].status = "active"
      /\ resv[r].scope \in Scopes
      /\ UNCHANGED <<scopes, limits>>
  BY DEF Reconcile, Cancel, ExactInv, IInv, Placed
<1>2. PICK final \in Amounts :
        \E done : ReplaceReserved(r, final) /\ Settled(r, final, done)
  <2>1. CASE Cancel(r)
    <3> DEFINE after == [resv[r] EXCEPT !.status = "cancelled"]
    <3>1. ReplaceReserved(r, Zero) /\ Zero \in Amounts
      BY <2>1, AskedType DEF Cancel
    <3>2. /\ after.status = "cancelled" /\ after.scope = resv[r].scope
          /\ \A c \in Counters : Zero[c] = 0
          /\ resv' = [resv EXCEPT ![r] = after]
      BY <2>1 DEF Cancel, ExactInv, IInv, TypeOK, Zero
    <3>3. Settled(r, Zero, after)
      BY <1>1, <3>2 DEF Settled
    <3> QED
      BY <3>1, <3>3
  <2>2. CASE \E actual \in AskedAmounts : Reconcile(r, actual)
    <3>1. PICK actual \in Amounts : Reconcile(r, actual)
      BY <2>2, AskedType
    <3> DEFINE after == [resv[r] EXCEPT !.status = "reconciled", !.charged = actual]
    <3>2. /\ after.status = "reconciled" /\ after.scope = resv[r].scope
          /\ after.charged = actual
          /\ resv' = [resv EXCEPT ![r] = after]
      <4>1. resv[r] \in [scope : Scopes \cup {NoScope}, status : Contract!Status,
                         held : Amounts, charged : Amounts]
        BY DEF ExactInv, IInv, TypeOK
      <4> QED
        BY <3>1, <4>1 DEF Reconcile, ExactInv, IInv, TypeOK
    <3>3. Settled(r, actual, after)
      BY <1>1, <3>2 DEF Settled
    <3> QED
      BY <3>1, <3>3 DEF Reconcile
  <2> QED
    BY <2>1, <2>2
<1>0. PICK done : ReplaceReserved(r, final) /\ Settled(r, final, done)
  BY <1>2
<1>3. /\ done.status \in {"reconciled", "cancelled"}
      /\ done.scope = resv[r].scope
      /\ resv' = [resv EXCEPT ![r] = done]
  BY <1>0 DEF Settled
<1>4. IInv'
  BY FinishStep DEF ExactInv
<1>5. Finite'
  <2>1. {q \in Rids : resv'[q].status # "absent"} = {q \in Rids : resv[q].status # "absent"}
    BY <1>1, <1>0, <1>3 DEF ExactInv, IInv, TypeOK
  <2> QED
    BY <1>1, <2>1 DEF ExactInv, Finite
<1>6. Rooted' /\ NoOverAllocation'
  BY <1>1 DEF ExactInv, Rooted, NoOverAllocation, ChildAllocation
<1>7. Conservation'
  <2> SUFFICES ASSUME NEW x \in Scopes, NEW c \in Counters
               PROVE  /\ reserved'[x][c] = Contract!TotalHeld(resv', x, c)
                      /\ used'[x][c] = Contract!TotalCharged(resv', x, c)
    BY DEF Conservation
  <2> DEFINE on == x \in Chain[resv[r].scope]
  <2>1. /\ reserved[x][c] = Contract!TotalHeld(resv, x, c)
        /\ used[x][c] = Contract!TotalCharged(resv, x, c)
        /\ reserved[x][c] \in Nat /\ used[x][c] \in Nat
    BY DEF ExactInv, Conservation, IInv, TypeOK, Amounts
  <2>2. /\ reserved'[x][c] = reserved[x][c] - (IF on THEN resv[r].held[c] ELSE 0)
        /\ used'[x][c] = used[x][c] + (IF on THEN final[c] ELSE 0)
    BY <1>0, <2>1 DEF ReplaceReserved, Plus, Less
  <2>3. /\ Contract!TotalHeld(resv', x, c)
             = Contract!TotalHeld(resv, x, c) - (IF on THEN resv[r].held[c] ELSE 0)
        /\ Contract!TotalCharged(resv', x, c)
             = Contract!TotalCharged(resv, x, c) + (IF on THEN final[c] ELSE 0)
    BY <1>1, <1>0, FinishSums DEF ExactInv, IInv
  <2> QED
    BY <2>1, <2>2, <2>3
<1> QED
  BY <1>4, <1>5, <1>6, <1>7 DEF ExactInv

LEMMA NextExact == ExactInv /\ [Next]_vars => ExactInv'
<1> SUFFICES ASSUME ExactInv, [Next]_vars PROVE ExactInv'
  OBVIOUS
<1>1. ASSUME NEW s \in Scopes, NEW lim \in AskedLimits,
             CreateRoot(s, lim) \/ CreateChild(s, lim)
      PROVE  ExactInv'
  BY <1>1, CreateExact
<1>2. CASE (\E o \in Operators, s \in Scopes : ReadLimits(o, s)) \/ UNCHANGED vars
  <2>1. UNCHANGED <<scopes, limits, used, reserved, resv>>
    BY <1>2 DEF ReadLimits, vars, counterVars
  <2>2. Finite' /\ Rooted' /\ NoOverAllocation' /\ Conservation'
    BY <2>1, ConservationKept
       DEF ExactInv, Finite, Rooted, NoOverAllocation, ChildAllocation
  <2>3. IInv'
    BY <1>2, NextIInv DEF ExactInv, Next
  <2> QED
    BY <2>2, <2>3 DEF ExactInv
<1>3. ASSUME NEW o \in Operators, NEW s \in Scopes, NEW changes \in AskedLimits,
             Configure(o, s, changes)
      PROVE  ExactInv'
  BY <1>3, ConfigureExact
<1>4. ASSUME NEW r \in Rids, NEW s \in Scopes, NEW amounts \in AskedAmounts,
             Reserve(r, s, amounts)
      PROVE  ExactInv'
  BY <1>4, ReserveExact
<1>5. ASSUME NEW r \in Rids, NEW actual \in AskedAmounts, Reconcile(r, actual)
      PROVE  ExactInv'
  BY <1>5, FinishExact
<1>6. ASSUME NEW r \in Rids, Cancel(r)
      PROVE  ExactInv'
  BY <1>6, FinishExact
<1> QED
  BY <1>1, <1>2, <1>3, <1>4, <1>5, <1>6 DEF Next

(* The counters, the tree and the finiteness of what exists, in every      *)
(* state of the store.                                                     *)
THEOREM ExactInvariance == Spec => []ExactInv
  BY InitExact, NextExact, PTL DEF Spec

(* Every counter of every scope equals what the reservations below it hold *)
(* and were charged, and no scope has promised its children more than it   *)
(* has: for every forest, any number of reservations, operators and        *)
(* counters, and however settlements and limit changes interleave.         *)
THEOREM CountersAreExactHolds == Spec => []CountersAreExact
<1>1. ExactInv => CountersAreExact
  BY DEF ExactInv, CountersAreExact
<1> QED
  BY <1>1, ExactInvariance, PTL

-----------------------------------------------------------------------------
(* The refinement of the contract.  The counters being exact, the usage    *)
(* the contract adds up is what the hard cap bounds.                       *)
LEMMA CapIsContract == ExactInv => Contract!WithinLimits(limits, resv)
<1> SUFFICES ASSUME ExactInv, NEW x \in Scopes, NEW c \in Counters, limits[x][c] # Unlimited
             PROVE  Contract!Usage(resv, x, c) <= limits[x][c]
  BY DEF Contract!WithinLimits, Contract!Unlimited, Unlimited
<1>1. x \in scopes
  BY DEF ExactInv, IInv, Fresh, NoLimits
<1>2. used[x][c] \in Nat /\ reserved[x][c] \in Nat
  BY DEF ExactInv, IInv, TypeOK, Amounts
<1> QED
  BY <1>1, <1>2 DEF ExactInv, Conservation, IInv, HardCap, Contract!Usage

LEMMA InitContract == Init => Contract!Init
<1> SUFFICES ASSUME Init PROVE Contract!Init
  OBVIOUS
<1>1. NoLimits \in Limits /\ Contract!Limits = Limits
  BY DEF NoLimits, Limits, Unlimited, Contract!Limits, Contract!Unlimited
<1> QED
  BY <1>1 DEF Init, Contract!Init

LEMMA LimitsContract ==
  ASSUME ExactInv, ExactInv', NEW s \in Scopes, NEW new,
         limits' = [limits EXCEPT ![s] = new], UNCHANGED resv
  PROVE  Contract!Next \/ UNCHANGED Contract!vars
<1>1. CASE new = limits[s]
  BY <1>1 DEF Contract!vars, ExactInv, IInv, TypeOK
<1>2. CASE new # limits[s]
  <2>1. limits[s] \in [Counters -> Nat \cup {Unlimited}]
    BY DEF ExactInv, IInv, TypeOK, Limits
  <2>2. limits'[s] = new /\ new \in [Counters -> Nat \cup {Unlimited}]
    BY DEF ExactInv, IInv, TypeOK, Limits
  <2>3. \E c \in Counters : limits'[s][c] # limits[s][c]
    BY <1>2, <2>1, <2>2
  <2>4. Contract!WithinLimits(limits', resv)
    <3>1. Contract!WithinLimits(limits, resv)'
      BY CapIsContract, PTL
    <3> QED
      BY <3>1, Zenon
  <2>5. Contract!SetLimits(s)
    BY <2>3, <2>4 DEF Contract!SetLimits, ExactInv, IInv, TypeOK
  <2> QED
    BY <2>5 DEF Contract!Next
<1> QED
  BY <1>1, <1>2

LEMMA ReserveContract ==
  ASSUME ExactInv, ExactInv', NEW r \in Rids, NEW s \in Scopes, NEW amounts \in AskedAmounts,
         Reserve(r, s, amounts)
  PROVE  Contract!Next
<1>1. /\ resv[r].status = "absent"
      /\ resv' = [resv EXCEPT ![r] = Contract!Reservation(s, "active", amounts, Zero)]
      /\ UNCHANGED limits
  BY DEF Reserve
<1>2. resv'[r] = Contract!Reservation(s, "active", amounts, Zero)
  BY <1>1 DEF ExactInv, IInv, TypeOK
<1>3. resv'[r].scope = s /\ resv'[r].held = amounts
  BY <1>2 DEF Contract!Reservation
<1>4. Contract!WithinLimits(limits, resv')
  <2>1. Contract!WithinLimits(limits, resv)'
    BY CapIsContract, PTL
  <2>2. Contract!WithinLimits(limits', resv')
    BY <2>1, Zenon
  <2> QED
    BY <1>1, <2>2
<1>5. Contract!Reserve(r, s, amounts)
  BY <1>1, <1>4, SameTree DEF Contract!Reserve
<1> QED
  BY <1>3, <1>5 DEF Contract!Next

LEMMA FinishContract ==
  ASSUME ExactInv, ExactInv', NEW r \in Rids,
         (\E actual \in AskedAmounts : Reconcile(r, actual)) \/ Cancel(r)
  PROVE  Contract!Next
<1>1. Contract!WithinLimits(limits', resv')
  <2>1. Contract!WithinLimits(limits, resv)'
    BY CapIsContract, PTL
  <2> QED
    BY <2>1, Zenon
<1>2. CASE Cancel(r)
  <2>1. Contract!Cancel(r)
    BY <1>2 DEF Cancel, Contract!Cancel
  <2> QED
    BY <2>1 DEF Contract!Next
<1>3. CASE \E actual \in AskedAmounts : Reconcile(r, actual)
  <2>1. PICK actual \in AskedAmounts : Reconcile(r, actual)
    BY <1>3
  <2>2. resv'[r].charged = actual
    BY <2>1 DEF Reconcile, ExactInv, IInv, TypeOK
  <2>3. Contract!Reconcile(r, actual)
    BY <1>1, <2>1 DEF Reconcile, Contract!Reconcile
  <2> QED
    BY <2>2, <2>3 DEF Contract!Next
<1> QED
  BY <1>2, <1>3

LEMMA NextContract ==
  ASSUME ExactInv, ExactInv', [Next]_vars
  PROVE  [Contract!Next]_(Contract!vars)
<1>1. ASSUME NEW s \in Scopes, NEW lim \in AskedLimits,
             CreateRoot(s, lim) \/ CreateChild(s, lim)
      PROVE  Contract!Next \/ UNCHANGED Contract!vars
  BY <1>1, LimitsContract DEF CreateRoot, CreateChild
<1>2. CASE (\E o \in Operators, s \in Scopes : ReadLimits(o, s)) \/ UNCHANGED vars
  BY <1>2 DEF ReadLimits, vars, Contract!vars
<1>3. ASSUME NEW o \in Operators, NEW s \in Scopes, NEW changes \in AskedLimits,
             Configure(o, s, changes)
      PROVE  Contract!Next \/ UNCHANGED Contract!vars
  BY <1>3, LimitsContract DEF Configure
<1>4. ASSUME NEW r \in Rids, NEW s \in Scopes, NEW amounts \in AskedAmounts,
             Reserve(r, s, amounts)
      PROVE  Contract!Next
  BY <1>4, ReserveContract
<1>5. ASSUME NEW r \in Rids, NEW actual \in AskedAmounts, Reconcile(r, actual)
      PROVE  Contract!Next
  BY <1>5, FinishContract
<1>6. ASSUME NEW r \in Rids, Cancel(r)
      PROVE  Contract!Next
  BY <1>6, FinishContract
<1> QED
  BY <1>1, <1>2, <1>3, <1>4, <1>5, <1>6 DEF Next

(* The store implements the budget contract: what it answers from counters *)
(* it keeps up to date is what adding up the reservations would answer,    *)
(* and no call of any holder takes the sum over a hard limit.              *)
THEOREM ContractHolds == Spec => ContractSpec
<1>1. Init => Contract!Init
  BY InitContract
<1>2. ExactInv /\ ExactInv' /\ [Next]_vars => [Contract!Next]_(Contract!vars)
  BY NextContract
<1> QED
  BY <1>1, <1>2, ExactInvariance, PTL DEF Spec, ContractSpec, Contract!Spec
=============================================================================
