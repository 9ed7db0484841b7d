----------------------------- MODULE StoresProofs ----------------------------
(***************************************************************************)
(* Proofs about the durable stores, each for any number of processes and   *)
(* any contents: ApprovalStore, UpdateStore, Preferences, RagIndex,        *)
(* ContextRemoval, ScopedState, GrantPolicy, Metrics, SecureAudit and      *)
(* Residency, in this order.                                               *)
(***************************************************************************)
EXTENDS ApprovalStore, UpdateStore, Preferences, RagIndex, ContextRemoval, ScopedState,
        GrantPolicy, Metrics, SecureAudit, Residency, SumTheorems,
        FiniteSetTheorems, NaturalsInduction, TLAPS

(* The reading a call goes by is a time, so a stamp is not NoTime.         *)
IInv == ApprovalsTypeOK /\ SingleUse /\ UsedAsRequested /\ InTime

USE ApprovalAssumption

LEMMA BlankType == Blank \in Intents
<1>1. PICK s \in Scopes : TRUE
  OBVIOUS
<1>2. PICK w \in Works : TRUE
  OBVIOUS
<1>3. [scope |-> s, work |-> w] \in Intents
  BY DEF Intents
<1> QED
  BY <1>3 DEF Blank

LEMMA InitIInv == ApprovalsInit => IInv
  BY BlankType DEF ApprovalsInit, IInv, ApprovalsTypeOK, SingleUse, UsedAsRequested, InTime, NoTime, Statuses

(* _decide and consume preserve the invariant: they stamp a record that is *)
(* not due by the caller's clock.                                          *)
LEMMA RequestStep ==
  ASSUME IInv, NEW p \in Callers, NEW k \in Slots, NEW work \in Works, NEW ttl \in Ttls,
         Request(p, k, work, ttl)
  PROVE  IInv'
<1> USE DEF IInv, InCall, Return, NoTime
<1>1. k[1] \in Scopes /\ at[p] \in Nat /\ ttl \in Nat
  BY DEF Slots, ApprovalsTypeOK
<1>2. ApprovalsTypeOK'
  BY <1>1 DEF Request, ApprovalsTypeOK, Statuses, Intents, historyVars
<1>3. SingleUse' /\ UsedAsRequested' /\ InTime'
  BY <1>1 DEF Request, ApprovalsTypeOK, SingleUse, UsedAsRequested, InTime, historyVars
<1> QED
  BY <1>2, <1>3

LEMMA DecideStep ==
  ASSUME IInv, NEW p \in Callers, NEW k \in Slots, NEW d \in {"approved", "denied"},
         Decide(p, k, d)
  PROVE  IInv'
<1> USE DEF IInv, InCall, Return, NoTime
<1>1. at[p] \in 0..MaxTime /\ at[p] < expires[k]
  BY DEF Decide, Due, ApprovalsTypeOK
<1>2. ApprovalsTypeOK'
  BY <1>1 DEF Decide, ApprovalsTypeOK, Statuses, historyVars
<1>3. SingleUse' /\ UsedAsRequested' /\ InTime'
  BY <1>1 DEF Decide, ApprovalsTypeOK, SingleUse, UsedAsRequested, InTime, historyVars
<1> QED
  BY <1>2, <1>3

LEMMA ConsumeStep ==
  ASSUME IInv, NEW p \in Callers, NEW k \in Slots, NEW presented \in Intents,
         Consume(p, k, presented)
  PROVE  IInv'
<1> USE DEF IInv, InCall, Return, NoTime
<1>1. at[p] \in 0..MaxTime /\ at[p] < expires[k]
  BY DEF Consume, Due, ApprovalsTypeOK
<1>2. ApprovalsTypeOK'
  BY <1>1 DEF Consume, ApprovalsTypeOK, Statuses
<1>3. SingleUse' /\ UsedAsRequested' /\ InTime'
  BY <1>1 DEF Consume, ApprovalsTypeOK, SingleUse, UsedAsRequested, InTime
<1> QED
  BY <1>2, <1>3

LEMMA LookStep ==
  ASSUME IInv, NEW p \in Callers, NEW ks, Look(p, ks)
  PROVE  IInv'
<1> USE DEF IInv, InCall, Return, NoTime
<1>1. ApprovalsTypeOK'
  BY DEF Look, Expire, Due, ApprovalsTypeOK, Statuses, historyVars
<1>2. SingleUse' /\ UsedAsRequested' /\ InTime'
  BY DEF Look, Expire, Due, ApprovalsTypeOK, SingleUse, UsedAsRequested, InTime, historyVars
<1> QED
  BY <1>1, <1>2

LEMMA NextIInv == IInv /\ [ApprovalsNext]_approvalsVars => IInv'
<1> SUFFICES ASSUME IInv, [ApprovalsNext]_approvalsVars PROVE IInv'
  OBVIOUS
<1> USE DEF IInv
<1>1. CASE \E p \in Callers : ReadClock(p) \/ RollBack(p)
  <2> PICK p \in Callers : ReadClock(p) \/ RollBack(p)
    BY <1>1
  <2> USE DEF ApprovalsTypeOK, SingleUse, UsedAsRequested, InTime, NoTime, recordVars, historyVars
  <2>1. CASE ReadClock(p)
    BY <2>1 DEF ReadClock
  <2>2. CASE RollBack(p)
    BY <2>2 DEF RollBack, Return
  <2> QED
    BY <2>1, <2>2
<1>2. CASE \E p \in Callers, k \in Slots, work \in Works, ttl \in Ttls : Request(p, k, work, ttl)
  BY <1>2, RequestStep DEF IInv
<1>3. CASE (\E p \in Callers, k \in Slots : Get(p, k)) \/ (\E p \in Callers, s \in Scopes : List(p, s))
  BY <1>3, LookStep DEF Get, List
<1>4. CASE \E p \in Callers, k \in Slots, d \in {"approved", "denied"} : Decide(p, k, d)
  BY <1>4, DecideStep
<1>5. CASE \E p \in Callers, k \in Slots, presented \in Intents : Consume(p, k, presented)
  BY <1>5, ConsumeStep
<1>6. CASE Tick \/ UNCHANGED approvalsVars
  BY <1>6 DEF Tick, approvalsVars, ApprovalsTypeOK, SingleUse, UsedAsRequested, InTime, NoTime, recordVars, historyVars
<1> QED
  BY <1>1, <1>2, <1>3, <1>4, <1>5, <1>6 DEF ApprovalsNext

(* The inductive invariant holds of every behaviour.                       *)
THEOREM Invariance == ApprovalsSpec => []IInv
  BY InitIInv, NextIInv, PTL DEF ApprovalsSpec

(* The columns keep their types and their stamps their meaning.            *)
THEOREM TypesHold == ApprovalsSpec => []ApprovalsTypeOK
  BY Invariance, PTL DEF IInv

(* One call of consume at most returns for an approval.                    *)
THEOREM SingleUseHolds == ApprovalsSpec => []SingleUse
  BY Invariance, PTL DEF IInv

(* An approval is used for exactly the intent it was requested with.       *)
THEOREM UsedAsRequestedHolds == ApprovalsSpec => []UsedAsRequested
  BY Invariance, PTL DEF IInv

(* Nothing is decided or used past its expiry, by the clock of the call.   *)
THEOREM InTimeHolds == ApprovalsSpec => []InTime
  BY Invariance, PTL DEF IInv

(* Denied, consumed and expired are final.                                 *)
THEOREM FinalStatusHolds == ApprovalsSpec => FinalStatus
<1> DEFINE Stays == \A k \in Slots :
      /\ status[k] \in Final => status'[k] = status[k]
      /\ status[k] = "approved" => status'[k] # "pending"
<1>1. ASSUME ApprovalsTypeOK, [ApprovalsNext]_approvalsVars PROVE Stays
  <2> USE DEF ApprovalsTypeOK, Final
  <2>1. CASE \E p \in Callers, k \in Slots, work \in Works, ttl \in Ttls : Request(p, k, work, ttl)
    BY <1>1, <2>1 DEF Request
  <2>2. CASE \E p \in Callers, ks \in SUBSET Slots : Look(p, ks)
    BY <1>1, <2>2 DEF Look, Expire, Due
  <2>3. CASE \E p \in Callers, k \in Slots, d \in {"approved", "denied"} : Decide(p, k, d)
    BY <1>1, <2>3 DEF Decide
  <2>4. CASE \E p \in Callers, k \in Slots, presented \in Intents : Consume(p, k, presented)
    BY <1>1, <2>4 DEF Consume
  <2>5. CASE UNCHANGED status
    BY <2>5
  <2>6. ASSUME NEW p \in Callers, NEW s \in Scopes, List(p, s)
        PROVE  \E ks \in SUBSET Slots : Look(p, ks)
    BY <2>6 DEF List, Slots
  <2> QED
    BY <1>1, <2>1, <2>2, <2>3, <2>4, <2>5, <2>6
    DEF ApprovalsNext, approvalsVars, recordVars, Get, ReadClock, RollBack, Tick
<1> QED
  BY <1>1, TypesHold, PTL DEF ApprovalsSpec, FinalStatus

(* The table implements the approval contract: a step of it is a step of   *)
(* the contract or leaves the contract's variables alone.                  *)
THEOREM ContractHolds == ApprovalsSpec => ApprovalsKeepContract
<1>1. ApprovalsInit => ApprovalsContract!Init
  BY BlankType DEF ApprovalsInit, ApprovalsContract!Init
<1>2. ApprovalsTypeOK /\ [ApprovalsNext]_approvalsVars => [ApprovalsContract!Next]_(ApprovalsContract!vars)
  <2> SUFFICES ASSUME ApprovalsTypeOK, [ApprovalsNext]_approvalsVars, UNCHANGED (ApprovalsContract!vars) => FALSE
               PROVE  ApprovalsContract!Next
    OBVIOUS
  <2> USE DEF ApprovalsTypeOK, ApprovalsContract!vars, historyVars
  <2>1. CASE \E p \in Callers, k \in Slots, work \in Works, ttl \in Ttls : Request(p, k, work, ttl)
    <3> PICK p \in Callers, k \in Slots, work \in Works, ttl \in Ttls : Request(p, k, work, ttl)
      BY <2>1
    <3>1. ApprovalsContract!Request(k, intent'[k])
      BY DEF Request, ApprovalsContract!Request
    <3> QED
      BY <3>1 DEF ApprovalsContract!Next
  <2>2. CASE \E p \in Callers, ks \in SUBSET Slots : Look(p, ks)
    <3> PICK p \in Callers, ks \in SUBSET Slots : Look(p, ks)
      BY <2>2
    <3> DEFINE lapsed == {k \in Slots : status'[k] # status[k]}
    <3>1. \A k \in lapsed : status[k] \in ApprovalsContract!Open /\ status'[k] = "expired"
      BY DEF Look, Expire, Due, ApprovalsContract!Open
    <3>2. status' = [k \in Slots |-> IF k \in lapsed THEN "expired" ELSE status[k]]
      BY <3>1 DEF Look, Expire
    <3>3. UNCHANGED <<intent, uses>>
      BY DEF Look
    <3>4. ApprovalsContract!Lapse(lapsed)
      BY <3>1, <3>2, <3>3 DEF ApprovalsContract!Lapse
    <3> QED
      BY <3>4 DEF ApprovalsContract!Next
  <2>3. CASE \E p \in Callers, k \in Slots, d \in {"approved", "denied"} : Decide(p, k, d)
    BY <2>3 DEF Decide, ApprovalsContract!Decide, ApprovalsContract!Next
  <2>4. CASE \E p \in Callers, k \in Slots, presented \in Intents : Consume(p, k, presented)
    BY <2>4 DEF Consume, ApprovalsContract!Use, ApprovalsContract!Next
  <2>5. ASSUME NEW p \in Callers, NEW s \in Scopes, List(p, s)
        PROVE  \E ks \in SUBSET Slots : Look(p, ks)
    BY <2>5 DEF List, Slots
  <2> QED
    BY <2>1, <2>2, <2>3, <2>4, <2>5
    DEF ApprovalsNext, approvalsVars, recordVars, Get, ReadClock, RollBack, Tick
<1> QED
  BY <1>1, <1>2, TypesHold, PTL DEF ApprovalsSpec, ApprovalsKeepContract, ApprovalsContract!Spec

(* The two together, as the runs check them: an approval is used for what  *)
(* was decided, in its scope and in time.                                  *)
THEOREM UsedOnlyAsDecidedHolds == ApprovalsSpec => []UsedOnlyAsDecided
<1>1. UsedAsRequested /\ InTime <=> UsedOnlyAsDecided
  BY DEF UsedOnlyAsDecided
<1> QED
  BY <1>1, UsedAsRequestedHolds, InTimeHolds, PTL

-----------------------------------------------------------------------------
(* The update store.                                                       *)
Revision == Revisions \union {NoRevision}
UpdateRow == [active : Revision, previous : Revision, staged : Revision, health : Health]
RowTypes == rows \in [Coordinates -> UpdateRow]

(* A pointer is never taken away again, so where there is none now there   *)
(* was none when an operator looked, whose catalogue is then the one the   *)
(* installation came with.                                                 *)
CatalogueHolds ==
  \A o \in Operators, c \in Coordinates :
    rows[c].active = NoRevision => op[o].catalogue[c] = Installed[c]

(* The health a row keeps is that of the revision that is staged there.    *)
HealthIsOfStaged ==
  \A c \in Coordinates : rows[c].staged # NoRevision => verdict[rows[c].staged] = rows[c].health

StoreInv == RowTypes /\ UpdatesTypeOK /\ AlwaysCompatible /\ CatalogueHolds /\ HealthIsOfStaged

OfIts(r, c) == r # NoRevision => r \in Revisions /\ CoordinateOf[r] = c
LEMMA RowOf ==
  ASSUME RowTypes, UpdatesTypeOK, NEW c \in Coordinates
  PROVE  /\ OfIts(rows[c].active, c) /\ OfIts(rows[c].previous, c) /\ OfIts(rows[c].staged, c)
         /\ rows[c].health \in Health
         /\ rows[c].staged = NoRevision <=> rows[c].health = "none"
  BY DEF RowTypes, UpdatesTypeOK, OfIts

LEMMA EffectiveIsPointers ==
  ASSUME RowTypes, UpdatesTypeOK PROVE Effective \in UpdatesContract!Pointers
  BY RowOf, CatalogueAssumption DEF Effective, UpdatesContract!Pointers, OfIts

LEMMA StoreStarts == UpdatesInit => StoreInv
<1> SUFFICES ASSUME UpdatesInit PROVE StoreInv
  OBVIOUS
<1>1. RowTypes
  BY CatalogueAssumption DEF UpdatesInit, RowTypes, UpdateRow, Unmanaged, Revision, Health
<1>2. UpdatesTypeOK
  BY CatalogueAssumption DEF UpdatesInit, UpdatesTypeOK, Unmanaged, Idle, Health
<1>3. Effective = Installed
  BY CatalogueAssumption DEF UpdatesInit, Unmanaged, Effective, UpdatesContract!Pointers
<1> QED
  BY <1>1, <1>2, <1>3, CatalogueAssumption
  DEF StoreInv, AlwaysCompatible, CatalogueHolds, HealthIsOfStaged, UpdatesInit, Unmanaged, Idle

-----------------------------------------------------------------------------
Process == [pc : {"idle", "bootstrap", "read", "ready"}, coordinate : Coordinates,
            catalogue : UpdatesContract!Pointers, expected : Revision]
KnowsCatalogue(process) ==
  \A c \in Coordinates : rows[c].active = NoRevision => process.catalogue[c] = Installed[c]

(* A step of an operator that leaves the rows alone.                       *)
LEMMA OperatorMoves ==
  ASSUME StoreInv, NEW o \in Operators, UNCHANGED <<rows, pins, verdict>>,
         op' \in [Operators -> Process], \A x \in Operators : x # o => op'[x] = op[x],
         KnowsCatalogue(op'[o])
  PROVE  StoreInv'
<1>1. UpdatesTypeOK'
  BY DEF StoreInv, UpdatesTypeOK, Revision, Process
<1>2. CatalogueHolds'
  BY DEF StoreInv, UpdatesTypeOK, CatalogueHolds, KnowsCatalogue
<1> QED
  BY <1>1, <1>2
  DEF StoreInv, RowTypes, AlwaysCompatible, Effective, HealthIsOfStaged,
      UpdatesContract!Compatible, UpdatesContract!Selected

LEMMA OperatorsAreTyped ==
  ASSUME StoreInv PROVE op \in [Operators -> Process]
  BY DEF StoreInv, UpdatesTypeOK, Process, Revision

LEMMA BeginStep ==
  ASSUME StoreInv, NEW o \in Operators, NEW c \in Coordinates, Begin(o, c) PROVE StoreInv'
<1> DEFINE p == [pc |-> IF /\ rows[c].active = NoRevision /\ rows[c].staged = NoRevision
                           /\ Installed[c] # NoRevision
                        THEN "bootstrap" ELSE "read",
                 coordinate |-> c, catalogue |-> Effective, expected |-> NoRevision]
<1>1. op' = [op EXCEPT ![o] = p] /\ UNCHANGED <<rows, pins, verdict>>
  BY DEF Begin
<1>2. p \in Process
  BY EffectiveIsPointers DEF StoreInv, Revision, Process
<1>3. KnowsCatalogue(p)
  BY DEF Effective, KnowsCatalogue
<1> HIDE DEF p
<1> QED
  BY <1>1, <1>2, <1>3, OperatorMoves, OperatorsAreTyped

LEMMA ReadStep ==
  ASSUME StoreInv, NEW o \in Operators, Read(o) PROVE StoreInv'
<1>1. rows[op[o].coordinate].active \in Revision
  BY OperatorsAreTyped DEF StoreInv, RowTypes, UpdateRow, Process
<1>2. op' \in [Operators -> Process] /\ \A x \in Operators : x # o => op'[x] = op[x]
  BY <1>1, OperatorsAreTyped DEF Read, Process
<1>3. op'[o].catalogue = op[o].catalogue
  BY OperatorsAreTyped DEF Read, Process
<1>4. KnowsCatalogue(op'[o])
  BY <1>3 DEF StoreInv, CatalogueHolds, KnowsCatalogue
<1> QED
  BY <1>2, <1>4, OperatorMoves DEF Read

LEMMA IdleIsTyped == Idle \in Process /\ Idle.catalogue = Installed /\ Idle.pc = "idle"
  BY CatalogueAssumption DEF Idle, Revision, Process

LEMMA GiveUpStep ==
  ASSUME StoreInv, NEW o \in Operators, GiveUp(o) PROVE StoreInv'
<1>1. op' \in [Operators -> Process] /\ \A x \in Operators : x # o => op'[x] = op[x]
  BY IdleIsTyped, OperatorsAreTyped DEF GiveUp, Done
<1>2. KnowsCatalogue(op'[o])
  BY IdleIsTyped, OperatorsAreTyped DEF GiveUp, Done, KnowsCatalogue
<1> QED
  BY <1>1, <1>2, OperatorMoves DEF GiveUp

-----------------------------------------------------------------------------
(* A step of an operator on the row of its capability.                     *)
LEMMA RowChanges ==
  ASSUME StoreInv, NEW o \in Operators, RowTypes',
         LET c == op[o].coordinate
             row == rows'[c]
         IN
           /\ \A d \in Coordinates : d # c => rows'[d] = rows[d]
           /\ OfIts(row.active, c) /\ OfIts(row.previous, c) /\ OfIts(row.staged, c)
           /\ row.staged = NoRevision <=> row.health = "none"
           /\ rows[c].active # NoRevision => row.active # NoRevision
           /\ verdict' \in [Revisions -> Health]
           /\ row.staged # NoRevision => verdict'[row.staged] = row.health
           /\ \A r \in Revisions : CoordinateOf[r] # c => verdict'[r] = verdict[r],
         op' \in [Operators -> Process], \A x \in Operators : x # o => op'[x] = op[x],
         op'[o].catalogue \in {op[o].catalogue, Installed}, UNCHANGED pins,
         AlwaysCompatible'
  PROVE  StoreInv'
<1> DEFINE c == op[o].coordinate
<1>1. c \in Coordinates /\ rows'[c] \in UpdateRow
  BY OperatorsAreTyped DEF Process, RowTypes
<1>3. \A d \in Coordinates \ {c} : rows'[d] = rows[d]
  OBVIOUS
<1>4. \A d \in Coordinates :
        /\ OfIts(rows'[d].active, d) /\ OfIts(rows'[d].previous, d) /\ OfIts(rows'[d].staged, d)
        /\ rows'[d].health \in Health
        /\ rows'[d].staged = NoRevision <=> rows'[d].health = "none"
  BY <1>1, <1>3, RowOf DEF StoreInv, UpdateRow
<1>5. UpdatesTypeOK'
  BY <1>4 DEF StoreInv, UpdatesTypeOK, OfIts, Process, Revision
<1>6. CatalogueHolds'
  BY <1>1, <1>3 DEF StoreInv, CatalogueHolds
<1>7. HealthIsOfStaged'
  BY <1>1, <1>3, RowOf DEF StoreInv, HealthIsOfStaged, OfIts
<1> QED
  BY <1>5, <1>6, <1>7 DEF StoreInv

SamePlace(o) == /\ op' \in [Operators -> Process]
                /\ \A x \in Operators : x # o => op'[x] = op[x]
                /\ op'[o].catalogue \in {op[o].catalogue, Installed}
LEMMA DoneStays ==
  ASSUME StoreInv, NEW o \in Operators, Done(o) PROVE SamePlace(o) /\ op'[o].pc = "idle"
  BY IdleIsTyped, OperatorsAreTyped DEF Done, SamePlace

(* A step that keeps the pointers in force keeps them compatible.          *)
LEMMA SameEffect ==
  ASSUME AlwaysCompatible, Effective' = Effective PROVE AlwaysCompatible'
  BY DEF AlwaysCompatible, UpdatesContract!Compatible, UpdatesContract!Selected

LEMMA BootstrapStep ==
  ASSUME StoreInv, NEW o \in Operators, Bootstrap(o)
  PROVE  StoreInv' /\ Effective' = Effective
<1> DEFINE c == op[o].coordinate
           r == op[o].catalogue[c]
<1>1. c \in Coordinates /\ OfIts(r, c) /\ r \in Revision
  BY OperatorsAreTyped DEF Process, UpdatesContract!Pointers, OfIts, Revision
<1>2. SamePlace(o) /\ op'[o].catalogue = op[o].catalogue
  BY OperatorsAreTyped DEF Bootstrap, SamePlace, Process
<1>3. CASE UNCHANGED rows
  <2>1. KnowsCatalogue(op'[o])
    BY <1>2 DEF StoreInv, CatalogueHolds, KnowsCatalogue
  <2> QED
    BY <1>2, <1>3, <2>1, OperatorMoves DEF Bootstrap, SamePlace, Effective
<1>4. CASE /\ rows[c].active = NoRevision
           /\ rows' = [rows EXCEPT ![c] = [Unmanaged EXCEPT !.active = r]]
  <2>1. /\ rows'[c].active = r /\ rows'[c].previous = NoRevision
        /\ rows'[c].staged = NoRevision /\ rows'[c].health = "none"
        /\ \A d \in Coordinates : d # c => rows'[d] = rows[d]
    BY <1>1, <1>4 DEF Unmanaged, StoreInv, RowTypes
  <2>2. RowTypes'
    BY <1>1, <1>4 DEF Unmanaged, StoreInv, RowTypes, UpdateRow, Revision, Health
  <2>3. r = Installed[c]
    BY <1>1, <1>4 DEF StoreInv, CatalogueHolds
  <2>4. Effective' = Effective
    BY <1>1, <1>4, <2>1, <2>3 DEF Effective
  <2>5. AlwaysCompatible'
    BY <2>4, SameEffect DEF StoreInv
  <2>6. OfIts(rows'[c].active, c) /\ OfIts(rows'[c].previous, c) /\ OfIts(rows'[c].staged, c)
    BY <1>1, <2>1 DEF OfIts
  <2>7. UNCHANGED <<pins, verdict>> /\ verdict \in [Revisions -> Health]
    BY DEF Bootstrap, StoreInv, UpdatesTypeOK
  <2> QED
    BY <1>2, <1>4, <2>1, <2>2, <2>4, <2>5, <2>6, <2>7, RowChanges DEF SamePlace
<1> QED
  BY <1>3, <1>4 DEF Bootstrap

LEMMA StageStep ==
  ASSUME StoreInv, NEW o \in Operators, NEW r \in Revisions, Stage(o, r)
  PROVE  StoreInv' /\ Effective' = Effective
<1> DEFINE c == op[o].coordinate
<1>1. /\ c \in Coordinates /\ CoordinateOf[r] = c /\ rows[c] \in UpdateRow /\ r # NoRevision
      /\ r \in Revision
  BY OperatorsAreTyped, CatalogueAssumption
  DEF Process, Stage, StoreInv, RowTypes, Revision
<1>2. /\ rows'[c].active = rows[c].active /\ rows'[c].previous = rows[c].previous
      /\ rows'[c].staged = r
      /\ rows'[c].health = IF rows[c].staged = r THEN rows[c].health ELSE "pending"
      /\ \A d \in Coordinates : d # c => rows'[d] = rows[d]
  BY <1>1 DEF Stage, StoreInv, RowTypes, UpdateRow
<1>3. RowTypes' /\ rows'[c].health # "none"
  <2>1. rows'[c].health \in Health \ {"none"}
    BY <1>1, <1>2, RowOf DEF StoreInv, Health
  <2>2. RowTypes'
    BY <1>1, <2>1 DEF Stage, StoreInv, RowTypes, UpdateRow, Health
  <2> QED
    BY <2>1, <2>2
<1>4. OfIts(rows'[c].active, c) /\ OfIts(rows'[c].previous, c) /\ OfIts(rows'[c].staged, c)
  BY <1>1, <1>2, RowOf DEF StoreInv, OfIts
<1>5. /\ verdict' \in [Revisions -> Health] /\ verdict'[r] = rows'[c].health
      /\ \A x \in Revisions : CoordinateOf[x] # c => verdict'[x] = verdict[x]
  BY <1>1, <1>2 DEF Stage, StoreInv, UpdatesTypeOK, HealthIsOfStaged, Health
<1>6. SamePlace(o) /\ UNCHANGED pins
  BY DoneStays DEF Stage
<1>7. Effective' = Effective
  BY <1>1, <1>2 DEF Effective
<1>8. AlwaysCompatible'
  BY <1>7, SameEffect DEF StoreInv
<1> QED
  BY <1>1, <1>2, <1>3, <1>4, <1>5, <1>6, <1>7, <1>8, RowChanges DEF SamePlace

LEMMA HealthStep ==
  ASSUME StoreInv, NEW o \in Operators, NEW r \in Revisions, NEW result \in {"passed", "failed"},
         RecordHealth(o, r, result)
  PROVE  StoreInv' /\ Effective' = Effective
<1> DEFINE c == op[o].coordinate
<1>1. /\ c \in Coordinates /\ CoordinateOf[r] = c /\ rows[c] \in UpdateRow /\ r # NoRevision
      /\ r \in Revision /\ rows[c].staged = r
  BY OperatorsAreTyped, CatalogueAssumption
  DEF Process, RecordHealth, StoreInv, RowTypes, Revision, ForStaged
<1>2. /\ rows'[c].active = rows[c].active /\ rows'[c].previous = rows[c].previous
      /\ rows'[c].staged = r
      /\ rows'[c].health = result
      /\ \A d \in Coordinates : d # c => rows'[d] = rows[d]
  BY <1>1 DEF RecordHealth, StoreInv, RowTypes, UpdateRow
<1>3. RowTypes' /\ rows'[c].health # "none"
  <2>1. rows'[c].health \in Health \ {"none"}
    BY <1>1, <1>2, RowOf DEF StoreInv, Health
  <2>2. RowTypes'
    BY <1>1, <2>1 DEF RecordHealth, StoreInv, RowTypes, UpdateRow, Health
  <2> QED
    BY <2>1, <2>2
<1>4. OfIts(rows'[c].active, c) /\ OfIts(rows'[c].previous, c) /\ OfIts(rows'[c].staged, c)
  BY <1>1, <1>2, RowOf DEF StoreInv, OfIts
<1>5. /\ verdict' \in [Revisions -> Health] /\ verdict'[r] = rows'[c].health
      /\ \A x \in Revisions : CoordinateOf[x] # c => verdict'[x] = verdict[x]
  BY <1>1, <1>2 DEF RecordHealth, StoreInv, UpdatesTypeOK, Health
<1>6. SamePlace(o) /\ UNCHANGED pins
  BY DoneStays DEF RecordHealth
<1>7. Effective' = Effective
  BY <1>1, <1>2 DEF Effective
<1>8. AlwaysCompatible'
  BY <1>7, SameEffect DEF StoreInv
<1> QED
  BY <1>1, <1>2, <1>3, <1>4, <1>5, <1>6, <1>7, <1>8, RowChanges DEF SamePlace

-----------------------------------------------------------------------------
(* A pointer moves.  What the operator validates, the pointers of the      *)
(* store over a catalogue that may be old, is what will be in force.       *)
LEMMA MoveStep ==
  ASSUME StoreInv, NEW o \in Operators, NEW r \in Revisions, Done(o), UNCHANGED pins,
         LET c == op[o].coordinate IN
           /\ CoordinateOf[r] = c
           /\ rows' = [rows EXCEPT ![c] = Moved(@, r)] /\ verdict' = Forgotten(c),
         Validated(o, r)
  PROVE  StoreInv' /\ UpdatesContract!Switch(op[o].coordinate, r)
<1> DEFINE c == op[o].coordinate
<1>1. c \in Coordinates /\ rows[c] \in UpdateRow /\ r # NoRevision
  BY OperatorsAreTyped, CatalogueAssumption DEF Process, StoreInv, RowTypes
<1>2. RowTypes'
  BY <1>1 DEF Moved, UpdateRow, Revision, Health, StoreInv, RowTypes
<1>3. /\ rows'[c].active = r /\ rows'[c].previous = rows[c].active
      /\ rows'[c].staged = NoRevision /\ rows'[c].health = "none"
      /\ \A d \in Coordinates : d # c => rows'[d] = rows[d]
  BY <1>1 DEF Moved, StoreInv, RowTypes
<1>4. Effective' = [Effective EXCEPT ![c] = r]
  <2>1. Effective' = [d \in Coordinates |-> IF d = c THEN r ELSE Effective[d]]
    BY <1>1, <1>3 DEF Effective
  <2> QED
    BY <2>1 DEF Effective
<1>5. Effective' = Combined(o, [d \in Coordinates |-> IF d = c THEN r ELSE rows[d].active])
  BY <1>1, <1>4 DEF Effective, Combined, StoreInv, CatalogueHolds
<1>6. UpdatesContract!Compatible(Effective')
  BY <1>5 DEF Validated
<1>7. AlwaysCompatible'
  BY <1>6 DEF AlwaysCompatible, UpdatesContract!Compatible, UpdatesContract!Selected
<1>8. OfIts(rows'[c].active, c) /\ OfIts(rows'[c].previous, c) /\ OfIts(rows'[c].staged, c)
  BY <1>1, <1>3, RowOf DEF StoreInv, OfIts
<1>9. /\ verdict' \in [Revisions -> Health]
      /\ \A x \in Revisions : CoordinateOf[x] # c => verdict'[x] = verdict[x]
  BY DEF Forgotten, StoreInv, UpdatesTypeOK, Health
<1>10. SamePlace(o)
  BY DoneStays
<1>11. UpdatesContract!Switch(c, r)
  BY <1>4, <1>6 DEF UpdatesContract!Switch
<1>12. StoreInv'
  BY <1>1, <1>2, <1>3, <1>7, <1>8, <1>9, <1>10, RowChanges DEF SamePlace
<1> QED
  BY <1>11, <1>12

-----------------------------------------------------------------------------
Healthy(c) == rows'[c].active # rows[c].active => Proven(c, rows'[c].active)
Seen(c) ==
  (rows[c].active # NoRevision /\ rows'[c].active # rows[c].active) =>
    \E o \in Operators : /\ op[o].pc = "ready" /\ op[o].coordinate = c
                         /\ op[o].expected = rows[c].active /\ op'[o].pc = "idle"

KeepsPromises ==
  /\ \A c \in Coordinates : Healthy(c) /\ Seen(c)
  /\ UpdatesContract!ContractNext \/ UNCHANGED <<Effective, pins>>

LEMMA QuietKeeps == ASSUME UNCHANGED <<rows, pins>> PROVE KeepsPromises
  BY DEF KeepsPromises, Healthy, Seen, Effective

LEMMA StagingKeeps ==
  ASSUME StoreInv, NEW o \in Operators, NEW r \in Revisions, UNCHANGED pins,
         Effective' = Effective,
         \A c \in Coordinates : rows'[c].active = rows[c].active
  PROVE  KeepsPromises
  BY DEF KeepsPromises, Healthy, Seen

LEMMA ActivateKeeps ==
  ASSUME StoreInv, NEW o \in Operators, NEW r \in Revisions, Activate(o, r)
  PROVE  StoreInv' /\ KeepsPromises
<1> DEFINE c == op[o].coordinate
<1>1. c \in Coordinates /\ r # NoRevision
  BY OperatorsAreTyped, CatalogueAssumption DEF Process
<1>2. StoreInv' /\ UpdatesContract!Switch(c, r)
  BY MoveStep DEF Activate
<1>3. rows'[c].active = r /\ \A d \in Coordinates : d # c => rows'[d] = rows[d]
  BY <1>1 DEF Activate, Moved, StoreInv, RowTypes
<1>4. verdict[r] = "passed"
  BY <1>1 DEF Activate, StoreInv, HealthIsOfStaged
<1>5. op[o].pc = "ready" /\ op[o].expected = rows[c].active /\ op'[o].pc = "idle"
  BY DoneStays DEF Activate, ActiveAsExpected
<1> QED
  BY <1>1, <1>2, <1>3, <1>4, <1>5 DEF KeepsPromises, Healthy, Seen, Proven, UpdatesContract!ContractNext

LEMMA RollbackKeeps ==
  ASSUME StoreInv, NEW o \in Operators, Rollback(o)
  PROVE  StoreInv' /\ KeepsPromises
<1> DEFINE c == op[o].coordinate
           r == rows[c].previous
<1>1. c \in Coordinates /\ r \in Revisions /\ CoordinateOf[r] = c
  BY OperatorsAreTyped, RowOf DEF Process, Rollback, StoreInv, OfIts
<1>2. StoreInv' /\ UpdatesContract!Switch(c, r)
  BY <1>1, MoveStep DEF Rollback
<1>3. rows'[c].active = r /\ \A d \in Coordinates : d # c => rows'[d] = rows[d]
  BY <1>1 DEF Rollback, Moved, StoreInv, RowTypes
<1>4. op[o].pc = "ready" /\ op[o].expected = rows[c].active /\ op'[o].pc = "idle"
  BY DoneStays DEF Rollback, ActiveAsExpected
<1> QED
  BY <1>1, <1>2, <1>3, <1>4 DEF KeepsPromises, Healthy, Seen, Proven, UpdatesContract!ContractNext

LEMMA BootstrapKeeps ==
  ASSUME StoreInv, NEW o \in Operators, Bootstrap(o)
  PROVE  StoreInv' /\ KeepsPromises
<1>1. StoreInv' /\ Effective' = Effective /\ UNCHANGED pins
  BY BootstrapStep DEF Bootstrap
<1>2. ASSUME NEW c \in Coordinates, rows'[c].active # rows[c].active
      PROVE  rows[c].active = NoRevision /\ rows'[c].active = Installed[c]
  <2>1. op[o].coordinate = c /\ rows[c].active = NoRevision
    BY <1>2, OperatorsAreTyped DEF Bootstrap, Process, StoreInv, RowTypes
  <2>2. rows'[c].active = op[o].catalogue[c]
    BY <1>2, <2>1 DEF Bootstrap, Unmanaged, StoreInv, RowTypes
  <2> QED
    BY <2>1, <2>2 DEF StoreInv, CatalogueHolds
<1> QED
  BY <1>1, <1>2 DEF KeepsPromises, Healthy, Seen, Proven

LEMMA PinKeeps ==
  ASSUME StoreInv, NEW p \in PinIds, ReleasePin(p) \/ \E c \in Coordinates : PinActive(c, p)
  PROVE  StoreInv' /\ KeepsPromises
<1>1. UNCHANGED <<rows, op, verdict>> /\ pins' \in [PinIds -> Revisions \union {NoPin}]
  BY RowOf DEF ReleasePin, PinActive, StoreInv, UpdatesTypeOK, OfIts
<1>2. UpdatesContract!ContractNext
  <2>1. CASE ReleasePin(p)
    BY <2>1, <1>1 DEF ReleasePin, UpdatesContract!ContractNext, UpdatesContract!ReleasePin, Effective
  <2>2. ASSUME NEW c \in Coordinates, PinActive(c, p) PROVE UpdatesContract!PinActive(c, p)
    BY <2>2, <1>1 DEF PinActive, UpdatesContract!PinActive, UpdatesContract!Pinnable, Effective
  <2> QED
    BY <2>1, <2>2 DEF UpdatesContract!ContractNext
<1>3. StoreInv'
  BY <1>1 DEF StoreInv, RowTypes, UpdatesTypeOK, AlwaysCompatible, Effective, CatalogueHolds,
     HealthIsOfStaged, UpdatesContract!Compatible, UpdatesContract!Selected
<1> QED
  BY <1>1, <1>2, <1>3 DEF KeepsPromises, Healthy, Seen

LEMMA UpdateSteps == StoreInv /\ [UpdatesNext]_updatesVars => StoreInv' /\ KeepsPromises
<1> SUFFICES ASSUME StoreInv, [UpdatesNext]_updatesVars PROVE StoreInv' /\ KeepsPromises
  OBVIOUS
<1>1. CASE UNCHANGED updatesVars
  <2>1. StoreInv'
    BY <1>1 DEF updatesVars, StoreInv, RowTypes, UpdatesTypeOK, AlwaysCompatible, Effective,
       CatalogueHolds, HealthIsOfStaged, UpdatesContract!Compatible, UpdatesContract!Selected
  <2> QED
    BY <1>1, <2>1, QuietKeeps DEF updatesVars
<1>2. ASSUME NEW o \in Operators, NEW c \in Coordinates, Begin(o, c)
      PROVE  StoreInv' /\ KeepsPromises
  BY <1>2, BeginStep, QuietKeeps DEF Begin
<1>3. ASSUME NEW o \in Operators, Read(o) \/ GiveUp(o)
      PROVE  StoreInv' /\ KeepsPromises
  BY <1>3, ReadStep, GiveUpStep, QuietKeeps DEF Read, GiveUp
<1>4. ASSUME NEW o \in Operators, NEW r \in Revisions, Stage(o, r)
      PROVE  StoreInv' /\ KeepsPromises
  <2>1. \A c \in Coordinates : rows'[c].active = rows[c].active
    BY <1>4 DEF Stage, StoreInv, RowTypes, UpdateRow
  <2> QED
    BY <1>4, <2>1, StageStep, StagingKeeps DEF Stage
<1>5. ASSUME NEW o \in Operators, NEW r \in Revisions, NEW result \in {"passed", "failed"},
             RecordHealth(o, r, result)
      PROVE  StoreInv' /\ KeepsPromises
  <2>1. \A c \in Coordinates : rows'[c].active = rows[c].active
    BY <1>5 DEF RecordHealth, StoreInv, RowTypes, UpdateRow
  <2> QED
    BY <1>5, <2>1, HealthStep, StagingKeeps DEF RecordHealth
<1> QED
  BY <1>1, <1>2, <1>3, <1>4, <1>5, ActivateKeeps, RollbackKeeps, BootstrapKeeps, PinKeeps
  DEF UpdatesNext

(* update_store.py with lifecycle.py and runtime.py: the revisions in      *)
(* force fit one another although every operator validates over a          *)
(* catalogue of its own, possibly old.                                     *)
THEOREM AlwaysCompatibleHolds == UpdatesSpec => []AlwaysCompatible
<1>1. StoreInv => AlwaysCompatible
  BY DEF StoreInv
<1> QED
  BY <1>1, StoreStarts, UpdateSteps, PTL DEF UpdatesSpec

(* The whole of what operators and executions rely on, the refinement of   *)
(* PointerContract included.                                               *)
THEOREM UpdatesAreSafeHolds == UpdatesSpec => UpdatesAreSafe
<1>1. UpdatesSpec => []StoreInv
  BY StoreStarts, UpdateSteps, PTL DEF UpdatesSpec
<1>2. StoreInv => UpdatesTypeOK /\ AlwaysCompatible
  BY DEF StoreInv
<1>3. StoreInv /\ [UpdatesNext]_updatesVars =>
        [\A c \in Coordinates :
           rows'[c].active # rows[c].active => Proven(c, rows'[c].active)]_updatesVars
  BY UpdateSteps DEF KeepsPromises, Healthy
<1>4. StoreInv /\ [UpdatesNext]_updatesVars =>
        [\A c \in Coordinates :
           (rows[c].active # NoRevision /\ rows'[c].active # rows[c].active) =>
             \E o \in Operators : /\ op[o].pc = "ready"
                                  /\ op[o].coordinate = c
                                  /\ op[o].expected = rows[c].active
                                  /\ op'[o].pc = "idle"]_updatesVars
  BY UpdateSteps DEF KeepsPromises, Seen
<1>5. StoreInv /\ [UpdatesNext]_updatesVars => [UpdatesContract!ContractNext]_<<Effective, pins>>
  BY UpdateSteps DEF KeepsPromises
<1>6. UpdatesInit => UpdatesContract!ContractInit(Installed)
  BY CatalogueAssumption
  DEF UpdatesInit, UpdatesContract!ContractInit, Effective, Unmanaged, UpdatesContract!Pointers
<1>7. UpdatesSpec => [](UpdatesTypeOK /\ AlwaysCompatible)
  BY <1>1, <1>2, PTL
<1>8. UpdatesSpec => OnlyHealthyActivated
  BY <1>1, <1>3, PTL DEF UpdatesSpec, OnlyHealthyActivated
<1>9. UpdatesSpec => NoLostUpdate
  BY <1>1, <1>4, PTL DEF UpdatesSpec, NoLostUpdate
<1>10. UpdatesSpec => UpdatesKeepContract
  BY <1>1, <1>5, <1>6, PTL DEF UpdatesSpec, UpdatesKeepContract
<1> QED
  BY <1>7, <1>8, <1>9, <1>10 DEF UpdatesAreSafe

-----------------------------------------------------------------------------
(* Preference files (Preferences).                                         *)
Files == [Settings -> SettingValues \union {Unset}]
Setting == [place : Places, setting : Settings, choice : SettingValues, copy : Files]

(* Whoever has a file open that nobody else had has its present content.   *)
SettersInv ==
  /\ config \in [Places -> Files] /\ last \in [Places -> Files]
  /\ setter \in [Setters -> Setting \union {NotSetting}]
  /\ overlapped \subseteq Places
  /\ \A p \in Places \ overlapped : config[p] = last[p]
  /\ \A w \in Setters : setter[w] # NotSetting /\ setter[w].place \notin overlapped =>
       /\ setter[w].copy = config[setter[w].place]
       /\ \A v \in Setters \ {w} : setter[v].place # setter[w].place

LEMMA NowhereIsNoPlace == \A x \in Setting : x # NotSetting /\ x.place \in Places /\ NotSetting.place \notin Places
  BY DEF Setting, NotSetting, Places

LEMMA PreferencesStart == PreferencesInit => SettersInv
  BY DEF PreferencesInit, SettersInv, Files

LEMMA ReadKeeps ==
  ASSUME SettersInv, NEW w \in Setters, NEW p \in Places, NEW s \in Settings,
         NEW c \in SettingValues, ReadConfig(w, p, s, c)
  PROVE  SettersInv'
<1> DEFINE own == [place |-> p, setting |-> s, choice |-> c, copy |-> config[p]]
<1>1. own \in Setting /\ own.place = p /\ own.copy = config[p]
  BY DEF SettersInv, Setting
<1>2. /\ setter[w] = NotSetting /\ setter' = [setter EXCEPT ![w] = own] /\ UNCHANGED <<config, last>>
      /\ overlapped' = overlapped \union {q \in {p} : \E v \in Setters : setter[v].place = q}
  BY DEF ReadConfig
<1> HIDE DEF own
<1>3. /\ setter' \in [Setters -> Setting \union {NotSetting}] /\ setter'[w] = own
      /\ \A v \in Setters \ {w} : setter'[v] = setter[v]
  BY <1>1, <1>2 DEF SettersInv
<1>4. ASSUME NEW v \in Setters, setter'[v] # NotSetting, setter'[v].place \notin overlapped'
      PROVE  /\ setter'[v].copy = config[setter'[v].place]
             /\ \A x \in Setters \ {v} : setter'[x].place # setter'[v].place
  <2>1. CASE v = w
    BY <1>1, <1>2, <1>3, <1>4, <2>1
  <2>2. CASE v # w
    <3>1. setter[v].place # p
      BY <1>2, <1>3, <1>4, <2>2
    <3> QED
      BY <1>1, <1>2, <1>3, <1>4, <2>2, <3>1 DEF SettersInv
  <2> QED
    BY <2>1, <2>2
<1>5. overlapped' \subseteq Places /\ overlapped \subseteq overlapped'
  BY <1>2 DEF SettersInv
<1> QED
  BY <1>2, <1>3, <1>4, <1>5 DEF SettersInv

LEMMA WriteKeeps ==
  ASSUME SettersInv, NEW w \in Setters, WriteConfig(w) PROVE SettersInv'
<1> DEFINE own == setter[w]
           p == own.place
           new == Changed(own)
<1>1. own \in Setting /\ own # NotSetting /\ p \in Places
  BY NowhereIsNoPlace DEF SettersInv, WriteConfig
<1>2. /\ config' = [config EXCEPT ![p] = new] /\ setter' = [setter EXCEPT ![w] = NotSetting]
      /\ last' = [last EXCEPT ![p][own.setting] = own.choice] /\ UNCHANGED overlapped
  BY DEF WriteConfig
<1>3. new \in Files /\ own.copy \in Files /\ own.setting \in Settings
      /\ new = [own.copy EXCEPT ![own.setting] = own.choice]
  BY <1>1 DEF Changed, Setting, Files
<1>4. p \notin overlapped => own.copy = config[p] /\ \A v \in Setters \ {w} : setter[v].place # p
  BY <1>1 DEF SettersInv
<1>5. [last[p] EXCEPT ![own.setting] = own.choice] \in Files
  BY <1>1 DEF SettersInv, Files, Setting
<1> HIDE DEF new, p, own
<1>6. config' \in [Places -> Files] /\ config'[p] = new /\ \A q \in Places \ {p} : config'[q] = config[q]
  BY <1>1, <1>2, <1>3 DEF SettersInv
<1>7. /\ last' \in [Places -> Files] /\ last'[p] = [last[p] EXCEPT ![own.setting] = own.choice]
      /\ \A q \in Places \ {p} : last'[q] = last[q]
  BY <1>1, <1>2, <1>5 DEF SettersInv
<1>8. /\ setter' \in [Setters -> Setting \union {NotSetting}] /\ setter'[w] = NotSetting
      /\ \A v \in Setters \ {w} : setter'[v] = setter[v]
  BY <1>2 DEF SettersInv
<1>9. \A q \in Places \ overlapped : config'[q] = last'[q]
  BY <1>3, <1>4, <1>6, <1>7 DEF SettersInv
<1>10. ASSUME NEW v \in Setters, setter'[v] # NotSetting, setter'[v].place \notin overlapped
       PROVE  /\ setter'[v].copy = config'[setter'[v].place]
              /\ \A x \in Setters \ {v} : setter'[x].place # setter'[v].place
  <2>1. v # w /\ setter[v] \in Setting /\ setter[v].place \in Places
    BY <1>8, <1>10, NowhereIsNoPlace DEF SettersInv
  <2>2. setter[v].place # p
    <3>1. setter[v] # NotSetting /\ setter[v].place \notin overlapped
      BY <1>8, <1>10, <2>1
    <3>2. \A x \in Setters \ {v} : setter[x].place # setter[v].place
      BY <3>1 DEF SettersInv
    <3> QED
      BY <2>1, <3>2 DEF p, own
  <2>3. setter'[w].place \notin Places
    BY <1>8, NowhereIsNoPlace, <1>1
  <2>4. setter[v].copy = config[setter[v].place]
        /\ \A x \in Setters \ {v} : setter[x].place # setter[v].place
    BY <1>8, <1>10, <2>1 DEF SettersInv
  <2>5. \A x \in Setters \ {v} : setter'[x].place # setter'[v].place
    BY <1>8, <2>1, <2>3, <2>4
  <2> QED
    BY <1>6, <1>8, <2>1, <2>2, <2>4, <2>5
<1>11. \A v \in Setters : setter'[v] # NotSetting /\ setter'[v].place \notin overlapped =>
         /\ setter'[v].copy = config'[setter'[v].place]
         /\ \A x \in Setters \ {v} : setter'[x].place # setter'[v].place
  BY <1>10
<1>12. overlapped' = overlapped /\ overlapped \subseteq Places
  BY <1>2 DEF SettersInv
<1>13. config' \in [Places -> Files] /\ last' \in [Places -> Files]
       /\ setter' \in [Setters -> Setting \union {NotSetting}]
  BY <1>6, <1>7, <1>8
<1> QED
  BY <1>9, <1>11, <1>12, <1>13 DEF SettersInv

LEMMA DeathKeeps ==
  ASSUME SettersInv, NEW w \in Setters, SetterDies(w) PROVE SettersInv'
<1>1. /\ setter' = [setter EXCEPT ![w] = NotSetting] /\ UNCHANGED <<config, last, overlapped>>
  BY DEF SetterDies
<1>2. /\ setter' \in [Setters -> Setting \union {NotSetting}] /\ setter'[w] = NotSetting
      /\ \A v \in Setters \ {w} : setter'[v] = setter[v]
  BY <1>1 DEF SettersInv
<1>3. \A v \in Setters : setter'[v] # NotSetting => setter'[v].place \in Places
  BY <1>2, NowhereIsNoPlace
<1>4. setter[w] \in Setting => NotSetting.place \notin Places
  BY NowhereIsNoPlace
<1>5. setter[w] \in Setting
  BY DEF SettersInv, SetterDies
<1> QED
  BY <1>1, <1>2, <1>3, <1>4, <1>5 DEF SettersInv

(* state.py: a file whose changes did not overlap holds what was last set. *)
THEOREM SettingsAreKeptHolds == PreferencesSpec => []SettingsAreKept
<1>1. SettersInv => SettingsAreKept
  BY DEF SettersInv, SettingsAreKept, Resolved, Places
<1>2. SettersInv /\ [PreferencesNext]_preferences => SettersInv'
  <2>1. SettersInv /\ UNCHANGED preferences => SettersInv'
    BY DEF SettersInv, preferences
  <2> QED
    BY <2>1, ReadKeeps, WriteKeeps, DeathKeeps DEF PreferencesNext
<1> QED
  BY <1>1, <1>2, PreferencesStart, PTL DEF PreferencesSpec

HIDE ApprovalAssumption

-----------------------------------------------------------------------------
(* Retrieval: the three tables.                                            *)
NamedReaders == Readers \cup {Anyone}
RowsOfBatches == UNION {{b[i] : i \in DOMAIN b} : b \in Batches}
CuratorJob(w) ==
  \/ w = NoJob
  \/ w.job = "acl" /\ w.of \in Corpora /\ w.id \in PassageIds /\ w.readers \subseteq NamedReaders
  \/ w.job = "purge" /\ w.of \in Corpora

RagTypes ==
  /\ passages \in [Corpora -> SUBSET RowsOfBatches]
  /\ \A t \in Corpora : IsFiniteSet(passages[t])
  /\ DOMAIN fts = Corpora /\ DOMAIN acl = Corpora /\ DOMAIN published = Corpora
  /\ \A t \in Corpora : DOMAIN published[t] = PassageIds
  /\ DOMAIN curator = Curators
  /\ \A c \in Curators : CuratorJob(curator[c])

TextStoredOnce == \A t \in Corpora : \A p, q \in passages[t] : p.text = q.text => p = q
FoundOnce == \A t \in Corpora : fts[t] = RowsPerId(passages[t])
ReadAsPublished ==
  \A t \in Corpora : \A p \in passages[t] :
    {r \in NamedReaders : <<p.id, r>> \in acl[t]} = published[t][p.id]

RagInv == RagTypes /\ TextStoredOnce /\ FoundOnce /\ ReadAsPublished

LEMMA RowHasId ==
  ASSUME NEW p \in RowsOfBatches
  PROVE  p.id \in PassageIds
  BY DEF RowsOfBatches, PassageIds

(* What one publication stores, and whom it names.                         *)
LEMMA BatchFacts ==
  ASSUME NEW b \in Batches, NEW table \in SUBSET ToSet(b), Ingested(b, table)
  PROVE  /\ table \in SUBSET RowsOfBatches
         /\ IsFiniteSet(table)
         /\ \A p, q \in table : p.text = q.text => p = q
         /\ \A p \in table : {r \in NamedReaders : <<p.id, r>> \in AclOf(b)} = ReadersOf(b)[p.id]
<1>1. DOMAIN b = 1..Len(b) /\ Len(b) \in Nat
  BY BatchesAssumption
<1>2. ToSet(b) = {b[i] : i \in DOMAIN b}
  BY DEF ToSet
<1>3. IsFiniteSet(DOMAIN b)
  BY <1>1, FS_Interval
<1>4. IsFiniteSet(ToSet(b))
  <2>1. b \in Surjection(DOMAIN b, ToSet(b))
    BY <1>2, BatchesAssumption DEF Surjection
  <2> QED
    BY <1>3, <2>1, FS_Surjection
<1>5. IsFiniteSet(table)
  BY <1>4, FS_Subset
<1>6. table \in SUBSET RowsOfBatches
  BY <1>2 DEF RowsOfBatches
<1>7. ASSUME NEW i \in DOMAIN b, NEW j \in DOMAIN b, j < i, b[i] \in table, b[j] \in table
      PROVE  ~Clash(b[j], b[i])
  BY <1>1, <1>7 DEF Ingested
<1>8. ASSUME NEW p \in table, NEW q \in table, p.text = q.text PROVE p = q
  <2>1. PICK i \in DOMAIN b, j \in DOMAIN b : p = b[i] /\ q = b[j]
    BY <1>2
  <2>2. i < j \/ j < i \/ i = j
    BY <1>1, <2>1
  <2> QED
    BY <1>7, <1>8, <2>1, <2>2 DEF Clash
<1>9. ASSUME NEW p \in table
      PROVE  {r \in NamedReaders : <<p.id, r>> \in AclOf(b)} = ReadersOf(b)[p.id]
  <2>1. p.id \in PassageIds
    BY <1>6, RowHasId
  <2>2. ReadersOf(b)[p.id] = UNION {b[i].readers : i \in {j \in DOMAIN b : b[j].id = p.id}}
    BY <2>1 DEF ReadersOf
  <2>3. \A r : <<p.id, r>> \in AclOf(b) <=> r \in ReadersOf(b)[p.id]
    BY <2>2 DEF AclOf
  <2>4. ReadersOf(b)[p.id] \subseteq NamedReaders
    BY <2>2, BatchesAssumption DEF NamedReaders
  <2> QED
    BY <2>3, <2>4
<1> QED
  BY <1>5, <1>6, <1>8, <1>9

LEMMA ReplaceCorpusStep ==
  ASSUME RagInv, NEW t \in Corpora, NEW b \in Batches, ReplaceCorpus(t, b)
  PROVE  RagInv'
<1>1. PICK table \in SUBSET ToSet(b) :
        /\ Ingested(b, table)
        /\ passages' = [passages EXCEPT ![t] = table]
        /\ fts' = [fts EXCEPT ![t] = RowsPerId(table)]
        /\ published' = [published EXCEPT ![t] = ReadersOf(b)]
  BY DEF ReplaceCorpus
<1>2. acl' = [acl EXCEPT ![t] = AclOf(b)] /\ curator' = curator
  BY DEF ReplaceCorpus, Cleared
<1>3. /\ table \in SUBSET RowsOfBatches
      /\ IsFiniteSet(table)
      /\ \A p, q \in table : p.text = q.text => p = q
      /\ \A p \in table : {r \in NamedReaders : <<p.id, r>> \in AclOf(b)} = ReadersOf(b)[p.id]
  BY <1>1, BatchFacts
<1>4. DOMAIN ReadersOf(b) = PassageIds
  BY DEF ReadersOf
<1>5. RagTypes'
  BY <1>1, <1>2, <1>3, <1>4 DEF RagInv, RagTypes
<1>6. TextStoredOnce'
  BY <1>1, <1>3 DEF RagInv, RagTypes, TextStoredOnce
<1>7. FoundOnce'
  BY <1>1 DEF RagInv, RagTypes, FoundOnce
<1>8. ReadAsPublished'
  BY <1>1, <1>2, <1>3 DEF RagInv, RagTypes, ReadAsPublished
<1> QED
  BY <1>5, <1>6, <1>7, <1>8 DEF RagInv

LEMMA SelectStep ==
  ASSUME RagInv, NEW c \in Curators, NEW t \in Corpora,
         SelectExpired(c, t)
           \/ \E id \in PassageIds, r \in Readers : SelectPassage(c, t, id, {r})
  PROVE  RagInv'
<1>1. PICK w : CuratorJob(w) /\ curator' = [curator EXCEPT ![c] = w]
  BY DEF SelectExpired, SelectPassage, CuratorJob, NamedReaders
<1>2. UNCHANGED <<passages, fts, acl, published>>
  BY DEF SelectExpired, SelectPassage
<1> QED
  BY <1>1, <1>2 DEF RagInv, RagTypes, TextStoredOnce, FoundOnce, ReadAsPublished

LEMMA WriteAclStep ==
  ASSUME RagInv, NEW c \in Curators, WriteAcl(c)
  PROVE  RagInv'
<1> DEFINE w == curator[c]
<1>1. w.of \in Corpora /\ w.id \in PassageIds /\ w.readers \subseteq NamedReaders
  BY DEF RagInv, RagTypes, CuratorJob, WriteAcl, NoJob
<1>2. /\ acl' = [acl EXCEPT ![w.of] = RemoveAcl(w.of, {w.id}) \cup ({w.id} \X w.readers)]
      /\ published' = [published EXCEPT ![w.of][w.id] = w.readers]
      /\ curator' = [curator EXCEPT ![c] = NoJob]
      /\ UNCHANGED <<passages, fts>>
  BY DEF WriteAcl
<1> HIDE DEF w
<1>3. RagTypes'
  BY <1>1, <1>2 DEF RagInv, RagTypes, CuratorJob
<1>4. TextStoredOnce' /\ FoundOnce'
  BY <1>2 DEF RagInv, TextStoredOnce, FoundOnce
<1>5. ASSUME NEW t \in Corpora, NEW p \in passages[t]
      PROVE  {r \in NamedReaders : <<p.id, r>> \in acl'[t]} = published'[t][p.id]
  <2>1. {r \in NamedReaders : <<p.id, r>> \in acl[t]} = published[t][p.id]
    BY DEF RagInv, ReadAsPublished
  <2>2. p.id \in PassageIds
    BY RowHasId DEF RagInv, RagTypes
  <2>3. CASE t # w.of
    BY <1>1, <1>2, <2>1, <2>3 DEF RagInv, RagTypes
  <2>4. CASE t = w.of /\ p.id # w.id
    <3>1. \A r : <<p.id, r>> \in acl'[t] <=> <<p.id, r>> \in acl[t]
      BY <1>1, <1>2, <2>4 DEF RagInv, RagTypes, RemoveAcl
    <3>2. published'[t][p.id] = published[t][p.id]
      BY <1>1, <1>2, <2>2, <2>4 DEF RagInv, RagTypes
    <3> QED
      BY <2>1, <3>1, <3>2
  <2>5. CASE t = w.of /\ p.id = w.id
    <3>1. \A r : <<p.id, r>> \in acl'[t] <=> r \in w.readers
      BY <1>1, <1>2, <2>5 DEF RagInv, RagTypes, RemoveAcl
    <3>2. published'[t][p.id] = w.readers
      BY <1>1, <1>2, <2>2, <2>5 DEF RagInv, RagTypes
    <3> QED
      BY <1>1, <3>1, <3>2
  <2> QED
    BY <2>3, <2>4, <2>5
<1>6. ReadAsPublished'
  BY <1>2, <1>5 DEF ReadAsPublished
<1> QED
  BY <1>3, <1>4, <1>6 DEF RagInv

LEMMA PurgeStep ==
  ASSUME RagInv, NEW c \in Curators, PurgeSelected(c)
  PROVE  RagInv'
<1> DEFINE w == curator[c]
           kept == {p \in passages[w.of] : p.id \notin w.ids}
<1>1. w.of \in Corpora
  BY DEF RagInv, RagTypes, CuratorJob, PurgeSelected, NoJob
<1>2. /\ passages' = [passages EXCEPT ![w.of] = kept]
      /\ fts' = [fts EXCEPT ![w.of] = [id \in PassageIds |-> IF id \in w.ids THEN 0 ELSE fts[w.of][id]]]
      /\ acl' = [acl EXCEPT ![w.of] = RemoveAcl(w.of, w.ids)]
      /\ curator' = [curator EXCEPT ![c] = NoJob]
      /\ published' = published
  BY <1>1 DEF PurgeSelected, RagInv, RagTypes
<1>3. kept \subseteq passages[w.of] /\ IsFiniteSet(kept)
  BY <1>1, FS_Subset DEF RagInv, RagTypes
<1>4. ASSUME NEW id \in PassageIds
      PROVE  (IF id \in w.ids THEN 0 ELSE fts[w.of][id]) = RowsPerId(kept)[id]
  <2>1. fts[w.of][id] = Cardinality({p \in passages[w.of] : p.id = id})
    BY <1>1 DEF RagInv, FoundOnce, RowsPerId
  <2>2. RowsPerId(kept)[id] = Cardinality({p \in kept : p.id = id})
    BY DEF RowsPerId
  <2>3. CASE id \in w.ids
    <3>1. {p \in kept : p.id = id} = {}
      BY <2>3
    <3> QED
      BY <2>2, <2>3, <3>1, FS_EmptySet
  <2>4. CASE id \notin w.ids
    <3>1. {p \in kept : p.id = id} = {p \in passages[w.of] : p.id = id}
      BY <2>4
    <3> QED
      BY <2>1, <2>2, <2>4, <3>1
  <2> QED
    BY <2>3, <2>4
<1>5. [id \in PassageIds |-> IF id \in w.ids THEN 0 ELSE fts[w.of][id]] = RowsPerId(kept)
  BY <1>4 DEF RowsPerId
<1> HIDE DEF w
<1>6. \A p \in kept : p \in passages[w.of] /\ p.id \notin w.ids
  OBVIOUS
<1> HIDE DEF kept
<1>7. RagTypes'
  BY <1>1, <1>2, <1>3 DEF RagInv, RagTypes, CuratorJob
<1>8. TextStoredOnce'
  BY <1>1, <1>2, <1>3 DEF RagInv, RagTypes, TextStoredOnce
<1>9. FoundOnce'
  BY <1>1, <1>2, <1>5 DEF RagInv, RagTypes, FoundOnce
<1>10. ReadAsPublished'
  <2> SUFFICES ASSUME NEW t \in Corpora, NEW p \in passages'[t]
               PROVE  {r \in NamedReaders : <<p.id, r>> \in acl'[t]} = published'[t][p.id]
    BY DEF ReadAsPublished
  <2>1. p \in passages[t]
    BY <1>1, <1>2, <1>3 DEF RagInv, RagTypes
  <2>2. {r \in NamedReaders : <<p.id, r>> \in acl[t]} = published[t][p.id]
    BY <2>1 DEF RagInv, ReadAsPublished
  <2>3. t = w.of => p.id \notin w.ids
    BY <1>1, <1>2, <1>6 DEF RagInv, RagTypes
  <2>4. \A r : <<p.id, r>> \in acl'[t] <=> <<p.id, r>> \in acl[t]
    BY <1>1, <1>2, <2>3 DEF RagInv, RagTypes, RemoveAcl
  <2> QED
    BY <1>2, <2>2, <2>4
<1> QED
  BY <1>7, <1>8, <1>9, <1>10 DEF RagInv

LEMMA RagInitInv == RagInit => RagInv
<1> SUFFICES ASSUME RagInit PROVE RagInv
  OBVIOUS
<1>1. RowsPerId({}) = [id \in PassageIds |-> 0]
  <2>1. \A id : {p \in {} : p.id = id} = {}
    OBVIOUS
  <2> QED
    BY <2>1, FS_EmptySet DEF RowsPerId
<1> QED
  BY <1>1, FS_EmptySet
     DEF RagInit, RagInv, RagTypes, CuratorJob, TextStoredOnce, FoundOnce, ReadAsPublished

LEMMA RagNextInv == RagInv /\ [RagNext]_ragIndex => RagInv'
<1> SUFFICES ASSUME RagInv, [RagNext]_ragIndex PROVE RagInv'
  OBVIOUS
<1>1. ASSUME NEW t \in Corpora, NEW b \in Batches, ReplaceCorpus(t, b) PROVE RagInv'
  BY <1>1, ReplaceCorpusStep
<1>2. ASSUME NEW c \in Curators, AnyGrant(c) \/ \E t \in Corpora : SelectExpired(c, t) PROVE RagInv'
  BY <1>2, SelectStep DEF AnyGrant
<1>3. ASSUME NEW c \in Curators, WriteAcl(c) PROVE RagInv'
  BY <1>3, WriteAclStep
<1>4. ASSUME NEW c \in Curators, PurgeSelected(c) PROVE RagInv'
  BY <1>4, PurgeStep
<1>5. ASSUME UNCHANGED <<passages, fts, acl, published, curator>> PROVE RagInv'
  BY <1>5 DEF RagInv, RagTypes, TextStoredOnce, FoundOnce, ReadAsPublished
<1>6. ASSUME \/ \E t \in Corpora, r \in Readers : RetrievePassage(t, r) \/ ExpandHandle(t, r)
             \/ DayPasses
             \/ UNCHANGED ragIndex
      PROVE RagInv'
  BY <1>5, <1>6 DEF RetrievePassage, ExpandHandle, DayPasses, ragIndex
<1> QED
  BY <1>1, <1>2, <1>3, <1>4, <1>6 DEF RagNext

(* replace, set_acl and purge_expired of any number of processes keep the  *)
(* three tables together: a passage is found once and by whom its last     *)
(* publisher named, and a search shows what its handles expand, passages   *)
(* with a dot in their id excepted.                                        *)
THEOREM RagIsExactHolds == RagSpec => []RagIsExact
<1>1. RagInv => RagIsExact
  <2> SUFFICES ASSUME RagInv, NEW t \in Corpora
               PROVE  \A r \in Readers :
                        Expandable(t, r) = {p \in SearchHits(t, r) : p.id \notin Dotted}
    BY DEF RagIsExact, RagInv, TextStoredOnce, FoundOnce, ReadAsPublished, NamedReaders
  <2>1. \A p \in passages[t] : p.id \in PassageIds
    BY RowHasId DEF RagInv, RagTypes
  <2>2. ASSUME NEW p \in passages[t] PROVE fts[t][p.id] > 0
    <3> DEFINE same == {q \in passages[t] : q.id = p.id}
    <3>1. IsFiniteSet(same) /\ p \in same
      BY FS_Subset DEF RagInv, RagTypes
    <3>2. Cardinality(same) \in Nat /\ Cardinality(same) # 0
      BY <3>1, FS_EmptySet, FS_CardinalityType
    <3>3. fts[t][p.id] = Cardinality(same)
      BY <2>1 DEF RagInv, FoundOnce, RowsPerId
    <3> QED
      BY <3>2, <3>3
  <2> QED
    BY <2>1, <2>2 DEF SearchHits, Behind, Expandable, VerifiesFor, HandleOf
<1> QED
  BY <1>1, RagInitInv, RagNextInv, PTL DEF RagSpec

-----------------------------------------------------------------------------
(* Removal.                                                                *)
RemovalRecords ==
  [id : Nat, key : RemovalKeys, target : Targets, status : {"pending", "confirmed"},
   acknowledged : BOOLEAN, ack : AckIds \cup {"none"}, attempts : Nat, generation : Nat]
AckMessages == [id : 1..MaxGeneration, ack : AckIds, removed : BOOLEAN]

(* The records rs of generation g, with the answers that were sent.        *)
RecordsSound(rs, g, sent) ==
  /\ rs \in Seq(RemovalRecords)
  /\ g \in Nat
  /\ sent \subseteq AckMessages
  /\ \A i \in DOMAIN rs :
       /\ rs[i].id <= g /\ rs[i].generation <= g
       /\ rs[i].status = "confirmed" =>
            rs[i].acknowledged /\ [id |-> rs[i].id, ack |-> rs[i].ack, removed |-> TRUE] \in sent
       /\ \A j \in DOMAIN rs \ {i} : /\ rs[j].id # rs[i].id
                                     /\ rs[j].key # rs[i].key
                                     /\ rs[j].generation # rs[i].generation

RemovalInv == RecordsSound(removal.records, removal.generation, acks)

(* What a step may do with the records.                                    *)
RecordsAdvance(rs, ss) ==
  \A i \in DOMAIN rs, j \in DOMAIN ss : ss[j].id = rs[i].id =>
    /\ Confirmed(rs[i]) => ss[j] = rs[i]
    /\ ss[j].attempts >= rs[i].attempts
    /\ ss[j].target = rs[i].target

LEMMA RecordTypes ==
  ASSUME NEW rs \in Seq(RemovalRecords), NEW i \in DOMAIN rs
  PROVE  /\ rs[i] \in RemovalRecords
         /\ rs[i].id \in Nat /\ rs[i].generation \in Nat /\ rs[i].attempts \in Nat
<1>1. rs[i] \in RemovalRecords
  OBVIOUS
<1> QED
  BY <1>1 DEF RemovalRecords

LEMMA RecordAppended ==
  ASSUME NEW rs, NEW g, NEW sent, RecordsSound(rs, g, sent),
         NEW x \in RemovalRecords, x.id = g + 1, x.generation = g + 1, x.status = "pending",
         \A i \in DOMAIN rs : rs[i].key # x.key
  PROVE  LET ss == Newest(Append(rs, x)) IN
         RecordsSound(ss, g + 1, sent) /\ RecordsAdvance(rs, ss)
<1> DEFINE all == Append(rs, x)
           first == IF Len(all) > RecordLimit THEN Len(all) - RecordLimit + 1 ELSE 1
           ss == Newest(all)
<1>1. rs \in Seq(RemovalRecords) /\ g \in Nat
  BY DEF RecordsSound
<1>2. /\ all \in Seq(RemovalRecords)
      /\ Len(all) = Len(rs) + 1
      /\ DOMAIN rs = 1..Len(rs)
      /\ all[Len(rs) + 1] = x
      /\ \A i \in DOMAIN rs : all[i] = rs[i]
  BY <1>1
<1>3. RecordsSound(all, g + 1, sent)
  <2>1. sent \subseteq AckMessages
    BY DEF RecordsSound
  <2>2. ASSUME NEW i \in DOMAIN all
        PROVE  /\ all[i].id <= g + 1 /\ all[i].generation <= g + 1
               /\ all[i].status = "confirmed" =>
                    all[i].acknowledged /\ [id |-> all[i].id, ack |-> all[i].ack, removed |-> TRUE] \in sent
               /\ \A j \in DOMAIN all \ {i} : /\ all[j].id # all[i].id
                                             /\ all[j].key # all[i].key
                                             /\ all[j].generation # all[i].generation
    <3>1. DOMAIN all = DOMAIN rs \cup {Len(rs) + 1}
      BY <1>1, <1>2
    <3>2. \A j \in DOMAIN rs : /\ rs[j].id \in Nat /\ rs[j].generation \in Nat
                               /\ rs[j].id <= g /\ rs[j].generation <= g
      BY <1>1, RecordTypes DEF RecordsSound
    <3> QED
      BY <1>1, <1>2, <3>1, <3>2 DEF RecordsSound
  <2> QED
    BY <1>1, <1>2, <2>1, <2>2 DEF RecordsSound
<1>4. RecordLimit \in Nat
  BY RemovalAssumption
<1>5. /\ first \in 1..Len(all) + 1
      /\ ss = SubSeq(all, first, Len(all))
  BY <1>1, <1>2, <1>4 DEF Newest
<1> HIDE DEF all, first, ss
<1>6. /\ ss \in Seq(RemovalRecords)
      /\ DOMAIN ss = 1..Len(ss)
      /\ Len(ss) = Len(all) - first + 1
      /\ \A i \in DOMAIN ss : i + first - 1 \in DOMAIN all /\ ss[i] = all[i + first - 1]
  BY <1>1, <1>2, <1>5
<1>7. RecordsSound(ss, g + 1, sent)
  <2>1. \A i, j \in DOMAIN ss : i # j => i + first - 1 # j + first - 1
    BY <1>5, <1>6
  <2> QED
    BY <1>3, <1>6, <2>1 DEF RecordsSound
<1>8. RecordsAdvance(rs, ss)
  <2>1. SUFFICES ASSUME NEW i \in DOMAIN rs, NEW j \in DOMAIN all, all[j].id = rs[i].id
                 PROVE  all[j] = rs[i]
    <3>1. \A i \in DOMAIN rs : rs[i].attempts \in Nat
      BY <1>1, RecordTypes
    <3> QED
      BY <1>6, <2>1, <3>1 DEF RecordsAdvance
  <2>2. i \in DOMAIN all /\ all[i] = rs[i]
    BY <1>1, <1>2
  <2> QED
    BY <1>3, <2>1, <2>2 DEF RecordsSound
<1> QED
  BY <1>7, <1>8 DEF ss, all

LEMMA RecordReplaced ==
  ASSUME NEW rs, NEW g, NEW sent, RecordsSound(rs, g, sent),
         NEW i \in DOMAIN rs, NEW x \in RemovalRecords, x.id = rs[i].id, x.key = rs[i].key,
         x.target = rs[i].target, x.attempts >= rs[i].attempts, x.generation = g + 1,
         ~Confirmed(rs[i]),
         x.status = "confirmed" =>
           x.acknowledged /\ [id |-> x.id, ack |-> x.ack, removed |-> TRUE] \in sent
  PROVE  LET ss == [rs EXCEPT ![i] = x] IN
         RecordsSound(ss, g + 1, sent) /\ RecordsAdvance(rs, ss)
<1> DEFINE ss == [rs EXCEPT ![i] = x]
<1>1. rs \in Seq(RemovalRecords) /\ g \in Nat
  BY DEF RecordsSound
<1>2. /\ ss \in Seq(RemovalRecords)
      /\ DOMAIN ss = DOMAIN rs
      /\ ss[i] = x
      /\ \A j \in DOMAIN rs : j # i => ss[j] = rs[j]
  BY <1>1
<1> HIDE DEF ss
<1>3. \A j \in DOMAIN rs : /\ rs[j].id \in Nat /\ rs[j].generation \in Nat /\ rs[j].attempts \in Nat
                           /\ rs[j].id <= g /\ rs[j].generation <= g
  BY <1>1, RecordTypes DEF RecordsSound
<1>4. RecordsSound(ss, g + 1, sent)
  <2>1. ASSUME NEW j \in DOMAIN ss
        PROVE  /\ ss[j].id <= g + 1 /\ ss[j].generation <= g + 1
               /\ ss[j].status = "confirmed" =>
                    ss[j].acknowledged /\ [id |-> ss[j].id, ack |-> ss[j].ack, removed |-> TRUE] \in sent
               /\ \A k \in DOMAIN ss \ {j} : /\ ss[k].id # ss[j].id
                                            /\ ss[k].key # ss[j].key
                                            /\ ss[k].generation # ss[j].generation
    <3>1. \A a \in DOMAIN rs : \A b \in DOMAIN rs \ {a} :
            rs[b].id # rs[a].id /\ rs[b].key # rs[a].key /\ rs[b].generation # rs[a].generation
      BY DEF RecordsSound
    <3>2. \A a \in DOMAIN rs : ss[a].id = rs[a].id /\ ss[a].key = rs[a].key
      BY <1>2
    <3>3. \A a \in DOMAIN rs : ss[a].generation = IF a = i THEN g + 1 ELSE rs[a].generation
      BY <1>2
    <3>4. ss[j].id <= g + 1 /\ ss[j].generation <= g + 1
      BY <1>1, <1>2, <1>3, <3>2, <3>3
    <3>5. ASSUME NEW k \in DOMAIN ss \ {j}
          PROVE  ss[k].id # ss[j].id /\ ss[k].key # ss[j].key /\ ss[k].generation # ss[j].generation
      <4>1. ss[k].generation # ss[j].generation
        BY <1>1, <1>2, <1>3, <3>1, <3>3
      <4> QED
        BY <1>2, <3>1, <3>2, <4>1
    <3>6. ss[j].status = "confirmed" =>
            ss[j].acknowledged /\ [id |-> ss[j].id, ack |-> ss[j].ack, removed |-> TRUE] \in sent
      <4>1. CASE j = i
        BY <1>2, <4>1
      <4>2. CASE j # i
        <5>1. ss[j] = rs[j]
          BY <1>2, <4>2
        <5> QED
          BY <1>2, <5>1 DEF RecordsSound
      <4> QED
        BY <4>1, <4>2
    <3> QED
      BY <3>4, <3>5, <3>6
  <2> QED
    BY <1>1, <1>2, <2>1 DEF RecordsSound
<1>5. RecordsAdvance(rs, ss)
  <2> SUFFICES ASSUME NEW k \in DOMAIN rs, NEW j \in DOMAIN ss, ss[j].id = rs[k].id
               PROVE  /\ Confirmed(rs[k]) => ss[j] = rs[k]
                      /\ ss[j].attempts >= rs[k].attempts
                      /\ ss[j].target = rs[k].target
    BY DEF RecordsAdvance
  <2>1. ss[j].id = rs[j].id
    BY <1>2
  <2>2. j = k
    BY <1>2, <2>1 DEF RecordsSound
  <2> QED
    BY <1>2, <1>3, <2>2
<1> QED
  BY <1>4, <1>5 DEF ss

(* Each step keeps the records sound and lets them only advance.           *)
RemovalStepSound ==
  /\ RemovalInv'
  /\ removal'.generation >= removal.generation
  /\ RecordsAdvance(removal.records, removal'.records)

LEMMA RequestRemovalStep ==
  ASSUME RemovalInv, NEW key \in RemovalKeys, NEW target \in Targets, RequestRemoval(key, target)
  PROVE  RemovalStepSound
<1> DEFINE x == Instruction(key, target, NextGeneration)
<1>1. removal.generation \in Nat
  BY DEF RemovalInv, RecordsSound
<1>2. x \in RemovalRecords /\ x.id = removal.generation + 1
      /\ x.generation = removal.generation + 1 /\ x.status = "pending" /\ x.key = key
  BY <1>1 DEF Instruction, NextGeneration, RemovalRecords
<1>3. \A i \in DOMAIN removal.records : removal.records[i].key # x.key
  BY <1>2 DEF RequestRemoval, ByKey, Indices
<1>4. /\ removal'.generation = removal.generation + 1
      /\ removal'.records = Newest(Append(removal.records, x))
      /\ acks' = acks
  BY DEF RequestRemoval, NextGeneration
<1> HIDE DEF x
<1>5. RecordsSound(removal'.records, removal.generation + 1, acks)
      /\ RecordsAdvance(removal.records, removal'.records)
  BY <1>2, <1>3, <1>4, RecordAppended DEF RemovalInv
<1> QED
  BY <1>1, <1>4, <1>5 DEF RemovalInv, RemovalStepSound

LEMMA ReplaceStep ==
  ASSUME RemovalInv, NEW i \in Indices, NEW x \in RemovalRecords, Replace(i, x), acks' = acks,
         x.id = removal.records[i].id, x.key = removal.records[i].key,
         x.target = removal.records[i].target, x.attempts >= removal.records[i].attempts,
         x.generation = NextGeneration, ~Confirmed(removal.records[i]),
         x.status = "confirmed" =>
           x.acknowledged /\ [id |-> x.id, ack |-> x.ack, removed |-> TRUE] \in acks
  PROVE  RemovalStepSound
<1>1. removal.generation \in Nat
  BY DEF RemovalInv, RecordsSound
<1>2. /\ removal'.generation = removal.generation + 1
      /\ removal'.records = [removal.records EXCEPT ![i] = x]
  BY DEF Replace, NextGeneration
<1>3. RecordsSound(removal'.records, removal.generation + 1, acks)
      /\ RecordsAdvance(removal.records, removal'.records)
  BY <1>2, RecordReplaced DEF RemovalInv, Indices, NextGeneration
<1> QED
  BY <1>1, <1>2, <1>3 DEF RemovalInv, RemovalStepSound

LEMMA RetryRemovalStep ==
  ASSUME RemovalInv, NEW id \in 1..MaxGeneration, RetryRemoval(id)
  PROVE  RemovalStepSound
<1>1. PICK i \in IndexOf(id) :
        /\ ~Confirmed(removal.records[i])
        /\ Replace(i, [removal.records[i] EXCEPT !.attempts = @ + 1, !.generation = NextGeneration])
        /\ acks' = acks
  BY DEF RetryRemoval
<1> DEFINE r == removal.records[i]
           e1 == [r EXCEPT !.attempts = @ + 1]
           x == [e1 EXCEPT !.generation = NextGeneration]
<1>2. i \in Indices /\ r \in RemovalRecords /\ NextGeneration \in Nat
  BY <1>1 DEF IndexOf, Indices, RemovalInv, RecordsSound, NextGeneration
<1>3. e1 \in RemovalRecords
  BY <1>2 DEF RemovalRecords
<1>4. x \in RemovalRecords
  BY <1>2, <1>3 DEF RemovalRecords
<1>5. /\ x.id = r.id /\ x.key = r.key /\ x.target = r.target /\ x.attempts = r.attempts + 1
      /\ x.generation = NextGeneration /\ x.status = r.status /\ x.ack = r.ack
      /\ x.acknowledged = r.acknowledged
  BY <1>2, <1>3 DEF RemovalRecords
<1>6. r.attempts \in Nat
  BY <1>2 DEF RemovalRecords
<1>7. Replace(i, x)
  BY <1>1, Zenon
<1>8. x.status = "confirmed" =>
        x.acknowledged /\ [id |-> x.id, ack |-> x.ack, removed |-> TRUE] \in acks
  BY <1>2, <1>5 DEF RemovalInv, RecordsSound, Indices
<1>9. x.attempts >= r.attempts
  BY <1>5, <1>6
<1>10. x.id = r.id /\ x.key = r.key /\ x.target = r.target /\ x.generation = NextGeneration
  BY <1>5
<1> HIDE DEF x
<1> QED
  BY <1>1, <1>2, <1>4, <1>7, <1>8, <1>9, <1>10, ReplaceStep

LEMMA AcknowledgeStep ==
  ASSUME RemovalInv, NEW m \in acks, Acknowledge(m)
  PROVE  RemovalStepSound
<1>1. PICK i \in IndexOf(m.id) :
        /\ ~Confirmed(removal.records[i])
        /\ Replace(i, Acknowledged(removal.records[i], m))
        /\ acks' = acks
  BY DEF Acknowledge
<1> DEFINE r == removal.records[i]
           e1 == [r EXCEPT !.ack = m.ack]
           e2 == [e1 EXCEPT !.acknowledged = TRUE]
           e3 == [e2 EXCEPT !.generation = NextGeneration]
           x == [e3 EXCEPT !.status = IF m.removed THEN "confirmed" ELSE @]
<1>2. i \in Indices /\ r \in RemovalRecords /\ NextGeneration \in Nat /\ m \in AckMessages /\ r.id = m.id
  BY <1>1 DEF IndexOf, Indices, RemovalInv, RecordsSound, NextGeneration
<1>3. e1 \in RemovalRecords
  BY <1>2 DEF RemovalRecords, AckMessages
<1>4. e2 \in RemovalRecords
  BY <1>3 DEF RemovalRecords
<1>5. e3 \in RemovalRecords
  BY <1>2, <1>4 DEF RemovalRecords
<1>6. x \in RemovalRecords
  BY <1>5 DEF RemovalRecords
<1>7. /\ x.id = r.id /\ x.key = r.key /\ x.target = r.target /\ x.attempts = r.attempts
      /\ x.generation = NextGeneration /\ x.ack = m.ack
      /\ x.acknowledged = TRUE /\ x.status = IF m.removed THEN "confirmed" ELSE r.status
  BY <1>2, <1>3, <1>4, <1>5 DEF RemovalRecords
<1>8. Replace(i, x)
  BY <1>1, Zenon DEF Acknowledged
<1>9. x.status = "confirmed" =>
        x.acknowledged /\ [id |-> x.id, ack |-> x.ack, removed |-> TRUE] \in acks
  <2>1. r.status # "confirmed"
    BY <1>1, <1>2 DEF Confirmed, RemovalInv, RecordsSound, Indices
  <2>2. m.removed => m = [id |-> m.id, ack |-> m.ack, removed |-> TRUE]
    BY <1>2 DEF AckMessages
  <2> QED
    BY <1>2, <1>7, <2>1, <2>2
<1>10. r.attempts \in Nat
  BY <1>2 DEF RemovalRecords
<1>11. /\ x.id = r.id /\ x.key = r.key /\ x.target = r.target /\ x.generation = NextGeneration
       /\ x.attempts >= r.attempts
  BY <1>7, <1>10
<1> HIDE DEF x
<1> QED
  BY <1>1, <1>2, <1>6, <1>8, <1>9, <1>11, ReplaceStep

LEMMA RecordsStay ==
  ASSUME RemovalInv, UNCHANGED removal, acks \subseteq acks', acks' \subseteq AckMessages
  PROVE  RemovalStepSound
<1>1. \A i \in Indices : removal.records[i].attempts \in Nat
  BY RecordTypes DEF RemovalInv, RecordsSound, Indices
<1>2. RemovalInv'
  BY DEF RemovalInv, RecordsSound
<1>3. RecordsAdvance(removal.records, removal'.records)
  <2> SUFFICES ASSUME NEW i \in Indices, NEW j \in Indices,
                      removal.records[j].id = removal.records[i].id
               PROVE  i = j
    BY <1>1 DEF RecordsAdvance, Indices
  <2> QED
    BY DEF RemovalInv, RecordsSound, Indices
<1> QED
  BY <1>2, <1>3 DEF RemovalStepSound, RemovalInv, RecordsSound

LEMMA RemovalNextInv == RemovalInv /\ [RemovalNext]_contextRemoval => RemovalStepSound
<1> SUFFICES ASSUME RemovalInv, [RemovalNext]_contextRemoval PROVE RemovalStepSound
  OBVIOUS
<1>1. acks \subseteq AckMessages
  BY DEF RemovalInv, RecordsSound
<1>2. CASE View \/ UNCHANGED contextRemoval
  BY <1>1, <1>2, RecordsStay DEF View, contextRemoval
<1>3. ASSUME NEW key \in RemovalKeys, NEW target \in Targets, RequestRemoval(key, target)
      PROVE  RemovalStepSound
  BY <1>3, RequestRemovalStep
<1>4. ASSUME NEW id \in 1..MaxGeneration, RetryRemoval(id) PROVE RemovalStepSound
  BY <1>4, RetryRemovalStep
<1>5. ASSUME NEW id \in 1..MaxGeneration, NEW ack \in AckIds, NEW removed \in BOOLEAN,
             ClientAnswers(id, ack, removed)
      PROVE  RemovalStepSound
  BY <1>1, <1>5, RecordsStay DEF ClientAnswers, AckMessages
<1>6. ASSUME NEW m \in acks, Acknowledge(m) PROVE RemovalStepSound
  BY <1>6, AcknowledgeStep
<1> QED
  BY <1>2, <1>3, <1>4, <1>5, <1>6 DEF RemovalNext

(* However often instructions are repeated and answers come late or twice: *)
(* a removal is confirmed by its client's word for that instruction only,  *)
(* and what is confirmed stays so.                                         *)
THEOREM RemovalIsExplicitHolds == RemovalSpec => RemovalIsExplicit
<1>1. RemovalInit => RemovalInv
  BY DEF RemovalInit, RemovalInv, RecordsSound
<1>2. RemovalInv /\ [RemovalNext]_contextRemoval => RemovalInv'
  BY RemovalNextInv DEF RemovalStepSound
<1>3. RemovalInv => NeverInferred
  BY DEF RemovalInv, RecordsSound, NeverInferred, Indices
<1>4. RemovalInv /\ [RemovalNext]_contextRemoval =>
        [/\ removal'.generation >= removal.generation
         /\ \A i \in Indices, j \in DOMAIN removal'.records :
              removal'.records[j].id = removal.records[i].id =>
                /\ Confirmed(removal.records[i]) => removal'.records[j] = removal.records[i]
                /\ removal'.records[j].attempts >= removal.records[i].attempts
                /\ removal'.records[j].target = removal.records[i].target]_contextRemoval
  BY RemovalNextInv DEF RemovalStepSound, RecordsAdvance, Indices
<1> QED
  BY <1>1, <1>2, <1>3, <1>4, PTL DEF RemovalSpec, RemovalIsExplicit, RemovalAdvances

-----------------------------------------------------------------------------
(* Scoped state: entries and streams.                                      *)
StreamRows == [sequence : Nat, id : Nat, expires : Nat]

WriterCall(c) ==
  \/ c = Quiet
  \/ c.call \in Calls /\ c.scope \in Tenants /\ c.time \in 0..LastMoment

ScopedTypes ==
  /\ entryRows \in [Tenants -> [value : Nat, expires : Nat]]
  /\ stream \in [Tenants -> SUBSET StreamRows]
  /\ tally \in [Tenants -> [updates : Nat, events : 0..MaxRows]]
  /\ follower \in [Tenants -> [after : Nat, given : [1..MaxRows -> Nat]]]
  /\ moment \in 0..LastMoment
  /\ DOMAIN writer = Writers
  /\ \A w \in Writers : WriterCall(writer[w])

(* An entry that ever was alive counts the updates since it began.         *)
EntryCounts == \A s \in Tenants : entryRows[s].expires > 0 => entryRows[s].value = tally[s].updates

(* A stream that holds rows, of so many events.                            *)
NumberedRows(table, events) ==
  /\ \A e \in table : e.sequence \in 1..e.id /\ e.id <= events
  /\ \A e, f \in table :
       e # f => e.sequence # f.sequence /\ (e.sequence < f.sequence <=> e.id < f.id)

(* Where events stay, the rows are the events.                             *)
Lasting(n) == [sequence |-> n, id |-> n, expires |-> Never]
LastingRows(events) == {Lasting(n) : n \in 1..events}

GivenUpTo(after) == [n \in 1..MaxRows |-> IF n <= after THEN 1 ELSE 0]

StreamsFollowed ==
  /\ \A s \in Tenants : NumberedRows(stream[s], tally[s].events)
  /\ EventTtl = 0 => \A s \in Tenants :
       /\ stream[s] = LastingRows(tally[s].events)
       /\ follower[s].after <= tally[s].events
       /\ follower[s].given = GivenUpTo(follower[s].after)

ScopedInv == ScopedTypes /\ EntryCounts /\ StreamsFollowed

LEMMA NeverFacts == Never \in Nat /\ Never > LastMoment
  BY ScopedAssumption DEF Never

LEMMA LastingType ==
  ASSUME NEW n \in Nat
  PROVE  Lasting(n) \in StreamRows
  BY NeverFacts DEF Lasting, StreamRows

(* A call that begins, or a step that leaves rows and events alone.        *)
LEMMA EntryStep ==
  ASSUME ScopedInv, NEW s \in Tenants, NEW v \in Nat, NEW x \in Nat, NEW u \in Nat,
         entryRows' = [entryRows EXCEPT ![s] = [value |-> v, expires |-> x]],
         tally' = [tally EXCEPT ![s].updates = u],
         x > 0 => v = u,
         DOMAIN writer' = Writers, \A w \in Writers : WriterCall(writer'[w]),
         UNCHANGED <<stream, moment, follower>>
  PROVE  ScopedInv'
<1>1. /\ \A t \in Tenants : tally'[t].updates = IF t = s THEN u ELSE tally[t].updates
      /\ \A t \in Tenants : tally'[t].events = tally[t].events
      /\ tally' \in [Tenants -> [updates : Nat, events : 0..MaxRows]]
  BY DEF ScopedInv, ScopedTypes
<1>2. ScopedTypes'
  BY <1>1 DEF ScopedInv, ScopedTypes
<1>3. EntryCounts'
  BY <1>1 DEF ScopedInv, ScopedTypes, EntryCounts
<1>4. StreamsFollowed'
  BY <1>1 DEF ScopedInv, StreamsFollowed
<1> QED
  BY <1>2, <1>3, <1>4 DEF ScopedInv

LEMMA WriterRests ==
  ASSUME ScopedInv, NEW w \in Writers, writer' = [writer EXCEPT ![w] = Quiet]
  PROVE  DOMAIN writer' = Writers /\ \A x \in Writers : WriterCall(writer'[x])
<1>1. \A x \in Writers : WriterCall(writer[x])
  BY DEF ScopedInv, ScopedTypes
<1>2. DOMAIN writer' = Writers
  BY DEF ScopedInv, ScopedTypes
<1>3. \A x \in Writers : writer'[x] = IF x = w THEN Quiet ELSE writer[x]
  BY DEF ScopedInv, ScopedTypes
<1>4. WriterCall(Quiet)
  BY DEF WriterCall
<1> QED
  BY <1>1, <1>2, <1>3, <1>4

LEMMA CallFacts ==
  ASSUME ScopedInv, NEW w \in Writers, NEW call \in Calls, Commits(w, call)
  PROVE  /\ writer[w].scope \in Tenants /\ writer[w].time \in 0..LastMoment
         /\ writer' = [writer EXCEPT ![w] = Quiet]
  BY DEF ScopedInv, ScopedTypes, WriterCall, Commits, Quiet, Calls

LEMMA SetEntryStep ==
  ASSUME ScopedInv, NEW w \in Writers, SetEntry(w)
  PROVE  ScopedInv'
<1> DEFINE s == writer[w].scope
           x == IF writer[w].call = "set" THEN Never ELSE writer[w].time + EntryTtl
<1>1. Commits(w, "set") \/ Commits(w, "set_cache")
  BY DEF SetEntry
<1>2. s \in Tenants /\ writer[w].time \in 0..LastMoment /\ writer' = [writer EXCEPT ![w] = Quiet]
  BY <1>1, CallFacts DEF Calls
<1>3. x \in Nat
  BY <1>2, NeverFacts, ScopedAssumption
<1>4. /\ entryRows' = [entryRows EXCEPT ![s] = [value |-> 1, expires |-> x]]
      /\ tally' = [tally EXCEPT ![s].updates = 1]
      /\ UNCHANGED <<stream, moment, follower>>
  BY DEF SetEntry
<1> HIDE DEF s, x
<1> QED
  BY <1>2, <1>3, <1>4, WriterRests, EntryStep

LEMMA TransactStep ==
  ASSUME ScopedInv, NEW w \in Writers, TransactEntry(w)
  PROVE  ScopedInv'
<1> DEFINE s == writer[w].scope
           base == IF BuildsOn(entryRows[s], writer[w].time) THEN entryRows[s].value ELSE 0
           u == IF ExpiredAt(entryRows[s], writer[w].time) THEN 1 ELSE tally[s].updates + 1
<1>1. s \in Tenants /\ writer[w].time \in 0..LastMoment /\ writer' = [writer EXCEPT ![w] = Quiet]
  BY CallFacts DEF TransactEntry, Calls
<1>2. /\ entryRows' = [entryRows EXCEPT ![s] = [value |-> base + 1, expires |-> Never]]
      /\ UNCHANGED <<stream, moment, follower>>
  BY DEF TransactEntry
<1>3. tally' = [tally EXCEPT ![s].updates = u]
  BY <1>1 DEF TransactEntry, ScopedInv, ScopedTypes
<1>4. /\ entryRows[s].value \in Nat /\ entryRows[s].expires \in Nat /\ tally[s].updates \in Nat
  BY <1>1 DEF ScopedInv, ScopedTypes
<1>5. base + 1 \in Nat /\ u \in Nat /\ base + 1 = u
  BY <1>1, <1>4 DEF ScopedInv, EntryCounts, BuildsOn, ExpiredAt
<1> HIDE DEF s, base, u
<1> QED
  BY <1>1, <1>2, <1>3, <1>5, NeverFacts, WriterRests, EntryStep

LEMMA DeleteEntryStep ==
  ASSUME ScopedInv, NEW s \in Tenants, DeleteEntry(s)
  PROVE  ScopedInv'
<1>1. /\ entryRows' = [entryRows EXCEPT ![s] = [value |-> 0, expires |-> 0]]
      /\ tally' = [tally EXCEPT ![s].updates = 0]
      /\ UNCHANGED <<stream, writer, moment, follower>>
  BY DEF DeleteEntry, NoRow
<1>2. DOMAIN writer' = Writers /\ \A x \in Writers : WriterCall(writer'[x])
  BY <1>1 DEF ScopedInv, ScopedTypes
<1> QED
  BY <1>1, <1>2, EntryStep

(* append_event numbers beyond everything there is.                        *)
LEMMA NextSequenceFacts ==
  ASSUME ScopedInv, NEW s \in Tenants
  PROVE  /\ NextSequence(s) \in 1..tally[s].events + 1
         /\ \A e \in stream[s] : e.sequence < NextSequence(s)
         /\ EventTtl = 0 => NextSequence(s) = tally[s].events + 1
<1> DEFINE S == {e.sequence : e \in stream[s]} \cup {0}
<1>1. tally[s].events \in Nat /\ stream[s] \in SUBSET StreamRows
  BY ScopedAssumption DEF ScopedInv, ScopedTypes
<1>2. \A e \in stream[s] : /\ e.sequence \in Nat /\ e.id \in Nat
                           /\ e.sequence <= tally[s].events
  <2>1. \A e \in stream[s] : e.sequence \in Nat /\ e.id \in Nat
    BY <1>1 DEF StreamRows
  <2> QED
    BY <1>1, <2>1 DEF ScopedInv, StreamsFollowed, NumberedRows
<1>3. S \in SUBSET Nat /\ 0 \in S /\ \A n \in S : n <= tally[s].events
  BY <1>1, <1>2
<1>4. \A e \in stream[s] : e.sequence \in S
  OBVIOUS
<1> HIDE DEF S
<1>5. Max(S) \in S /\ \A n \in S : n <= Max(S)
  BY <1>1, <1>3, LargestOf
<1>6. EventTtl = 0 => Max(S) = tally[s].events
  <2> SUFFICES ASSUME EventTtl = 0, tally[s].events > 0 PROVE tally[s].events \in S
    BY <1>1, <1>3, <1>5
  <2>1. Lasting(tally[s].events) \in stream[s]
    BY <1>1 DEF ScopedInv, StreamsFollowed, LastingRows
  <2> QED
    BY <1>4, <2>1 DEF Lasting
<1>7. NextSequence(s) = Max(S) + 1
  BY DEF NextSequence, S
<1>8. Max(S) \in Nat /\ Max(S) <= tally[s].events
  BY <1>3, <1>5
<1>9. \A e \in stream[s] : e.sequence <= Max(S)
  BY <1>4, <1>5
<1> HIDE DEF NextSequence
<1> QED
  BY <1>1, <1>2, <1>6, <1>7, <1>8, <1>9

LEMMA AppendStep ==
  ASSUME ScopedInv, NEW w \in Writers, AppendEvent(w)
  PROVE  ScopedInv'
<1> DEFINE s == writer[w].scope
           n == tally[s].events
           x == IF EventTtl = 0 THEN Never ELSE writer[w].time + EventTtl
           event == [sequence |-> NextSequence(s), id |-> n + 1, expires |-> x]
<1>1. s \in Tenants /\ writer[w].time \in 0..LastMoment /\ writer' = [writer EXCEPT ![w] = Quiet]
  BY CallFacts DEF AppendEvent, Calls
<1>2. /\ n < MaxRows
      /\ stream' = [stream EXCEPT ![s] = @ \cup {event}]
      /\ UNCHANGED <<entryRows, moment, follower>>
  BY DEF AppendEvent
<1>3. tally' = [tally EXCEPT ![s].events = n + 1]
  BY <1>1 DEF AppendEvent, ScopedInv, ScopedTypes
<1>4. n \in Nat /\ n + 1 \in 0..MaxRows
  BY <1>1, <1>2, ScopedAssumption DEF ScopedInv, ScopedTypes
<1>5. /\ NextSequence(s) \in 1..n + 1
      /\ \A e \in stream[s] : e.sequence < NextSequence(s)
      /\ EventTtl = 0 => NextSequence(s) = n + 1
  BY <1>1, NextSequenceFacts
<1>6. x \in Nat
  BY <1>1, NeverFacts, ScopedAssumption
<1>7. event \in StreamRows
  BY <1>4, <1>5, <1>6 DEF StreamRows
<1>8. event.sequence = NextSequence(s) /\ event.id = n + 1
  OBVIOUS
<1>9. EventTtl = 0 => event = Lasting(n + 1)
  BY <1>5 DEF Lasting
<1> HIDE DEF s, n, event
<1>10. /\ \A t \in Tenants : tally'[t].updates = tally[t].updates
       /\ \A t \in Tenants : tally'[t].events = IF t = s THEN n + 1 ELSE tally[t].events
       /\ tally' \in [Tenants -> [updates : Nat, events : 0..MaxRows]]
  BY <1>1, <1>3, <1>4 DEF ScopedInv, ScopedTypes
<1>11. ScopedTypes'
  BY <1>1, <1>2, <1>7, <1>10, WriterRests DEF ScopedInv, ScopedTypes
<1>12. EntryCounts'
  BY <1>2, <1>10 DEF ScopedInv, EntryCounts
<1>13. NumberedRows(stream[s] \cup {event}, n + 1)
  <2>1. \A e \in stream[s] : /\ e.sequence \in Nat /\ e.id \in Nat
                             /\ e.sequence \in 1..e.id /\ e.id <= n
    <3>1. \A e \in stream[s] : e.sequence \in Nat /\ e.id \in Nat
      BY <1>1 DEF ScopedInv, ScopedTypes, StreamRows
    <3> QED
      BY <1>1, <3>1 DEF ScopedInv, StreamsFollowed, NumberedRows, n
  <2>2. \A e, f \in stream[s] :
          e # f => e.sequence # f.sequence /\ (e.sequence < f.sequence <=> e.id < f.id)
    BY <1>1 DEF ScopedInv, StreamsFollowed, NumberedRows
  <2> QED
    BY <1>4, <1>5, <1>8, <2>1, <2>2 DEF NumberedRows
<1>14. ASSUME EventTtl = 0 PROVE stream[s] \cup {event} = LastingRows(n + 1)
  <2>1. 1..n + 1 = (1..n) \cup {n + 1}
    BY <1>4
  <2>2. stream[s] = LastingRows(n)
    BY <1>1, <1>14 DEF ScopedInv, StreamsFollowed, n
  <2> QED
    BY <1>9, <1>14, <2>1, <2>2 DEF LastingRows
<1>15. StreamsFollowed'
  <2>1. \A t \in Tenants : stream'[t] = IF t = s THEN stream[s] \cup {event} ELSE stream[t]
    BY <1>1, <1>2 DEF ScopedInv, ScopedTypes
  <2>2. ASSUME NEW t \in Tenants PROVE NumberedRows(stream'[t], tally'[t].events)
    BY <1>10, <1>13, <2>1 DEF ScopedInv, StreamsFollowed
  <2>3. ASSUME EventTtl = 0, NEW t \in Tenants
        PROVE  /\ stream'[t] = LastingRows(tally'[t].events)
               /\ follower'[t].after <= tally'[t].events
               /\ follower'[t].given = GivenUpTo(follower'[t].after)
    <3>1. /\ stream[t] = LastingRows(tally[t].events)
          /\ follower[t].after <= tally[t].events
          /\ follower[t].given = GivenUpTo(follower[t].after)
      BY <2>3 DEF ScopedInv, StreamsFollowed
    <3>2. follower[t].after \in Nat /\ follower' = follower
      BY <1>2 DEF ScopedInv, ScopedTypes
    <3>3. follower[t].after <= tally'[t].events
      BY <1>4, <1>10, <3>1, <3>2 DEF n
    <3> QED
      BY <1>10, <1>14, <2>1, <2>3, <3>1, <3>2, <3>3
  <2> QED
    BY <2>2, <2>3 DEF StreamsFollowed
<1> QED
  BY <1>11, <1>12, <1>15 DEF ScopedInv

LEMMA CleanupStep ==
  ASSUME ScopedInv, NEW w \in Writers, Cleanup(w)
  PROVE  ScopedInv'
<1> DEFINE s == writer[w].scope
           due == {e \in stream[s] : ExpiredAt(e, writer[w].time)}
<1>1. s \in Tenants /\ writer[w].time \in 0..LastMoment /\ writer' = [writer EXCEPT ![w] = Quiet]
  BY CallFacts DEF Cleanup, Calls
<1>2. /\ entryRows' = entryRows \/ entryRows' = [entryRows EXCEPT ![s] = NoRow]
      /\ UNCHANGED <<moment, follower, tally>>
  BY DEF Cleanup
<1>3. PICK page \in SUBSET due : stream' = [stream EXCEPT ![s] = @ \ page]
  BY DEF Cleanup
<1>4. ScopedTypes'
  <2>1. entryRows' \in [Tenants -> [value : Nat, expires : Nat]]
    <3>1. NoRow \in [value : Nat, expires : Nat]
      BY DEF NoRow
    <3> HIDE DEF s
    <3> QED
      BY <1>1, <1>2, <3>1 DEF ScopedInv, ScopedTypes
  <2>2. stream' \in [Tenants -> SUBSET StreamRows]
    BY <1>1, <1>3 DEF ScopedInv, ScopedTypes
  <2> QED
    BY <1>1, <1>2, <2>1, <2>2, WriterRests DEF ScopedInv, ScopedTypes
<1>5. EntryCounts'
  <2>1. NoRow.expires = 0
    BY DEF NoRow
  <2>2. \A t \in Tenants : entryRows'[t] = entryRows[t] \/ entryRows'[t] = NoRow
    BY <1>1, <1>2 DEF ScopedInv, ScopedTypes
  <2> QED
    BY <1>2, <2>1, <2>2 DEF ScopedInv, EntryCounts
<1>6. ASSUME EventTtl = 0 PROVE page = {}
  <2>1. \A e \in stream[s] : e.expires = Never
    BY <1>1, <1>6 DEF ScopedInv, StreamsFollowed, LastingRows, Lasting
  <2> QED
    BY <1>1, <2>1, NeverFacts, ScopedAssumption DEF ExpiredAt
<1> HIDE DEF s, due
<1>7. \A t \in Tenants : stream'[t] \subseteq stream[t] /\ (EventTtl = 0 => stream'[t] = stream[t])
  BY <1>1, <1>3, <1>6 DEF ScopedInv, ScopedTypes
<1>8. StreamsFollowed'
  BY <1>2, <1>7 DEF ScopedInv, StreamsFollowed, NumberedRows
<1> QED
  BY <1>4, <1>5, <1>8 DEF ScopedInv

(* list_events gives a follower of lasting events the next ones.           *)
LEMMA FollowStep ==
  ASSUME ScopedInv, NEW s \in Tenants, Follow(s)
  PROVE  ScopedInv'
<1> DEFINE new == {e \in stream[s] : e.sequence > follower[s].after /\ ~ExpiredAt(e, moment)}
           n == tally[s].events
           a == follower[s].after
<1>1. PICK page \in (SUBSET new) \ {{}} :
        /\ \A e \in page, f \in new \ page : e.sequence < f.sequence
        /\ follower' = [follower EXCEPT ![s] =
                      [after |-> Max({e.sequence : e \in page}),
                       given |-> [i \in 1..MaxRows |->
                                    IF i \in {e.id : e \in page} THEN @.given[i] + 1 ELSE @.given[i]]]]
  BY DEF Follow
<1> DEFINE S == {e.sequence : e \in page}
           ids == {e.id : e \in page}
           more == [i \in 1..MaxRows |->
                      IF i \in ids THEN follower[s].given[i] + 1 ELSE follower[s].given[i]]
<1>2. UNCHANGED <<entryRows, stream, writer, moment, tally>>
  BY DEF Follow
<1>3. n \in 0..MaxRows /\ n \in Nat /\ stream[s] \in SUBSET StreamRows /\ a \in Nat
  BY ScopedAssumption DEF ScopedInv, ScopedTypes
<1>4. \A e \in stream[s] : e.sequence \in Nat /\ e.id \in Nat /\ e.sequence <= n
  <2>1. \A e \in stream[s] : e.sequence \in Nat /\ e.id \in Nat
    BY <1>3 DEF StreamRows
  <2> QED
    BY <1>3, <2>1 DEF ScopedInv, StreamsFollowed, NumberedRows
<1>5. S \in SUBSET Nat /\ S # {} /\ \A i \in S : i <= n
  <2>1. \A e \in new : e \in stream[s]
    OBVIOUS
  <2> HIDE DEF new, S
  <2>2. page \subseteq stream[s] /\ page # {}
    BY <1>1, <2>1
  <2> USE DEF S
  <2>3. S # {}
    BY <2>2
  <2> QED
    BY <1>4, <2>2, <2>3
<1>6. Max(S) \in S /\ \A i \in S : i <= Max(S)
  BY <1>3, <1>5, LargestOf
<1>7. follower' = [follower EXCEPT ![s] = [after |-> Max(S), given |-> more]]
  BY <1>1 DEF ScopedInv, ScopedTypes
<1>8. more \in [1..MaxRows -> Nat]
  <2>1. follower[s].given \in [1..MaxRows -> Nat]
    BY DEF ScopedInv, ScopedTypes
  <2> HIDE DEF ids
  <2>2. ASSUME NEW i \in 1..MaxRows
        PROVE  (IF i \in ids THEN follower[s].given[i] + 1 ELSE follower[s].given[i]) \in Nat
    <3>1. follower[s].given[i] \in Nat
      BY <2>1
    <3> QED
      BY <3>1
  <2> QED
    BY <2>2
<1>9. Max(S) \in Nat /\ Max(S) <= n
  BY <1>5, <1>6
<1>10. ASSUME EventTtl = 0 PROVE more = GivenUpTo(Max(S))
  <2>1. stream[s] = LastingRows(n) /\ follower[s].given = GivenUpTo(a)
    BY <1>10 DEF ScopedInv, StreamsFollowed
  <2>2. \A e \in stream[s] : e.id = e.sequence
    BY <2>1 DEF LastingRows, Lasting
  <2>3. ASSUME NEW i \in 1..MaxRows PROVE i \in ids <=> a < i /\ i <= Max(S)
    <3>1. ASSUME i \in ids PROVE a < i /\ i <= Max(S)
      <4>1. PICK e \in page : e.id = i
        BY <3>1
      <4> QED
        BY <1>3, <1>4, <1>6, <2>2, <4>1
    <3>2. ASSUME a < i, i <= Max(S) PROVE i \in ids
      <4>1. Lasting(i) \in stream[s]
        BY <1>3, <1>9, <2>1, <3>2 DEF LastingRows
      <4>2. Lasting(i) \in new
        BY <3>2, <4>1, NeverFacts, ScopedAssumption DEF Lasting, ExpiredAt, ScopedInv, ScopedTypes
      <4>3. PICK e \in page : e.sequence = Max(S)
        BY <1>6
      <4>4. Lasting(i) \in page
        <5> SUFFICES ASSUME Lasting(i) \notin page PROVE FALSE
          OBVIOUS
        <5>1. Max(S) < Lasting(i).sequence
          BY <1>1, <4>2, <4>3
        <5> QED
          BY <1>9, <3>2, <5>1 DEF Lasting
      <4> QED
        BY <4>4 DEF Lasting
    <3> QED
      BY <3>1, <3>2
  <2>4. PICK e \in page : e.sequence = Max(S)
    BY <1>6
  <2>5. a < Max(S)
    BY <2>4
  <2> HIDE DEF ids, S
  <2>6. \A i \in 1..MaxRows : more[i] = IF i <= Max(S) THEN 1 ELSE 0
    BY <1>3, <1>9, <2>1, <2>3, <2>5 DEF GivenUpTo
  <2> HIDE DEF a
  <2> QED
    BY <2>6 DEF GivenUpTo
<1> HIDE DEF S, more, new
<1>11. ScopedTypes'
  BY <1>2, <1>7, <1>8, <1>9 DEF ScopedInv, ScopedTypes
<1>12. EntryCounts'
  BY <1>2 DEF ScopedInv, EntryCounts
<1>13. StreamsFollowed'
  <2>1. \A t \in Tenants : follower'[t] = IF t = s THEN [after |-> Max(S), given |-> more] ELSE follower[t]
    BY <1>7 DEF ScopedInv, ScopedTypes
  <2> QED
    BY <1>2, <1>9, <1>10, <2>1 DEF ScopedInv, StreamsFollowed
<1> QED
  BY <1>11, <1>12, <1>13 DEF ScopedInv

LEMMA ScopedInitInv == ScopedInit => ScopedInv
<1> SUFFICES ASSUME ScopedInit PROVE ScopedInv
  OBVIOUS
<1>1. ScopedTypes
  <2>1. /\ [value |-> 0, expires |-> 0] \in [value : Nat, expires : Nat]
        /\ [updates |-> 0, events |-> 0] \in [updates : Nat, events : 0..MaxRows]
        /\ [after |-> 0, given |-> [n \in 1..MaxRows |-> 0]] \in [after : Nat, given : [1..MaxRows -> Nat]]
    BY ScopedAssumption
  <2>2. WriterCall(Quiet)
    BY DEF WriterCall
  <2> QED
    BY <2>1, <2>2, ScopedAssumption DEF ScopedInit, ScopedTypes, NoRow
<1>2. EntryCounts
  BY DEF ScopedInit, EntryCounts, NoRow
<1>3. LastingRows(0) = {}
  BY DEF LastingRows
<1>4. GivenUpTo(0) = [n \in 1..MaxRows |-> 0]
  BY ScopedAssumption DEF GivenUpTo
<1>5. StreamsFollowed
  <2>1. \A s \in Tenants : /\ stream[s] = {} /\ tally[s].events = 0
                           /\ follower[s].after = 0
                           /\ follower[s].given = [n \in 1..MaxRows |-> 0]
    BY DEF ScopedInit
  <2>2. \A s \in Tenants : NumberedRows(stream[s], tally[s].events)
    BY <2>1 DEF NumberedRows
  <2>3. \A s \in Tenants : /\ stream[s] = LastingRows(tally[s].events)
                           /\ follower[s].given = GivenUpTo(follower[s].after)
                           /\ follower[s].after <= tally[s].events
    <3> SUFFICES ASSUME NEW s \in Tenants
                 PROVE  /\ stream[s] = LastingRows(tally[s].events)
                        /\ follower[s].given = GivenUpTo(follower[s].after)
                        /\ follower[s].after <= tally[s].events
      OBVIOUS
    <3>1. /\ stream[s] = {} /\ tally[s].events = 0 /\ follower[s].after = 0
          /\ follower[s].given = GivenUpTo(0)
      BY <1>4, <2>1
    <3> QED
      BY <1>3, <3>1
  <2> QED
    BY <2>2, <2>3 DEF StreamsFollowed
<1> QED
  BY <1>1, <1>2, <1>5 DEF ScopedInv

LEMMA ScopedNextInv == ScopedInv /\ [ScopedNext]_scopedState => ScopedInv'
<1> SUFFICES ASSUME ScopedInv, [ScopedNext]_scopedState PROVE ScopedInv'
  OBVIOUS
<1>1. ASSUME NEW w \in Writers, SetEntry(w) \/ TransactEntry(w) \/ AppendEvent(w) \/ Cleanup(w)
      PROVE  ScopedInv'
  BY <1>1, SetEntryStep, TransactStep, AppendStep, CleanupStep
<1>2. ASSUME NEW s \in Tenants, DeleteEntry(s) \/ Follow(s) PROVE ScopedInv'
  BY <1>2, DeleteEntryStep, FollowStep
<1>3. ASSUME UNCHANGED <<entryRows, stream, follower, tally>>, moment' \in 0..LastMoment,
             DOMAIN writer' = Writers, \A w \in Writers : WriterCall(writer'[w])
      PROVE  ScopedInv'
  BY <1>3 DEF ScopedInv, ScopedTypes, EntryCounts, StreamsFollowed
<1>4. ASSUME NEW w \in Writers, NEW call \in Calls, NEW s \in Tenants, BeginCall(w, call, s)
      PROVE  ScopedInv'
  BY <1>3, <1>4 DEF BeginCall, ScopedInv, ScopedTypes, WriterCall
<1>5. CASE ScopedTick \/ UNCHANGED scopedState
  BY <1>3, <1>5, ScopedAssumption DEF ScopedTick, scopedState, ScopedInv, ScopedTypes
<1> QED
  BY <1>1, <1>2, <1>4, <1>5 DEF ScopedNext

(* However many writers commit with readings that are behind: updates of   *)
(* an entry are counted and built on living values only, and whoever       *)
(* follows a stream whose events stay is given each of them once.          *)
THEOREM ScopedStateIsExactHolds == ScopedSpec => []ScopedStateIsExact
<1>1. ScopedInv => ScopedStateIsExact
  <2> SUFFICES ASSUME ScopedInv PROVE ScopedStateIsExact
    OBVIOUS
  <2>1. ASSUME NEW s \in Tenants, ~ExpiredAt(entryRows[s], moment)
        PROVE  entryRows[s].value = tally[s].updates
    <3>1. entryRows[s].expires \in Nat /\ moment \in Nat /\ ~(entryRows[s].expires <= moment)
      BY <2>1, ScopedAssumption DEF ScopedInv, ScopedTypes, ExpiredAt
    <3>2. entryRows[s].expires > 0
      BY <3>1
    <3> QED
      BY <3>2 DEF ScopedInv, EntryCounts
  <2>2. ASSUME NEW n \in Nat PROVE Cardinality(LastingRows(n)) = n
    <3>1. [i \in 1..n |-> Lasting(i)] \in Bijection(1..n, LastingRows(n))
      <4>1. \A i, j \in 1..n : Lasting(i) = Lasting(j) => i = j
        BY DEF Lasting
      <4> DEFINE f == [i \in 1..n |-> Lasting(i)]
      <4>2. \A i, j \in 1..n : f[i] = f[j] => i = j
        BY <4>1
      <4>3. \A e \in LastingRows(n) : \E i \in 1..n : f[i] = e
        BY DEF LastingRows
      <4>4. f \in [1..n -> LastingRows(n)]
        BY DEF LastingRows
      <4> HIDE DEF f
      <4>5. f \in Surjection(1..n, LastingRows(n))
        BY <4>3, <4>4 DEF Surjection
      <4>6. f \in Bijection(1..n, LastingRows(n))
        BY <4>2, <4>4, <4>5 DEF Bijection, Injection, IsInjective
      <4> QED
        BY <4>6 DEF f
    <3>2. ExistsBijection(1..n, LastingRows(n))
      BY <3>1 DEF ExistsBijection
    <3> QED
      BY <3>2, FS_CountingElements
  <2>3. ASSUME EventTtl = 0, NEW s \in Tenants PROVE Cardinality(stream[s]) = tally[s].events
    <3>1. tally[s].events \in Nat /\ stream[s] = LastingRows(tally[s].events)
      BY <2>3, ScopedAssumption DEF ScopedInv, ScopedTypes, StreamsFollowed
    <3> QED
      BY <2>2, <3>1
  <2>4. EventTtl = 0 => \A s \in Tenants :
          follower[s].given = [n \in 1..MaxRows |-> IF n <= follower[s].after THEN 1 ELSE 0]
    BY DEF ScopedInv, StreamsFollowed, GivenUpTo
  <2>5. \A s \in Tenants : \A e, f \in stream[s] :
          e # f => e.sequence # f.sequence /\ (e.sequence < f.sequence <=> e.id < f.id)
    BY DEF ScopedInv, StreamsFollowed, NumberedRows
  <2> QED
    BY <2>1, <2>3, <2>4, <2>5 DEF ScopedStateIsExact
<1> QED
  BY <1>1, ScopedInitInv, ScopedNextInv, PTL DEF ScopedSpec

-----------------------------------------------------------------------------
(* Grants.                                                                 *)
GrantRows ==
  [target : Principals, revision : Nat, actor : Administrators, document : Documents, read : Nat]
EditorReads(e) == e = NoEdit \/ (e.target \in Principals /\ e.revision \in Nat)

(* The rows that record what a principal has.                              *)
PolicyRecorded(p) ==
  /\ DOMAIN policies[p] = {"revision", "document"}
  /\ policies[p].revision \in Nat
  /\ policies[p].revision = 0 => policies[p] = FirstPolicy
  /\ \A n \in 1..policies[p].revision :
       \E i \in DOMAIN grantAudit : grantAudit[i].target = p /\ grantAudit[i].revision = n

RowsInOrder ==
  \A i \in DOMAIN grantAudit :
    LET row == grantAudit[i] IN
    /\ row.revision \in 1..policies[row.target].revision
    /\ row.read = row.revision - 1
    /\ row.revision = policies[row.target].revision => row.document = policies[row.target].document
    /\ \A j \in DOMAIN grantAudit :
         j < i /\ grantAudit[j].target = row.target => grantAudit[j].revision < row.revision

SnapshotRecorded(s) ==
  snapshot[s] # FirstPolicy =>
    \E i \in DOMAIN grantAudit : /\ grantAudit[i].document = snapshot[s].document
                                 /\ grantAudit[i].revision = snapshot[s].revision

DecidedBySnapshot(s) ==
  decision[s].kind = "execute" /\ decision[s].allowed =>
    Authorized(snapshot[s].document, decision[s].closure, decision[s].arguments)

GrantInv ==
  /\ grantAudit \in Seq(GrantRows)
  /\ DOMAIN policies = Principals
  /\ DOMAIN editor = Administrators /\ \A a \in Administrators : EditorReads(editor[a])
  /\ DOMAIN snapshot = PolicySessions /\ DOMAIN decision = PolicySessions
  /\ \A p \in Principals : PolicyRecorded(p)
  /\ RowsInOrder
  /\ \A s \in PolicySessions : SnapshotRecorded(s) /\ DecidedBySnapshot(s)

LEMMA GrantRowFacts ==
  ASSUME GrantInv, NEW i \in DOMAIN grantAudit
  PROVE  /\ grantAudit[i] \in GrantRows
         /\ grantAudit[i].target \in Principals /\ grantAudit[i].revision \in Nat
<1>1. grantAudit[i] \in GrantRows
  BY DEF GrantInv
<1> QED
  BY <1>1 DEF GrantRows

(* set: one more revision of one principal, and its row.                   *)
LEMMA SetPolicyStep ==
  ASSUME GrantInv, NEW a \in Administrators, NEW document \in Documents, SetPolicy(a, document)
  PROVE  GrantInv'
<1> DEFINE p == editor[a].target
           n == policies[p].revision + 1
           row == [target |-> p, revision |-> n, actor |-> a, document |-> document,
                   read |-> editor[a].revision]
           new == [revision |-> n, document |-> document]
           final == Len(grantAudit) + 1
<1>1. p \in Principals /\ editor[a].revision \in Nat /\ editor[a].revision = policies[p].revision
  BY DEF SetPolicy, GrantInv, EditorReads, AsExpected
<1>2. /\ policies' = [policies EXCEPT ![p] = new]
      /\ grantAudit' = Append(grantAudit, row)
      /\ UNCHANGED <<editor, snapshot, decision>>
  BY DEF SetPolicy
<1>3. n \in Nat /\ n - 1 = policies[p].revision /\ policies[p].revision \in Nat
  BY <1>1 DEF GrantInv, PolicyRecorded
<1>4. row \in GrantRows
  BY <1>1, <1>3 DEF GrantRows
<1>5. row.target = p /\ row.revision = n /\ row.document = document /\ row.read = n - 1
      /\ DOMAIN new = {"revision", "document"} /\ new.revision = n /\ new.document = document
  BY <1>1, <1>3
<1> HIDE DEF p, n, row, new
<1>6. /\ grantAudit \in Seq(GrantRows) /\ grantAudit' \in Seq(GrantRows)
      /\ DOMAIN grantAudit = 1..Len(grantAudit) /\ Len(grantAudit) \in Nat
      /\ DOMAIN grantAudit' = DOMAIN grantAudit \cup {final}
      /\ grantAudit'[final] = row
      /\ \A i \in DOMAIN grantAudit : grantAudit'[i] = grantAudit[i] /\ i # final
  BY <1>2, <1>4 DEF GrantInv
<1>7. \A q \in Principals : policies'[q] = IF q = p THEN new ELSE policies[q]
  BY <1>1, <1>2 DEF GrantInv
<1>8. DOMAIN policies' = Principals
  BY <1>2 DEF GrantInv
<1>9. ASSUME NEW q \in Principals PROVE PolicyRecorded(q)'
  <2>1. CASE q # p
    <3>1. policies'[q] = policies[q] /\ PolicyRecorded(q)
      BY <1>7, <2>1 DEF GrantInv
    <3>2. \A m \in 1..policies[q].revision :
            \E i \in DOMAIN grantAudit' : grantAudit'[i].target = q /\ grantAudit'[i].revision = m
      <4> TAKE m \in 1..policies[q].revision
      <4>1. PICK i \in DOMAIN grantAudit : grantAudit[i].target = q /\ grantAudit[i].revision = m
        BY <3>1 DEF PolicyRecorded
      <4> QED
        BY <1>6, <4>1
    <3> QED
      BY <3>1, <3>2 DEF PolicyRecorded
  <2>2. CASE q = p
    <3>1. \A m \in 1..policies[p].revision :
            \E i \in DOMAIN grantAudit : grantAudit[i].target = p /\ grantAudit[i].revision = m
      BY <1>1 DEF GrantInv, PolicyRecorded
    <3>2. policies'[q] = new
      BY <1>7, <2>2
    <3>3. \A m \in 1..n : m = n \/ m \in 1..policies[p].revision
      BY <1>3
    <3>4. \A m \in 1..n :
            \E i \in DOMAIN grantAudit' : grantAudit'[i].target = p /\ grantAudit'[i].revision = m
      BY <1>5, <1>6, <3>1, <3>3
    <3> QED
      BY <1>3, <1>5, <2>2, <3>2, <3>4 DEF PolicyRecorded, n
  <2> QED
    BY <2>1, <2>2
<1>10. RowsInOrder'
  <2>1. \A i \in DOMAIN grantAudit :
          /\ grantAudit[i].revision \in Nat
          /\ grantAudit[i].target \in Principals
          /\ grantAudit[i].target = p => grantAudit[i].revision <= n - 1
    BY <1>3, GrantRowFacts DEF GrantInv, RowsInOrder
  <2>2. ASSUME NEW i \in DOMAIN grantAudit
        PROVE  /\ grantAudit[i].revision \in 1..policies'[grantAudit[i].target].revision
               /\ grantAudit[i].read = grantAudit[i].revision - 1
               /\ grantAudit[i].revision = policies'[grantAudit[i].target].revision =>
                    grantAudit[i].document = policies'[grantAudit[i].target].document
    <3>1. CASE grantAudit[i].target = p
      BY <1>3, <1>5, <1>7, <2>1, <3>1 DEF GrantInv, RowsInOrder
    <3>2. CASE grantAudit[i].target # p
      BY <1>7, <2>1, <3>2 DEF GrantInv, RowsInOrder
    <3> QED
      BY <3>1, <3>2
  <2>3. \A i, j \in DOMAIN grantAudit :
          j < i /\ grantAudit[j].target = grantAudit[i].target =>
            grantAudit[j].revision < grantAudit[i].revision
    BY DEF GrantInv, RowsInOrder
  <2>4. n \in 1..policies'[p].revision /\ document = policies'[p].document
    BY <1>1, <1>3, <1>5, <1>7
  <2>5. \A i \in DOMAIN grantAudit : ~(final < i)
    BY <1>6
  <2>6. ASSUME NEW i \in DOMAIN grantAudit'
        PROVE  /\ grantAudit'[i].revision \in 1..policies'[grantAudit'[i].target].revision
               /\ grantAudit'[i].read = grantAudit'[i].revision - 1
               /\ grantAudit'[i].revision = policies'[grantAudit'[i].target].revision =>
                    grantAudit'[i].document = policies'[grantAudit'[i].target].document
    <3>1. CASE i = final
      BY <1>5, <1>6, <2>4, <3>1
    <3>2. CASE i \in DOMAIN grantAudit
      BY <1>6, <2>2, <3>2
    <3> QED
      BY <1>6, <3>1, <3>2
  <2>7. ASSUME NEW i \in DOMAIN grantAudit', NEW j \in DOMAIN grantAudit', j < i,
               grantAudit'[j].target = grantAudit'[i].target
        PROVE  grantAudit'[j].revision < grantAudit'[i].revision
    <3>1. CASE i = final
      <4>1. j \in DOMAIN grantAudit
        BY <1>6, <2>7, <3>1
      <4> QED
        BY <1>3, <1>5, <1>6, <2>1, <2>7, <3>1, <4>1
    <3>2. CASE i \in DOMAIN grantAudit
      BY <1>6, <2>3, <2>5, <2>7, <3>2
    <3> QED
      BY <1>6, <3>1, <3>2
  <2> QED
    BY <2>6, <2>7 DEF RowsInOrder
<1>11. ASSUME NEW s \in PolicySessions PROVE SnapshotRecorded(s)' /\ DecidedBySnapshot(s)'
  <2>1. SnapshotRecorded(s)'
    BY <1>2, <1>6 DEF GrantInv, SnapshotRecorded
  <2> QED
    BY <1>2, <2>1 DEF GrantInv, DecidedBySnapshot
<1> QED
  BY <1>2, <1>6, <1>8, <1>9, <1>10, <1>11 DEF GrantInv

(* A session's snapshot is a revision that is in force.                    *)
LEMMA OpenSessionStep ==
  ASSUME GrantInv, NEW s \in PolicySessions, NEW p \in Principals, OpenSession(s, p)
  PROVE  GrantInv'
<1>1. /\ snapshot' = [snapshot EXCEPT ![s] = policies[p]]
      /\ decision' = [decision EXCEPT ![s] = NoDecision]
      /\ UNCHANGED <<policies, grantAudit, editor>>
  BY DEF OpenSession
<1>2. policies[p] # FirstPolicy =>
        \E i \in DOMAIN grantAudit : /\ grantAudit[i].document = policies[p].document
                                     /\ grantAudit[i].revision = policies[p].revision
  <2> SUFFICES ASSUME policies[p] # FirstPolicy
               PROVE  \E i \in DOMAIN grantAudit : /\ grantAudit[i].document = policies[p].document
                                                   /\ grantAudit[i].revision = policies[p].revision
    OBVIOUS
  <2>1. policies[p].revision \in Nat /\ policies[p].revision # 0
    BY DEF GrantInv, PolicyRecorded
  <2>2. PICK i \in DOMAIN grantAudit :
          grantAudit[i].target = p /\ grantAudit[i].revision = policies[p].revision
    BY <2>1 DEF GrantInv, PolicyRecorded
  <2> QED
    BY <2>2 DEF GrantInv, RowsInOrder
<1>3. ASSUME NEW t \in PolicySessions PROVE SnapshotRecorded(t)' /\ DecidedBySnapshot(t)'
  <2>1. CASE t = s
    <3>1. snapshot'[t] = policies[p] /\ decision'[t] = NoDecision
      BY <1>1, <2>1 DEF GrantInv
    <3> QED
      BY <1>1, <1>2, <3>1 DEF SnapshotRecorded, DecidedBySnapshot, NoDecision
  <2>2. CASE t # s
    <3>1. snapshot'[t] = snapshot[t] /\ decision'[t] = decision[t]
      BY <1>1, <2>2 DEF GrantInv
    <3> QED
      BY <1>1, <3>1 DEF GrantInv, SnapshotRecorded, DecidedBySnapshot
  <2> QED
    BY <2>1, <2>2
<1> QED
  BY <1>1, <1>3 DEF GrantInv, PolicyRecorded, RowsInOrder

LEMMA AuthorizeStep ==
  ASSUME GrantInv, NEW s \in PolicySessions, NEW closure, NEW arguments,
         Authorize(s, closure, arguments)
  PROVE  GrantInv'
<1> DEFINE d == [kind |-> "execute", closure |-> closure, arguments |-> arguments,
                 allowed |-> Authorized(snapshot[s].document, closure, arguments)]
<1>1. /\ decision' = [decision EXCEPT ![s] = d]
      /\ UNCHANGED <<policies, grantAudit, editor, snapshot>>
  BY DEF Authorize
<1>2. d.closure = closure /\ d.arguments = arguments
      /\ d.allowed = Authorized(snapshot[s].document, closure, arguments)
  OBVIOUS
<1> HIDE DEF d
<1>3. ASSUME NEW t \in PolicySessions PROVE DecidedBySnapshot(t)'
  <2>1. CASE t = s
    BY <1>1, <1>2, <2>1 DEF GrantInv, DecidedBySnapshot
  <2>2. CASE t # s
    BY <1>1, <2>2 DEF GrantInv, DecidedBySnapshot
  <2> QED
    BY <2>1, <2>2
<1>4. RowsInOrder' /\ \A q \in Principals : PolicyRecorded(q)'
  BY <1>1 DEF GrantInv, PolicyRecorded, RowsInOrder
<1>5. \A t \in PolicySessions : SnapshotRecorded(t)'
  BY <1>1 DEF GrantInv, SnapshotRecorded
<1> QED
  BY <1>1, <1>3, <1>4, <1>5 DEF GrantInv

LEMMA ReadPolicyStep ==
  ASSUME GrantInv, NEW a \in Administrators, NEW p \in Principals, ReadPolicy(a, p)
  PROVE  GrantInv'
<1>1. /\ editor' = [editor EXCEPT ![a] = [target |-> p, revision |-> policies[p].revision]]
      /\ UNCHANGED <<policies, grantAudit, snapshot, decision>>
  BY DEF ReadPolicy
<1>2. policies[p].revision \in Nat
  BY DEF GrantInv, PolicyRecorded
<1>3. EditorReads([target |-> p, revision |-> policies[p].revision])
  BY <1>2 DEF EditorReads
<1>4. \A b \in Administrators : EditorReads(editor'[b])
  BY <1>1, <1>3 DEF GrantInv
<1> QED
  BY <1>1, <1>4 DEF GrantInv, PolicyRecorded, RowsInOrder, SnapshotRecorded, DecidedBySnapshot

LEMMA GrantInitInv == GrantPolicyInit => GrantInv
<1> SUFFICES ASSUME GrantPolicyInit PROVE GrantInv
  OBVIOUS
<1>1. \A p \in Principals : PolicyRecorded(p)
  BY DEF GrantPolicyInit, FirstPolicy, PolicyRecorded
<1>2. \A s \in PolicySessions : SnapshotRecorded(s) /\ DecidedBySnapshot(s)
  BY DEF GrantPolicyInit, SnapshotRecorded, DecidedBySnapshot, NoDecision
<1>3. \A a \in Administrators : EditorReads(editor[a])
  BY DEF GrantPolicyInit, EditorReads
<1> QED
  BY <1>1, <1>2, <1>3 DEF GrantPolicyInit, GrantInv, RowsInOrder

LEMMA GrantNextInv == GrantInv /\ [GrantPolicyNext]_grantPolicy => GrantInv'
<1> SUFFICES ASSUME GrantInv, [GrantPolicyNext]_grantPolicy PROVE GrantInv'
  OBVIOUS
<1>1. CASE GrantPolicyNext
  BY <1>1, ReadPolicyStep, SetPolicyStep, OpenSessionStep, AuthorizeStep DEF GrantPolicyNext
<1>2. CASE UNCHANGED grantPolicy
  BY <1>2 DEF grantPolicy, GrantInv, PolicyRecorded, RowsInOrder, SnapshotRecorded, DecidedBySnapshot
<1> QED
  BY <1>1, <1>2

(* What the constraints of a closure permit together, each permits; of     *)
(* paths, while links keep the roots nested as they are by name.           *)
LEMMA IntersectionPermits ==
  ASSUME NEW document, NEW closure, NEW permission \in EffectiveGrants(document, closure),
         NEW field \in FieldsOf[permission], NEW v,
         PermitsValue(field, v, Intersect(document, closure, permission, field)),
         NEW i \in NeededBy(closure, permission),
         field = "path" => NestingKept(document, closure)
  PROVE  PermitsValue(field, v, Grants(document, closure[i])[permission][field])
<1> DEFINE values(k) == Grants(document, closure[k])[permission][field]
           users == NeededBy(closure, permission)
           least == Min(users)
           common == Intersect(document, closure, permission, field)
<1>1. \A x : x \in common <=>
               /\ x \in values(least)
               /\ \A k \in users \ {least} :
                    IF field = "path" THEN InSome(x, values(k)) ELSE x \in values(k)
  BY DEF Intersect
<1>2. NestingKept(document, closure) /\ field = "path" =>
        \A x \in common, k \in users : \A y \in values(k) :
          <<x, y>> \in Within => <<CanonicalOf[x], CanonicalOf[y]>> \in Within
  BY DEF NestingKept
<1>3. i \in users
  OBVIOUS
<1> HIDE DEF values, least, common, users
<1>4. CASE field # "path"
  <2>1. PICK x \in common : CanonicalOf[v] = CanonicalOf[x]
    BY <1>4 DEF PermitsValue, common
  <2>2. x \in values(i)
    BY <1>1, <1>3, <1>4, <2>1
  <2> QED
    BY <1>4, <2>1, <2>2 DEF PermitsValue, values
<1>5. CASE field = "path"
  <2>1. PICK root \in common : <<CanonicalOf[v], CanonicalOf[root]>> \in Within
    BY <1>5 DEF PermitsValue, InSome, common
  <2>2. \E wider \in values(i) : <<CanonicalOf[v], CanonicalOf[wider]>> \in Within
    <3>1. CASE i = least
      BY <1>1, <2>1, <3>1
    <3>2. CASE i # least
      <4>1. PICK wider \in values(i) : <<root, wider>> \in Within
        <5>1. InSome(root, values(i))
          BY <1>1, <1>3, <1>5, <2>1, <3>2
        <5> QED
          BY <5>1 DEF InSome
      <4>2. <<CanonicalOf[root], CanonicalOf[wider]>> \in Within
        BY <1>1, <1>2, <1>3, <1>5, <2>1, <3>2, <4>1
      <4>3. <<CanonicalOf[v], CanonicalOf[wider]>> \in Within
        <5> DEFINE x == <<CanonicalOf[v], CanonicalOf[root]>>
                   y == <<CanonicalOf[root], CanonicalOf[wider]>>
        <5>1. x[2] = y[1] => <<x[1], y[2]>> \in Within
          BY <2>1, <4>2, WithinAssumption
        <5> QED
          BY <5>1
      <4> QED
        BY <4>1, <4>3
    <3> QED
      BY <3>1, <3>2
  <2> QED
    BY <1>5, <2>2 DEF PermitsValue, InSome, values
<1> QED
  BY <1>4, <1>5

LEMMA AuthorizedByEach ==
  ASSUME NEW document, NEW closure, NEW arguments, Authorized(document, closure, arguments),
         NEW i \in DOMAIN closure, NEW left,
         "path" \in left \/ NestingKept(document, closure)
  PROVE  OwnGrantPermits(document, closure[i], arguments, left)
<1> SUFFICES ASSUME NEW permission \in PermissionsOf[closure[i]]
             PROVE  /\ permission \in DOMAIN Grants(document, closure[i])
                    /\ \A field \in FieldsOf[permission] \ left :
                         /\ field \in DOMAIN arguments
                         /\ PermitsValue(field, arguments[field],
                                         Grants(document, closure[i])[permission][field])
  BY DEF OwnGrantPermits
<1>1. permission \in NeededPermissions(closure) /\ i \in NeededBy(closure, permission)
  BY DEF NeededPermissions, NeededBy
<1>2. permission \in EffectiveGrants(document, closure)
  BY <1>1 DEF Authorized, Eligible
<1>3. permission \in DOMAIN Grants(document, closure[i])
  BY <1>1, <1>2 DEF EffectiveGrants, Ungranted
<1>4. ASSUME NEW field \in FieldsOf[permission] \ left
      PROVE  /\ field \in DOMAIN arguments
             /\ PermitsValue(field, arguments[field], Grants(document, closure[i])[permission][field])
  <2>1. /\ field \in DOMAIN arguments
        /\ PermitsValue(field, arguments[field], Intersect(document, closure, permission, field))
    BY <1>1 DEF Authorized
  <2>2. field = "path" => NestingKept(document, closure)
    OBVIOUS
  <2> QED
    BY <1>1, <1>2, <2>1, <2>2, IntersectionPermits
<1> QED
  BY <1>3, <1>4

(* For any administrators and sessions: policies are their audited         *)
(* revisions, each made by who had read the one before, and a session      *)
(* allows only what the grants of every manifest of the closure allow; of  *)
(* paths, while no link leads one granted root out of another.             *)
THEOREM GrantsAreExactHolds == GrantPolicySpec => []GrantsAreExact
<1>1. GrantInv => GrantsAreExact
  <2> SUFFICES ASSUME GrantInv PROVE GrantsAreExact
    OBVIOUS
  <2>1. ASSUME NEW p \in Principals
        PROVE  {grantAudit[i].revision : i \in {j \in DOMAIN grantAudit : grantAudit[j].target = p}}
                 = 1..policies[p].revision
    BY DEF GrantInv, PolicyRecorded, RowsInOrder
  <2>2. ASSUME NEW s \in PolicySessions, decision[s].kind = "execute", decision[s].allowed
        PROVE  /\ EachPermits(s, {"path"})
               /\ NestingKept(snapshot[s].document, decision[s].closure) => EachPermits(s, {})
    BY <2>2, AuthorizedByEach DEF GrantInv, DecidedBySnapshot, EachPermits
  <2>3. \A s \in PolicySessions : SnapshotRecorded(s)
    BY DEF GrantInv
  <2> QED
    BY <2>1, <2>2, <2>3 DEF GrantInv, RowsInOrder, SnapshotRecorded, GrantsAreExact
<1> QED
  BY <1>1, GrantInitInv, GrantNextInv, PTL DEF GrantPolicySpec

-----------------------------------------------------------------------------
-----------------------------------------------------------------------------
Unpersisted == [o \in Observers |-> tallied.spans[o] - failures[o]]

ObserverInv(o) ==
  /\ DOMAIN counts[o] \subseteq MetricKeys
  /\ \A k \in DOMAIN counts[o] : counts[o][k] \in Nat
  /\ Total(counts[o]) = tallied.spans[o]
  /\ Regular(o) < SeriesLimit

MetricsInv ==
  /\ DOMAIN counts = Observers /\ DOMAIN durable = MetricKeys
  /\ \A k \in MetricKeys : durable[k].count \in Nat
  /\ failures \in [Observers -> Nat]
  /\ tallied \in [spans : [Observers -> Nat], former : Nat, removed : Nat, begun : Nat]
  /\ \A o \in Observers : failures[o] <= tallied.spans[o]
  /\ \A o \in Observers : ObserverInv(o)
  /\ Total(PersistedCounts) + tallied.removed = tallied.former + Total(Unpersisted)

LEMMA KeysFinite == IsFiniteSet(MetricKeys)
  BY MetricsAssumption, FS_AddElement DEF MetricKeys

LEMMA TalliedParts ==
  ASSUME MetricsInv
  PROVE  /\ tallied.spans \in [Observers -> Nat] /\ tallied.former \in Nat
         /\ tallied.removed \in Nat /\ tallied.begun \in Nat
  BY DEF MetricsInv

(* The sum of what is persisted, and that of what still could be.          *)
LEMMA TotalsAre ==
  /\ Total(PersistedCounts) = SumFunctionOnSet(PersistedCounts, MetricKeys)
  /\ Total(Unpersisted) = SumFunctionOnSet(Unpersisted, Observers)
  BY DEF Total, PersistedCounts, Unpersisted

LEMMA TotalsNat ==
  ASSUME MetricsInv
  PROVE  /\ \A k \in MetricKeys : PersistedCounts[k] \in Nat /\ PersistedCounts[k] = durable[k].count
         /\ \A o \in Observers : Unpersisted[o] \in Nat /\ Unpersisted[o] = tallied.spans[o] - failures[o]
         /\ Total(PersistedCounts) \in Nat /\ Total(Unpersisted) \in Nat
<1>1. \A k \in MetricKeys : PersistedCounts[k] \in Nat /\ PersistedCounts[k] = durable[k].count
  BY DEF PersistedCounts, MetricsInv
<1>2. \A o \in Observers : Unpersisted[o] \in Nat /\ Unpersisted[o] = tallied.spans[o] - failures[o]
  BY TalliedParts DEF Unpersisted, MetricsInv
<1>3. SumFunctionOnSet(PersistedCounts, MetricKeys) \in Nat
  BY <1>1, KeysFinite, SumNat
<1>4. SumFunctionOnSet(Unpersisted, Observers) \in Nat
  BY <1>2, MetricsAssumption, SumNat
<1> QED
  BY <1>1, <1>2, <1>3, <1>4, TotalsAre

LEMMA CountIncremented ==
  ASSUME NEW f, DOMAIN f \subseteq MetricKeys, \A j \in DOMAIN f : f[j] \in Nat,
         NEW k \in MetricKeys
  PROVE  /\ DOMAIN Incremented(f, k) = DOMAIN f \cup {k}
         /\ \A j \in DOMAIN f \cup {k} : Incremented(f, k)[j] \in Nat
         /\ Total(Incremented(f, k)) = Total(f) + 1
<1> DEFINE g == Incremented(f, k)
           D == DOMAIN f
<1>1. DOMAIN g = D \cup {k} /\ \A j \in D \cup {k} : g[j] \in Nat
  BY DEF Incremented
<1>2. IsFiniteSet(D)
  BY KeysFinite, SubsetFinite
<1>3. \A j \in D \ {k} : g[j] = f[j]
  BY DEF Incremented
<1>4. CASE k \in D
  <2>1. g[k] = f[k] + 1 /\ D \cup {k} = D
    BY <1>4 DEF Incremented
  <2>2. \A j \in D : f[j] \in Int /\ g[j] \in Int
    BY <1>1
  <2>3. SumFunctionOnSet(g, D) = SumFunctionOnSet(f, D) - f[k] + g[k]
    BY <1>2, <1>3, <1>4, <2>2, SumChange
  <2>4. SumFunctionOnSet(f, D) \in Int
    BY <1>2, <2>2, SumInt
  <2>5. f[k] \in Nat
    BY <1>4
  <2> HIDE DEF g, D
  <2>6. SumFunctionOnSet(g, D) = SumFunctionOnSet(f, D) + 1
    BY <2>1, <2>3, <2>4, <2>5
  <2>7. Total(g) = Total(f) + 1
    BY <1>1, <2>1, <2>6 DEF Total, D
  <2> QED
    BY <1>1, <2>7 DEF g, D
<1>5. CASE k \notin D
  <2>1. g[k] = 1
    BY <1>5 DEF Incremented
  <2>2. \A j \in D \cup {k} : g[j] \in Int
    BY <1>1
  <2>3. \A j \in D : g[j] = f[j]
    BY <1>3, <1>5
  <2> HIDE DEF g, D
  <2>4. SumFunctionOnSet(g, D \cup {k}) = 1 + SumFunctionOnSet(g, D)
    BY <1>2, <1>5, <2>1, <2>2, SumAdd
  <2>5. SumFunctionOnSet(g, D) = SumFunctionOnSet(f, D)
    BY <1>2, <2>3, SumSame
  <2>6. SumFunctionOnSet(g, D) \in Int
    BY <1>2, <2>2, SumInt
  <2>7. Total(g) = Total(f) + 1
    BY <1>1, <2>4, <2>5, <2>6 DEF Total, D
  <2> QED
    BY <1>1, <2>7 DEF g, D
<1> QED
  BY <1>4, <1>5

(* One more span: in memory always, in the database or as a failure.       *)
LEMMA FinishSpanStep ==
  ASSUME MetricsInv, NEW o \in Observers, NEW k \in Series, NEW time, FinishSpan(o, k, time)
  PROVE  MetricsInv'
<1> DEFINE s == SeriesOf(o, k)
           own == Incremented(counts[o], s)
<1>1. s \in MetricKeys
  BY DEF SeriesOf, MetricKeys
<1>2. ObserverInv(o)
  BY DEF MetricsInv
<1>3. /\ DOMAIN own = DOMAIN counts[o] \cup {s}
      /\ \A j \in DOMAIN own : own[j] \in Nat
      /\ Total(own) = Total(counts[o]) + 1
  BY <1>1, <1>2, CountIncremented DEF ObserverInv
<1>4. /\ counts' = [counts EXCEPT ![o] = own]
      /\ tallied' = [tallied EXCEPT !.spans[o] = @ + 1]
  BY DEF FinishSpan
<1>5. \/ /\ durable' = [durable EXCEPT ![s] = [count |-> @.count + 1, updated |-> Max({@.updated, time})]]
         /\ UNCHANGED failures
      \/ failures' = [failures EXCEPT ![o] = @ + 1] /\ UNCHANGED durable
  BY DEF FinishSpan
<1>6. s \in DOMAIN counts[o] \/ s = Overflow \/ HasRoom(o)
  BY DEF SeriesOf
<1> HIDE DEF s, own
<1>7. /\ tallied' \in [spans : [Observers -> Nat], former : Nat, removed : Nat, begun : Nat]
      /\ tallied'.spans = [tallied.spans EXCEPT ![o] = @ + 1]
      /\ tallied'.former = tallied.former /\ tallied'.removed = tallied.removed
  <2>1. tallied \in [spans : [Observers -> Nat], former : Nat, removed : Nat, begun : Nat]
    BY DEF MetricsInv
  <2>2. tallied' = [tallied EXCEPT !.spans = [tallied.spans EXCEPT ![o] = @ + 1]]
    BY <1>4
  <2>3. [tallied.spans EXCEPT ![o] = @ + 1] \in [Observers -> Nat]
    BY TalliedParts
  <2> QED
    BY <2>1, <2>2, <2>3
<1>8. /\ tallied'.spans \in [Observers -> Nat]
      /\ tallied'.spans[o] = tallied.spans[o] + 1
      /\ \A p \in Observers \ {o} : tallied'.spans[p] = tallied.spans[p]
  BY <1>7, TalliedParts
<1>9. IsFiniteSet(DOMAIN counts[o] \ {Overflow}) /\ Regular(o) \in Nat /\ Regular(o) < SeriesLimit
  <2>1. IsFiniteSet(DOMAIN counts[o] \ {Overflow})
    BY <1>2, KeysFinite, SubsetFinite DEF ObserverInv
  <2> QED
    BY <1>2, <2>1, FS_CardinalityType DEF ObserverInv, Regular
<1>10. Cardinality(DOMAIN own \ {Overflow}) < SeriesLimit
  <2>1. CASE s \in DOMAIN counts[o] \/ s = Overflow
    <3>1. DOMAIN own \ {Overflow} = DOMAIN counts[o] \ {Overflow}
      BY <1>3, <2>1
    <3> QED
      BY <1>9, <3>1 DEF Regular
  <2>2. CASE HasRoom(o) /\ s # Overflow /\ s \notin DOMAIN counts[o]
    <3>1. DOMAIN own \ {Overflow} = (DOMAIN counts[o] \ {Overflow}) \cup {s}
      BY <1>3, <2>2
    <3>2. s \notin DOMAIN counts[o] \ {Overflow}
      BY <2>2
    <3>3. Cardinality(DOMAIN own \ {Overflow}) = Regular(o) + 1
      BY <1>9, <3>1, <3>2, FS_AddElement DEF Regular
    <3> QED
      BY <2>2, <3>3 DEF HasRoom
  <2> QED
    BY <1>6, <2>1, <2>2
<1>11. ASSUME NEW p \in Observers PROVE ObserverInv(p)'
  <2>1. CASE p = o
    <3>1. counts'[p] = own /\ tallied'.spans[p] = tallied.spans[o] + 1
      BY <1>4, <1>8, <2>1 DEF MetricsInv
    <3>2. Total(own) = tallied'.spans[p]
      BY <1>2, <1>3, <3>1 DEF ObserverInv
    <3>3. DOMAIN own \subseteq MetricKeys
      BY <1>1, <1>2, <1>3 DEF ObserverInv
    <3> QED
      BY <1>3, <1>10, <3>1, <3>2, <3>3 DEF ObserverInv, Regular, Total
  <2>2. CASE p # o
    <3>1. counts'[p] = counts[p] /\ tallied'.spans[p] = tallied.spans[p]
      BY <1>4, <1>8, <2>2 DEF MetricsInv
    <3> QED
      BY <3>1 DEF MetricsInv, ObserverInv, Regular, Total
  <2> QED
    BY <2>1, <2>2
<1>12. CASE UNCHANGED failures /\ durable' = [durable EXCEPT ![s] = [count |-> @.count + 1, updated |-> Max({@.updated, time})]]
  <2>1. DOMAIN durable' = MetricKeys
    BY <1>12 DEF MetricsInv
  <2>2. /\ durable'[s].count = durable[s].count + 1
        /\ \A j \in MetricKeys \ {s} : durable'[j] = durable[j]
    BY <1>1, <1>12 DEF MetricsInv
  <2>3. \A j \in MetricKeys : durable'[j].count \in Nat
    BY <2>2 DEF MetricsInv
  <2>4. \A j \in MetricKeys : PersistedCounts[j] \in Int /\ PersistedCounts'[j] \in Int
                              /\ PersistedCounts'[j] = durable'[j].count
    BY <2>3, TotalsNat DEF PersistedCounts
  <2>5. \A j \in MetricKeys \ {s} : PersistedCounts[j] = PersistedCounts'[j]
    BY <2>2, <2>4, TotalsNat
  <2>6. SumFunctionOnSet(PersistedCounts', MetricKeys)
          = SumFunctionOnSet(PersistedCounts, MetricKeys) - PersistedCounts[s] + PersistedCounts'[s]
    BY <1>1, <2>4, <2>5, KeysFinite, SumChange
  <2>7. Total(PersistedCounts)' = Total(PersistedCounts) + 1
    BY <1>1, <2>2, <2>4, <2>6, TotalsAre, TotalsNat DEF Total, PersistedCounts
  <2>8. \A p \in Observers : failures'[p] <= tallied'.spans[p]
    BY <1>8, <1>12, TalliedParts DEF MetricsInv
  <2>9. Total(Unpersisted)' = Total(Unpersisted) + 1
    <3>1. \A p \in Observers : Unpersisted'[p] = tallied'.spans[p] - failures[p]
      BY <1>12 DEF Unpersisted
    <3>2. \A p \in Observers : Unpersisted[p] \in Int /\ Unpersisted'[p] \in Int
      BY <1>8, <3>1, TotalsNat DEF MetricsInv
    <3>3. \A p \in Observers \ {o} : Unpersisted[p] = Unpersisted'[p]
      BY <1>8, <3>1, TotalsNat
    <3>4. SumFunctionOnSet(Unpersisted', Observers)
            = SumFunctionOnSet(Unpersisted, Observers) - Unpersisted[o] + Unpersisted'[o]
      BY <3>2, <3>3, MetricsAssumption, SumChange
    <3>5. Unpersisted'[o] = Unpersisted[o] + 1
      BY <1>8, <3>1, TotalsNat, TalliedParts DEF MetricsInv
    <3> QED
      BY <3>4, <3>5, TotalsAre, TotalsNat DEF Total, Unpersisted
  <2>10. Total(PersistedCounts)' + tallied'.removed = tallied'.former + Total(Unpersisted)'
    BY <1>7, <2>7, <2>9, TotalsNat, TalliedParts DEF MetricsInv
  <2>11. DOMAIN counts' = Observers /\ failures' \in [Observers -> Nat]
    BY <1>4, <1>12 DEF MetricsInv
  <2> QED
    BY <1>7, <1>11, <2>1, <2>3, <2>8, <2>10, <2>11 DEF MetricsInv
<1>13. CASE failures' = [failures EXCEPT ![o] = @ + 1] /\ UNCHANGED durable
  <2>1. /\ failures' \in [Observers -> Nat] /\ failures'[o] = failures[o] + 1
        /\ \A p \in Observers \ {o} : failures'[p] = failures[p]
    BY <1>13 DEF MetricsInv
  <2>2. \A p \in Observers : failures'[p] <= tallied'.spans[p]
    BY <1>8, <2>1, TalliedParts DEF MetricsInv
  <2>3. PersistedCounts' = PersistedCounts
    BY <1>13 DEF PersistedCounts
  <2>4. Unpersisted' = Unpersisted
    <3>1. \A p \in Observers : tallied'.spans[p] - failures'[p] = tallied.spans[p] - failures[p]
      BY <1>8, <2>1, TalliedParts DEF MetricsInv
    <3> QED
      BY <3>1 DEF Unpersisted
  <2>5. Total(PersistedCounts)' + tallied'.removed = tallied'.former + Total(Unpersisted)'
    BY <1>7, <2>3, <2>4 DEF MetricsInv, Total
  <2>6. DOMAIN counts' = Observers /\ DOMAIN durable' = MetricKeys
        /\ \A j \in MetricKeys : durable'[j].count \in Nat
    BY <1>4, <1>13 DEF MetricsInv
  <2> QED
    BY <1>7, <1>11, <2>1, <2>2, <2>5, <2>6 DEF MetricsInv
<1> QED
  BY <1>5, <1>12, <1>13

(* What a cleanup takes is counted as removed.                             *)
LEMMA CleanupMetricsStep ==
  ASSUME MetricsInv, NEW cutoff, CleanupBefore(cutoff)
  PROVE  MetricsInv'
<1> DEFINE gone == {k \in MetricKeys : durable[k].count > 0 /\ durable[k].updated < cutoff}
           Sum(S) == SumFunctionOnSet(PersistedCounts, S)
<1>1. /\ durable' = [k \in MetricKeys |-> IF k \in gone THEN NoMetric ELSE durable[k]]
      /\ tallied' = [tallied EXCEPT !.removed = @ + Sum(gone)]
      /\ UNCHANGED <<counts, failures>>
  BY DEF CleanupBefore
<1>2. gone \in SUBSET MetricKeys
  OBVIOUS
<1> HIDE DEF gone
<1>3. \A k \in MetricKeys : durable'[k].count = IF k \in gone THEN 0 ELSE durable[k].count
  BY <1>1 DEF NoMetric
<1>4. \A k \in MetricKeys : durable'[k].count \in Nat
  BY <1>3 DEF MetricsInv
<1>5. IsFiniteSet(gone) /\ IsFiniteSet(MetricKeys \ gone)
  BY <1>2, KeysFinite, SubsetFinite
<1>6. Sum(gone) \in Nat /\ Sum(MetricKeys \ gone) \in Nat
  BY <1>2, <1>5, TotalsNat, SumNat
<1>7. Sum(MetricKeys) = Sum(gone) + Sum(MetricKeys \ gone)
  <2>1. \A k \in MetricKeys : PersistedCounts[k] \in Int
    BY TotalsNat
  <2> QED
    BY <1>2, <2>1, KeysFinite, SumSplit
<1>8. Total(PersistedCounts)' = Sum(MetricKeys \ gone)
  <2>1. \A k \in MetricKeys : PersistedCounts'[k] = durable'[k].count
    BY DEF PersistedCounts
  <2>2. \A k \in MetricKeys : PersistedCounts'[k] \in Int
    BY <1>4, <2>1
  <2>3. SumFunctionOnSet(PersistedCounts', MetricKeys)
          = SumFunctionOnSet(PersistedCounts', gone) + SumFunctionOnSet(PersistedCounts', MetricKeys \ gone)
    BY <1>2, <2>2, KeysFinite, SumSplit
  <2>4. SumFunctionOnSet(PersistedCounts', gone) = 0
    BY <1>2, <1>3, <1>5, <2>1, SumZero
  <2>5. SumFunctionOnSet(PersistedCounts', MetricKeys \ gone) = Sum(MetricKeys \ gone)
    BY <1>3, <1>5, <2>1, TotalsNat, SumSame
  <2>6. DOMAIN PersistedCounts' = MetricKeys
    BY DEF PersistedCounts
  <2> QED
    BY <1>6, <2>3, <2>4, <2>5, <2>6 DEF Total
<1>9. /\ tallied' \in [spans : [Observers -> Nat], former : Nat, removed : Nat, begun : Nat]
      /\ tallied'.spans = tallied.spans /\ tallied'.former = tallied.former
      /\ tallied'.removed = tallied.removed + Sum(gone)
  <2>1. tallied \in [spans : [Observers -> Nat], former : Nat, removed : Nat, begun : Nat]
    BY DEF MetricsInv
  <2>2. tallied.removed + Sum(gone) \in Nat
    BY <1>6, TalliedParts
  <2> HIDE DEF Sum
  <2> QED
    BY <1>1, <2>1, <2>2
<1>10. Total(Unpersisted)' = Total(Unpersisted)
  BY <1>1, <1>9 DEF Total, Unpersisted
<1>11. Total(PersistedCounts)' + tallied'.removed = tallied'.former + Total(Unpersisted)'
  <2>1. Total(PersistedCounts) = Sum(MetricKeys)
    BY TotalsAre
  <2>2. Total(PersistedCounts) + tallied.removed = tallied.former + Total(Unpersisted)
    BY DEF MetricsInv
  <2> HIDE DEF Sum
  <2> QED
    BY <1>6, <1>7, <1>8, <1>9, <1>10, <2>1, <2>2, TotalsNat, TalliedParts
<1>12. \A o \in Observers : ObserverInv(o)'
  BY <1>1, <1>9 DEF MetricsInv, ObserverInv, Regular, Total
<1>13. DOMAIN durable' = MetricKeys
  BY <1>1
<1> QED
  BY <1>1, <1>4, <1>9, <1>11, <1>12, <1>13 DEF MetricsInv

(* A new life begins with no series; what the last one persisted stays.    *)
LEMMA RestartObserverStep ==
  ASSUME MetricsInv, NEW o \in Observers, RestartObserver(o)
  PROVE  MetricsInv'
<1> DEFINE done == tallied.spans[o] - failures[o]
<1>1. /\ counts' = [counts EXCEPT ![o] = Empty]
      /\ failures' = [failures EXCEPT ![o] = 0]
      /\ tallied' = [tallied EXCEPT !.former = @ + tallied.spans[o] - failures[o], !.spans[o] = 0]
      /\ UNCHANGED durable
  BY DEF RestartObserver
<1>2. tallied.spans[o] \in Nat /\ failures[o] \in Nat /\ done \in Nat
  BY TalliedParts DEF MetricsInv
<1>3. /\ tallied' \in [spans : [Observers -> Nat], former : Nat, removed : Nat, begun : Nat]
      /\ tallied'.spans = [tallied.spans EXCEPT ![o] = 0]
      /\ tallied'.former = tallied.former + done /\ tallied'.removed = tallied.removed
  <2>1. tallied \in [spans : [Observers -> Nat], former : Nat, removed : Nat, begun : Nat]
    BY DEF MetricsInv
  <2>2. tallied.former + tallied.spans[o] - failures[o] = tallied.former + done
    BY <1>2, TalliedParts
  <2>3. tallied.former + done \in Nat /\ [tallied.spans EXCEPT ![o] = 0] \in [Observers -> Nat]
    BY <1>2, TalliedParts
  <2>4. tallied' = [tallied EXCEPT !.former = tallied.former + done,
                                   !.spans = [tallied.spans EXCEPT ![o] = 0]]
    BY <1>1, <2>2
  <2> HIDE DEF done
  <2> QED
    BY <2>1, <2>3, <2>4
<1>4. /\ failures' \in [Observers -> Nat] /\ failures'[o] = 0 /\ tallied'.spans[o] = 0
      /\ tallied'.spans \in [Observers -> Nat]
      /\ \A p \in Observers \ {o} : failures'[p] = failures[p] /\ tallied'.spans[p] = tallied.spans[p]
  BY <1>1, <1>3, TalliedParts DEF MetricsInv
<1>5. \A p \in Observers : failures'[p] <= tallied'.spans[p]
  BY <1>4 DEF MetricsInv
<1>6. ASSUME NEW p \in Observers PROVE ObserverInv(p)'
  <2>1. CASE p = o
    <3>1. counts'[p] = Empty
      BY <1>1, <2>1 DEF MetricsInv
    <3>2. DOMAIN Empty = {}
      BY DEF Empty
    <3>3. Total(Empty) = 0
      BY <3>2, SumEmpty DEF Total
    <3>4. Cardinality({} \ {Overflow}) = 0
      BY FS_EmptySet
    <3>5. 0 < SeriesLimit
      BY MetricsAssumption
    <3> QED
      BY <1>4, <2>1, <3>1, <3>2, <3>3, <3>4, <3>5 DEF ObserverInv, Regular, Total
  <2>2. CASE p # o
    <3>1. counts'[p] = counts[p]
      BY <1>1, <2>2 DEF MetricsInv
    <3> QED
      BY <1>4, <2>2, <3>1 DEF MetricsInv, ObserverInv, Regular, Total
  <2> QED
    BY <2>1, <2>2
<1>7. Total(Unpersisted)' = Total(Unpersisted) - done
  <2>1. \A p \in Observers : Unpersisted'[p] = tallied'.spans[p] - failures'[p]
    BY DEF Unpersisted
  <2>2. \A p \in Observers : Unpersisted[p] \in Int /\ Unpersisted'[p] \in Int
    BY <1>4, <2>1, TotalsNat
  <2>3. \A p \in Observers \ {o} : Unpersisted[p] = Unpersisted'[p]
    BY <1>4, <2>1, TotalsNat
  <2>4. SumFunctionOnSet(Unpersisted', Observers)
          = SumFunctionOnSet(Unpersisted, Observers) - Unpersisted[o] + Unpersisted'[o]
    BY <2>2, <2>3, MetricsAssumption, SumChange
  <2>5. Unpersisted'[o] = 0 /\ Unpersisted[o] = done
    BY <1>4, <2>1, TotalsNat
  <2>6. DOMAIN Unpersisted' = Observers
    BY DEF Unpersisted
  <2> HIDE DEF done
  <2> QED
    BY <1>2, <2>4, <2>5, <2>6, TotalsAre, TotalsNat DEF Total
<1>8. Total(PersistedCounts)' = Total(PersistedCounts)
  BY <1>1 DEF Total, PersistedCounts
<1>9. Total(PersistedCounts)' + tallied'.removed = tallied'.former + Total(Unpersisted)'
  <2>1. Total(PersistedCounts) + tallied.removed = tallied.former + Total(Unpersisted)
    BY DEF MetricsInv
  <2> HIDE DEF done
  <2> QED
    BY <1>2, <1>3, <1>7, <1>8, <2>1, TotalsNat, TalliedParts
<1> QED
  BY <1>1, <1>3, <1>4, <1>5, <1>6, <1>9 DEF MetricsInv

(* Spans that begin, and the clock.                                        *)
LEMMA MetricsRest ==
  ASSUME MetricsInv, UNCHANGED <<counts, durable, failures>>,
         \/ tallied' = [tallied EXCEPT !.begun = @ + 1]
         \/ tallied' = tallied
  PROVE  MetricsInv'
<1>1. /\ tallied' \in [spans : [Observers -> Nat], former : Nat, removed : Nat, begun : Nat]
      /\ tallied'.spans = tallied.spans /\ tallied'.former = tallied.former
      /\ tallied'.removed = tallied.removed
  <2>1. tallied \in [spans : [Observers -> Nat], former : Nat, removed : Nat, begun : Nat]
    BY DEF MetricsInv
  <2> QED
    BY <2>1, TalliedParts
<1>2. \A o \in Observers : ObserverInv(o)'
  BY <1>1 DEF MetricsInv, ObserverInv, Regular, Total
<1>3. Total(PersistedCounts)' = Total(PersistedCounts) /\ Total(Unpersisted)' = Total(Unpersisted)
  BY <1>1 DEF Total, PersistedCounts, Unpersisted
<1> QED
  BY <1>1, <1>2, <1>3 DEF MetricsInv

LEMMA MetricsInitInv == MetricsInit => MetricsInv
<1> SUFFICES ASSUME MetricsInit PROVE MetricsInv
  OBVIOUS
<1>1. \A o \in Observers : counts[o] = Empty /\ failures[o] = 0 /\ tallied.spans[o] = 0
  BY DEF MetricsInit
<1>2. DOMAIN Empty = {} /\ Total(Empty) = 0 /\ Cardinality({} \ {Overflow}) = 0
  BY SumEmpty, FS_EmptySet DEF Empty, Total
<1>3. ASSUME NEW o \in Observers PROVE ObserverInv(o)
  <2>1. counts[o] = Empty /\ tallied.spans[o] = 0
    BY <1>1
  <2>2. Regular(o) = 0 /\ 0 < SeriesLimit
    BY <1>2, <2>1, MetricsAssumption DEF Regular
  <2> QED
    BY <1>2, <2>1, <2>2 DEF ObserverInv
<1>4. Total(PersistedCounts) = 0
  BY KeysFinite, SumZero DEF MetricsInit, Total, PersistedCounts, NoMetric
<1>5. Total(Unpersisted) = 0
  BY <1>1, MetricsAssumption, SumZero DEF Total, Unpersisted
<1>6. tallied \in [spans : [Observers -> Nat], former : Nat, removed : Nat, begun : Nat]
  BY DEF MetricsInit
<1>7. tallied.removed = 0 /\ tallied.former = 0
  BY DEF MetricsInit
<1> QED
  BY <1>1, <1>3, <1>4, <1>5, <1>6, <1>7 DEF MetricsInit, MetricsInv, NoMetric

LEMMA MetricsNextInv == MetricsInv /\ [MetricsNext]_metrics => MetricsInv'
<1> SUFFICES ASSUME MetricsInv, [MetricsNext]_metrics PROVE MetricsInv'
  OBVIOUS
<1>1. ASSUME NEW o \in Observers, TimeSpan(o) PROVE MetricsInv'
  BY <1>1, MetricsRest DEF TimeSpan
<1>2. CASE StampMoves
  BY <1>2, MetricsRest DEF StampMoves
<1>3. CASE UNCHANGED metrics
  BY <1>3, MetricsRest DEF metrics
<1> QED
  BY <1>1, <1>2, <1>3, RestartObserverStep, FinishSpanStep, CleanupMetricsStep DEF MetricsNext

(* observability.py: the series of a process stay within its limit, its    *)
(* spans are each in one of them, and what was persisted is in the         *)
(* database until a cleanup takes it, for any processes and series.        *)
THEOREM MetricsAreExactHolds == MetricsSpec => []MetricsAreExact
<1>1. MetricsInv => MetricsAreExact
  <2> SUFFICES ASSUME MetricsInv PROVE MetricsAreExact
    OBVIOUS
  <2>1. ASSUME NEW o \in Observers
        PROVE  Cardinality(DOMAIN counts[o]) <= SeriesLimit /\ Total(counts[o]) = tallied.spans[o]
    <3>1. ObserverInv(o)
      BY DEF MetricsInv
    <3>2. IsFiniteSet(DOMAIN counts[o]) /\ IsFiniteSet(DOMAIN counts[o] \ {Overflow})
      BY <3>1, KeysFinite, SubsetFinite DEF ObserverInv
    <3>3. Cardinality(DOMAIN counts[o]) <= Regular(o) + 1
      <4>1. CASE Overflow \in DOMAIN counts[o]
        BY <3>2, <4>1, FS_RemoveElement, FS_CardinalityType DEF Regular
      <4>2. CASE Overflow \notin DOMAIN counts[o]
        <5>1. DOMAIN counts[o] \ {Overflow} = DOMAIN counts[o]
          BY <4>2
        <5>2. Regular(o) = Cardinality(DOMAIN counts[o])
          BY <5>1 DEF Regular
        <5> QED
          BY <3>2, <5>2, FS_CardinalityType
      <4> QED
        BY <4>1, <4>2
    <3>4. Regular(o) \in Nat /\ Cardinality(DOMAIN counts[o]) \in Nat
      BY <3>2, FS_CardinalityType DEF Regular
    <3> QED
      BY <3>1, <3>3, <3>4, MetricsAssumption DEF ObserverInv
  <2> QED
    BY <2>1 DEF MetricsInv, MetricsAreExact, Unpersisted
<1> QED
  BY MetricsInitInv, MetricsNextInv, <1>1, PTL DEF MetricsSpec

(* A nonempty set of naturals has a least element.                         *)
LEMMA SmallestOf ==
  ASSUME NEW S \in SUBSET Nat, S # {}
  PROVE  \E m \in S : \A n \in S : m <= n
<1>1. PICK m \in S : \A n \in S : <<n, m>> \notin OpToRel(<, Nat)
  BY NatLessThanWellFounded, WFMin, Zenon
<1>2. \A n \in S : n \in Nat /\ m \in Nat
  OBVIOUS
<1>3. \A n \in S : ~(n < m)
  BY <1>1, <1>2 DEF OpToRel
<1> QED
  BY <1>2, <1>3

-----------------------------------------------------------------------------
(* Audit.                                                                  *)
ChainRecords == [event : AuditEvents, previous : Seq(AuditEvents)]
Checkpoints == [count : Nat, hash : Seq(AuditEvents), present : BOOLEAN]
SegmentRecords ==
  [records : Seq(ChainRecords), signed : Checkpoints, half : BOOLEAN, alone : BOOLEAN]
Emitting == [pc : {"appending", "signing"}, event : AuditEvents, records : Seq(ChainRecords)]
Moving == [pc : {"rotating"}, index : Nat]
Removing == [pc : {"removing"}, left : (SUBSET Nat) \ {{}}]
LoggerStates == {Resting, [pc |-> "listing"]} \cup Emitting \cup Moving \cup Removing

(* The events in the ledger, and those that retention removed.             *)
OnRecord == EventsOf(file) \cup pruned \cup UNION {EventsOf(archive[i].records) : i \in Segments}

(* What retention has given up stays so: enough newer segments are there.  *)
Newer(i) == {j \in Segments : j > i}
Expired(i) == Cardinality(Newer(i)) >= MaxSegments

Whole(records, signed) == records # <<>> /\ Chained(records) /\ signed = CheckpointOf(records)

AuditTypes ==
  /\ file \in Seq(ChainRecords) /\ checkpoint \in Checkpoints
  /\ Segments \subseteq Nat /\ IsFiniteSet(Segments)
  /\ \E n \in Nat : \A i \in Segments : i <= n
  /\ archive \in [Segments -> SegmentRecords]
  /\ logger \in [Loggers -> LoggerStates]

(* What a process has begun: an event about to be signed for is somewhere, *)
(* a rotation that nobody overlapped moves what it verified, and what is   *)
(* about to be removed is expired.                                         *)
LoggersSound ==
  \A p \in Loggers :
    /\ At(p).pc = "signing" => At(p).event \in OnRecord
    /\ At(p).pc = "rotating" /\ p \notin crossed => Whole(file, checkpoint) /\ Alone(p)
    /\ At(p).pc = "removing" => \A i \in At(p).left : Expired(i)

SegmentsSound ==
  \A i \in Segments :
    /\ archive[i].alone => Whole(archive[i].records, archive[i].signed)
    /\ archive[i].half => Expired(i) /\ EventsOf(archive[i].records) \subseteq pruned

AuditInv == AuditTypes /\ committed \subseteq OnRecord /\ LoggersSound /\ SegmentsSound

LEMMA StateShapes ==
  ASSUME NEW x \in LoggerStates
  PROVE  /\ x.pc = "idle" => x = Resting
         /\ x.pc \in {"appending", "signing"} => x \in Emitting
         /\ x.pc = "rotating" => x \in Moving
         /\ x.pc = "removing" => x \in Removing
  BY DEF LoggerStates, Resting, Emitting, Moving, Removing

LEMMA RestingType == Resting \in LoggerStates /\ Resting.pc = "idle"
  BY DEF LoggerStates, Resting

LEMMA HashType ==
  ASSUME NEW records \in Seq(ChainRecords)
  PROVE  HashOf(records) \in Seq(AuditEvents)
<1>1. CASE records = <<>>
  BY <1>1 DEF HashOf, Genesis
<1>2. CASE records # <<>>
  <2>1. Last(records) \in ChainRecords
    BY <1>2 DEF Last
  <2>2. Last(records).event \in AuditEvents /\ Last(records).previous \in Seq(AuditEvents)
    BY <2>1 DEF ChainRecords
  <2> QED
    BY <1>2, <2>2 DEF HashOf, ChainHash
<1> QED
  BY <1>1, <1>2

LEMMA CheckpointType ==
  ASSUME NEW records \in Seq(ChainRecords)
  PROVE  CheckpointOf(records) \in Checkpoints
<1>1. HashOf(records) \in Seq(AuditEvents) /\ Len(records) \in Nat
  BY HashType
<1> QED
  BY <1>1 DEF CheckpointOf, Checkpoints

LEMMA VerifiedIsWhole ==
  ASSUME NEW records, NEW signed, records # <<>>, Verified(records, signed)
  PROVE  Whole(records, signed)
  BY DEF Verified, Whole

LEMMA EventsAppended ==
  ASSUME NEW records \in Seq(ChainRecords), NEW r \in ChainRecords
  PROVE  EventsOf(Append(records, r)) = EventsOf(records) \cup {r.event}
<1>1. DOMAIN Append(records, r) = DOMAIN records \cup {Len(records) + 1}
  OBVIOUS
<1>2. /\ Append(records, r)[Len(records) + 1] = r
      /\ \A i \in DOMAIN records : Append(records, r)[i] = records[i]
  OBVIOUS
<1> HIDE DEF ChainRecords
<1> QED
  BY <1>1, <1>2 DEF EventsOf

(* One process moves, or dies.                                             *)
LEMMA LoggerMoves ==
  ASSUME logger \in [Loggers -> LoggerStates], NEW p \in Loggers, NEW x \in LoggerStates,
         logger' = [logger EXCEPT ![p] = x]
  PROVE  /\ logger' \in [Loggers -> LoggerStates]
         /\ At(p)' = x
         /\ \A q \in Loggers \ {p} : At(q)' = At(q)
<1> HIDE DEF LoggerStates
<1> QED
  BY DEF At

LEMMA LoggerKnown ==
  ASSUME AuditInv, NEW p \in Loggers
  PROVE  At(p) \in LoggerStates
  BY DEF AuditInv, AuditTypes, At

(* The segments are finitely many, and so are those above one of them.     *)
LEMMA NewerFinite ==
  ASSUME AuditTypes, NEW i
  PROVE  IsFiniteSet(Newer(i)) /\ Cardinality(Newer(i)) \in Nat
<1>1. Newer(i) \in SUBSET Segments
  BY DEF Newer
<1> QED
  BY <1>1, FS_Subset, FS_CardinalityType DEF AuditTypes

(* An expired segment is not retained.                                     *)
LEMMA ExpiredIsNotRetained ==
  ASSUME AuditTypes, NEW i \in Segments
  PROVE  i \in Retained(Segments) <=> ~Expired(i)
<1>1. i \in Retained(Segments) <=> Cardinality(Newer(i)) < MaxSegments
  BY DEF Retained, Newer
<1> QED
  BY <1>1, NewerFinite, AuditAssumption DEF Expired

(* A segment more or an expired one less leaves expired what was so.       *)
LEMMA StaysExpired ==
  ASSUME AuditTypes, AuditTypes',
         NEW k \in Nat,
         \/ Segments' = Segments
         \/ Segments' = Segments \cup {k}
         \/ Segments' = Segments \ {k} /\ Expired(k)
  PROVE  \A i \in Nat : Expired(i) => Expired(i)'
<1> SUFFICES ASSUME NEW i \in Nat, Expired(i) PROVE Expired(i)'
  OBVIOUS
<1>1. /\ IsFiniteSet(Newer(i)) /\ Cardinality(Newer(i)) \in Nat
      /\ Cardinality(Newer(k)) \in Nat
  BY NewerFinite
<1>2. IsFiniteSet(Newer(i)') /\ Cardinality(Newer(i)') \in Nat
  <2>1. Newer(i)' \in SUBSET Segments'
    BY DEF Newer
  <2> QED
    BY <2>1, FS_Subset, FS_CardinalityType DEF AuditTypes
<1>3. CASE Newer(i) \in SUBSET Newer(i)'
  <2>1. Cardinality(Newer(i)) <= Cardinality(Newer(i)')
    BY <1>2, <1>3, FS_Subset
  <2> QED
    BY <1>1, <1>2, <2>1, AuditAssumption DEF Expired
<1>4. CASE Segments' = Segments \ {k} /\ Expired(k) /\ k > i
  <2>1. Newer(k) \in SUBSET Newer(i)'
    <3>1. \A j \in Segments : j > k => j # k /\ j > i
      BY <1>4 DEF AuditTypes
    <3> QED
      BY <1>4, <3>1 DEF Newer
  <2>2. Cardinality(Newer(k)) <= Cardinality(Newer(i)')
    BY <1>2, <2>1, FS_Subset
  <2> QED
    BY <1>1, <1>2, <1>4, <2>2, AuditAssumption DEF Expired
<1>5. CASE Segments' = Segments \ {k} /\ ~(k > i)
  <2>1. Newer(i) \in SUBSET Newer(i)'
    BY <1>5 DEF Newer
  <2> QED
    BY <1>3, <2>1
<1>6. CASE Segments' = Segments \/ Segments' = Segments \cup {k}
  <2>1. Newer(i) \in SUBSET Newer(i)'
    BY <1>6 DEF Newer
  <2> QED
    BY <1>3, <2>1
<1> QED
  BY <1>4, <1>5, <1>6

(* What the others have begun is not hurt by a step of p that takes no     *)
(* event off the record and leaves expired what was so.                    *)
LEMMA LoggersStaySound ==
  ASSUME AuditInv, NEW p \in Loggers, logger' \in [Loggers -> LoggerStates],
         \A q \in Loggers \ {p} : At(q)' = At(q),
         OnRecord \subseteq OnRecord',
         \A i \in Nat : Expired(i) => Expired(i)',
         At(p)'.pc = "signing" => At(p)'.event \in OnRecord',
         At(p)'.pc = "rotating" /\ p \notin crossed' => Whole(file', checkpoint') /\ Alone(p)',
         At(p)'.pc = "removing" => \A i \in At(p)'.left : Expired(i)',
         \A q \in Loggers \ {p} : At(q).pc = "rotating" /\ q \notin crossed' =>
            /\ q \notin crossed /\ UNCHANGED <<file, checkpoint>>
            /\ ~Busy(p) => ~Busy(p)'
  PROVE  LoggersSound'
<1>1. ASSUME NEW q \in Loggers \ {p}, At(q)'.pc = "signing"
      PROVE  At(q)'.event \in OnRecord'
  BY <1>1 DEF AuditInv, LoggersSound
<1>2. ASSUME NEW q \in Loggers \ {p}, At(q)'.pc = "rotating", q \notin crossed'
      PROVE  Whole(file', checkpoint') /\ Alone(q)'
  <2>1. /\ At(q).pc = "rotating" /\ q \notin crossed /\ UNCHANGED <<file, checkpoint>>
        /\ ~Busy(p) => ~Busy(p)'
    BY <1>2
  <2>2. Whole(file, checkpoint) /\ Alone(q)
    BY <2>1 DEF AuditInv, LoggersSound
  <2>3. ~Busy(p)'
    BY <2>1, <2>2 DEF Alone
  <2>4. \A r \in Loggers \ {q} : ~Busy(r)'
    BY <2>2, <2>3 DEF Alone, Busy
  <2> QED
    BY <2>1, <2>2, <2>4 DEF Alone
<1>3. ASSUME NEW q \in Loggers \ {p}, At(q)'.pc = "removing", NEW i \in At(q)'.left
      PROVE  Expired(i)'
  <2>1. At(q)' = At(q) /\ Expired(i)
    BY <1>3 DEF AuditInv, LoggersSound
  <2>2. At(q) \in Removing
    BY <1>3, <2>1, LoggerKnown, StateShapes
  <2>3. i \in Nat
    BY <1>3, <2>1, <2>2 DEF Removing
  <2> QED
    BY <2>1, <2>3
<1> QED
  BY <1>1, <1>2, <1>3 DEF LoggersSound

(* What a step leaves to be shown when it changes no record.               *)
LEMMA RecordsRest ==
  ASSUME AuditInv, UNCHANGED <<file, archive, pruned>>
  PROVE  /\ Segments' = Segments /\ OnRecord' = OnRecord
         /\ \A i : Expired(i)' <=> Expired(i)
         /\ SegmentsSound'
<1>1. Segments' = Segments
  BY DEF Segments
<1>2. OnRecord' = OnRecord
  BY <1>1 DEF OnRecord, EventsOf
<1>3. \A i : Expired(i)' <=> Expired(i)
  BY <1>1 DEF Expired, Newer
<1>4. SegmentsSound'
  BY <1>1, <1>3 DEF AuditInv, SegmentsSound, EventsOf
<1> QED
  BY <1>1, <1>2, <1>3, <1>4

LEMMA VerifyStep ==
  ASSUME AuditInv, NEW p \in Loggers, NEW e \in AuditEvents, Verify(p, e)
  PROVE  AuditInv'
<1> DEFINE begun == [pc |-> "appending", event |-> e, records |-> file]
<1>1. /\ At(p).pc = "idle" /\ crossed' = crossed \cup Rotating
      /\ UNCHANGED <<file, checkpoint, archive, pruned, committed>>
      /\ \/ logger' = [logger EXCEPT ![p] = begun]
         \/ logger' = [logger EXCEPT ![p] = Resting]
  BY DEF Verify, Rests
<1>2. begun \in LoggerStates /\ begun.pc = "appending"
  BY DEF AuditInv, AuditTypes, LoggerStates, Emitting
<1> HIDE DEF begun
<1>3. PICK x \in {begun, Resting} :
        /\ logger' \in [Loggers -> LoggerStates]
        /\ At(p)' = x
        /\ \A q \in Loggers \ {p} : At(q)' = At(q)
  BY <1>1, <1>2, RestingType, LoggerMoves DEF AuditInv, AuditTypes
<1>4. At(p)'.pc \in {"appending", "idle"}
  BY <1>2, <1>3, RestingType
<1>5. \A q \in Loggers : At(q).pc = "rotating" => q \in crossed'
  BY <1>1 DEF Rotating
<1>6. LoggersSound'
  BY <1>3, <1>4, <1>5, RecordsRest, <1>1, LoggersStaySound
<1>7. AuditTypes'
  BY <1>1, <1>3, RecordsRest DEF AuditInv, AuditTypes
<1> QED
  BY <1>1, <1>6, <1>7, RecordsRest DEF AuditInv

LEMMA MisreadStep ==
  ASSUME AuditInv, NEW p \in Loggers, NEW e \in AuditEvents, Misread(p, e)
  PROVE  AuditInv'
<1>1. /\ At(p).pc = "idle" /\ crossed' = crossed \cup Rotating
      /\ UNCHANGED <<file, checkpoint, archive, logger, pruned, committed>>
  BY DEF Misread
<1>2. \A q \in Loggers : At(q)' = At(q)
  BY <1>1 DEF At
<1>3. \A q \in Loggers : At(q).pc = "rotating" => q \in crossed'
  BY <1>1 DEF Rotating
<1>4. AuditTypes'
  BY <1>1, RecordsRest DEF AuditInv, AuditTypes
<1>5. LoggersSound'
  BY <1>1, <1>2, <1>3, <1>4, RecordsRest, LoggersStaySound DEF AuditTypes
<1> QED
  BY <1>1, <1>4, <1>5, RecordsRest DEF AuditInv

LEMMA AppendRecordStep ==
  ASSUME AuditInv, NEW p \in Loggers, AppendRecord(p)
  PROVE  AuditInv'
<1> DEFINE r == Record(At(p).event, HashOf(At(p).records))
           signing == [At(p) EXCEPT !.pc = "signing"]
<1>1. /\ At(p).pc = "appending" /\ file' = Append(file, r)
      /\ UNCHANGED <<archive, checkpoint, committed, pruned, crossed>>
  BY DEF AppendRecord
<1>2. At(p) \in Emitting
  BY <1>1, LoggerKnown, StateShapes
<1>3. signing \in LoggerStates /\ signing.pc = "signing" /\ signing.event = At(p).event
  BY <1>2 DEF LoggerStates, Emitting
<1>4. r \in ChainRecords /\ r.event = At(p).event
  BY <1>2, HashType DEF Record, ChainRecords, Emitting
<1>5. logger' = [logger EXCEPT ![p] = signing]
  BY DEF AppendRecord, At
<1> HIDE DEF r, signing
<1>6. /\ logger' \in [Loggers -> LoggerStates]
      /\ At(p)' = signing /\ \A q \in Loggers \ {p} : At(q)' = At(q)
  BY <1>3, <1>5, LoggerMoves DEF AuditInv, AuditTypes
<1>7. EventsOf(file') = EventsOf(file) \cup {At(p).event}
  BY <1>1, <1>4, EventsAppended DEF AuditInv, AuditTypes
<1>8. Segments' = Segments
  BY <1>1 DEF Segments
<1>9. OnRecord' = OnRecord \cup {At(p).event}
  <2>1. (UNION {EventsOf(archive[i].records) : i \in Segments})' = UNION {EventsOf(archive[i].records) : i \in Segments}
    BY <1>1, <1>8 DEF EventsOf
  <2>2. EventsOf(file)' = EventsOf(file')
    BY DEF EventsOf
  <2> QED
    BY <1>1, <1>7, <2>1, <2>2 DEF OnRecord
<1>10. AuditTypes'
  <2>1. file' \in Seq(ChainRecords)
    BY <1>1, <1>4 DEF AuditInv, AuditTypes
  <2> QED
    BY <1>1, <1>6, <1>8, <2>1 DEF AuditInv, AuditTypes
<1>11. \A i : Expired(i)' <=> Expired(i)
  BY <1>8 DEF Expired, Newer
<1>12. SegmentsSound'
  BY <1>1, <1>8, <1>11 DEF AuditInv, SegmentsSound, EventsOf
<1>13. \A q \in Loggers \ {p} : At(q).pc = "rotating" => q \in crossed
  BY <1>1 DEF AuditInv, LoggersSound, Alone, Busy
<1>14. LoggersSound'
  BY <1>1, <1>3, <1>6, <1>9, <1>11, <1>13, LoggersStaySound
<1> QED
  BY <1>1, <1>9, <1>10, <1>12, <1>14 DEF AuditInv

LEMMA WriteCheckpointStep ==
  ASSUME AuditInv, NEW p \in Loggers, WriteCheckpoint(p)
  PROVE  AuditInv'
<1> DEFINE own == Record(At(p).event, HashOf(At(p).records))
<1>1. /\ At(p).pc = "signing" /\ UNCHANGED <<file, archive, pruned, crossed>>
      /\ logger' = [logger EXCEPT ![p] = Resting]
      /\ \/ UNCHANGED <<checkpoint, committed>>
         \/ /\ checkpoint' = CheckpointOf(Append(At(p).records, own))
            /\ committed' = committed \cup {At(p).event}
  BY DEF WriteCheckpoint, Rests
<1>2. At(p) \in Emitting
  BY <1>1, LoggerKnown, StateShapes
<1>3. Append(At(p).records, own) \in Seq(ChainRecords)
  <2>1. own \in ChainRecords
    BY <1>2, HashType DEF Record, ChainRecords, Emitting
  <2>2. At(p).records \in Seq(ChainRecords)
    BY <1>2 DEF Emitting
  <2> HIDE DEF own, ChainRecords
  <2> QED
    BY <2>1, <2>2
<1> HIDE DEF own
<1>4. checkpoint' \in Checkpoints
  BY <1>1, <1>3, CheckpointType DEF AuditInv, AuditTypes
<1>5. /\ logger' \in [Loggers -> LoggerStates]
      /\ At(p)' = Resting /\ \A q \in Loggers \ {p} : At(q)' = At(q)
  BY <1>1, RestingType, LoggerMoves DEF AuditInv, AuditTypes
<1>6. At(p).event \in OnRecord
  BY <1>1 DEF AuditInv, LoggersSound
<1>7. \A q \in Loggers \ {p} : At(q).pc = "rotating" => q \in crossed
  BY <1>1 DEF AuditInv, LoggersSound, Alone, Busy
<1>8. LoggersSound'
  BY <1>1, <1>5, <1>7, RestingType, RecordsRest, LoggersStaySound
<1>9. AuditTypes'
  BY <1>1, <1>4, <1>5, RecordsRest DEF AuditInv, AuditTypes
<1> QED
  BY <1>1, <1>6, <1>8, <1>9, RecordsRest DEF AuditInv

LEMMA CrashStep ==
  ASSUME AuditInv, NEW p \in Loggers, Crash(p)
  PROVE  AuditInv'
<1>1. /\ logger' = [logger EXCEPT ![p] = Resting]
      /\ UNCHANGED <<file, checkpoint, archive, committed, pruned, crossed>>
  BY DEF Crash, Rests
<1>2. /\ logger' \in [Loggers -> LoggerStates]
      /\ At(p)' = Resting /\ \A q \in Loggers \ {p} : At(q)' = At(q)
  BY <1>1, RestingType, LoggerMoves DEF AuditInv, AuditTypes
<1>3. ~Busy(p)'
  BY <1>2, RestingType DEF Busy
<1>4. LoggersSound'
  BY <1>1, <1>2, <1>3, RestingType, RecordsRest, LoggersStaySound
<1>5. AuditTypes'
  BY <1>1, <1>2, RecordsRest DEF AuditInv, AuditTypes
<1> QED
  BY <1>1, <1>4, <1>5, RecordsRest DEF AuditInv

LEMMA NextIndexType ==
  ASSUME AuditTypes
  PROVE  NextIndex \in Nat
<1>1. CASE Segments = {}
  BY <1>1 DEF NextIndex
<1>2. CASE Segments # {}
  <2>1. PICK n \in Nat : \A i \in Segments : i <= n
    BY DEF AuditTypes
  <2>2. Max(Segments) \in Nat
    BY <1>2, <2>1, LargestOf DEF AuditTypes
  <2> QED
    BY <1>2, <2>2 DEF NextIndex
<1> QED
  BY <1>1, <1>2

LEMMA StartRotationStep ==
  ASSUME AuditInv, NEW p \in Loggers, StartRotation(p)
  PROVE  AuditInv'
<1> DEFINE begun == [pc |-> "rotating", index |-> NextIndex]
<1>1. /\ At(p).pc = "idle" /\ file # <<>> /\ Verified(file, checkpoint)
      /\ logger' = [logger EXCEPT ![p] = begun]
      /\ crossed' = (crossed \ {p}) \cup Rotating \cup (IF Alone(p) THEN {} ELSE {p})
      /\ UNCHANGED <<file, checkpoint, archive, committed, pruned>>
  BY DEF StartRotation
<1>2. begun \in LoggerStates /\ begun.pc = "rotating"
  BY NextIndexType DEF AuditInv, LoggerStates, Moving
<1> HIDE DEF begun
<1>3. /\ logger' \in [Loggers -> LoggerStates]
      /\ At(p)' = begun /\ \A q \in Loggers \ {p} : At(q)' = At(q)
  BY <1>1, <1>2, LoggerMoves DEF AuditInv, AuditTypes
<1>4. \A q \in Loggers \ {p} : At(q).pc = "rotating" => q \in crossed'
  BY <1>1 DEF Rotating
<1>5. p \notin crossed' => Whole(file', checkpoint') /\ Alone(p)'
  <2> SUFFICES ASSUME p \notin crossed' PROVE Whole(file', checkpoint') /\ Alone(p)'
    OBVIOUS
  <2>1. Alone(p)
    BY <1>1
  <2>2. Alone(p)'
    BY <1>3, <2>1 DEF Alone, Busy
  <2> QED
    BY <1>1, <2>2, VerifiedIsWhole
<1>6. LoggersSound'
  BY <1>1, <1>2, <1>3, <1>4, <1>5, RecordsRest, LoggersStaySound
<1>7. AuditTypes'
  BY <1>1, <1>3, RecordsRest DEF AuditInv, AuditTypes
<1> QED
  BY <1>1, <1>6, <1>7, RecordsRest DEF AuditInv

(* The directory becomes a segment, whole if nobody overlapped.            *)
LEMMA ReplaceDirectoryStep ==
  ASSUME AuditInv, NEW p \in Loggers, ReplaceDirectory(p)
  PROVE  AuditInv'
<1> DEFINE n == At(p).index
           moved == [records |-> file, signed |-> checkpoint, half |-> FALSE, alone |-> p \notin crossed]
           listing == [pc |-> "listing"]
<1>1. At(p).pc = "rotating" /\ UNCHANGED <<committed, pruned, crossed>>
  BY DEF ReplaceDirectory
<1>2. n \in Nat
  BY <1>1, LoggerKnown, StateShapes DEF Moving
<1>3. \A q \in Loggers \ {p} : At(q).pc = "rotating" => q \in crossed
  BY <1>1 DEF AuditInv, LoggersSound, Alone, Busy
<1>4. CASE file = <<>> \/ n \in Segments
  <2>1. logger' = [logger EXCEPT ![p] = Resting] /\ UNCHANGED <<file, checkpoint, archive>>
    BY <1>4 DEF ReplaceDirectory, Rests
  <2>2. /\ logger' \in [Loggers -> LoggerStates]
        /\ At(p)' = Resting /\ \A q \in Loggers \ {p} : At(q)' = At(q)
    BY <2>1, RestingType, LoggerMoves DEF AuditInv, AuditTypes
  <2>3. LoggersSound'
    BY <1>1, <1>3, <2>1, <2>2, RestingType, RecordsRest, LoggersStaySound
  <2>4. AuditTypes'
    BY <1>1, <2>1, <2>2, RecordsRest DEF AuditInv, AuditTypes
  <2> QED
    BY <1>1, <2>1, <2>3, <2>4, RecordsRest DEF AuditInv
<1>5. CASE ~(file = <<>> \/ n \in Segments)
  <2>1. /\ archive' = [i \in Segments \cup {n} |-> IF i # n THEN archive[i] ELSE moved]
        /\ file' = <<>> /\ checkpoint' = NoCheckpoint
        /\ logger' = [logger EXCEPT ![p] = listing]
    BY <1>5 DEF ReplaceDirectory
  <2>2. listing \in LoggerStates /\ listing.pc = "listing"
    BY DEF LoggerStates
  <2>3. moved \in SegmentRecords
    BY DEF AuditInv, AuditTypes, SegmentRecords
  <2>4. /\ moved.records = file /\ moved.signed = checkpoint /\ moved.half = FALSE
        /\ moved.alone => Whole(file, checkpoint)
    BY <1>1 DEF AuditInv, LoggersSound
  <2> HIDE DEF n, moved, listing
  <2>5. /\ logger' \in [Loggers -> LoggerStates]
        /\ At(p)' = listing /\ \A q \in Loggers \ {p} : At(q)' = At(q)
    BY <2>1, <2>2, LoggerMoves DEF AuditInv, AuditTypes
  <2>6. /\ Segments' = Segments \cup {n} /\ archive'[n] = moved
        /\ \A i \in Segments : archive'[i] = archive[i]
    BY <1>5, <2>1 DEF Segments
  <2>7. archive' \in [Segments' -> SegmentRecords]
    <3>1. \A i \in Segments' : archive'[i] \in SegmentRecords
      BY <2>3, <2>6 DEF AuditInv, AuditTypes
    <3>2. archive' = [i \in Segments' |-> archive'[i]]
      BY <2>1, <2>6
    <3> QED
      BY <3>1, <3>2
  <2>8. AuditTypes'
    <3>1. Segments' \subseteq Nat /\ IsFiniteSet(Segments')
      BY <1>2, <2>6, FS_AddElement DEF AuditInv, AuditTypes
    <3>2. \E m \in Nat : \A i \in Segments' : i <= m
      <4>1. PICK m \in Nat : \A i \in Segments : i <= m
        BY DEF AuditInv, AuditTypes
      <4>2. \A i \in Segments' : i <= m + n
        BY <1>2, <2>6, <3>1, <4>1
      <4> QED
        BY <1>2, <4>2
    <3>3. file' \in Seq(ChainRecords) /\ checkpoint' \in Checkpoints
      BY <2>1 DEF NoCheckpoint, Checkpoints, Genesis
    <3> QED
      BY <2>5, <2>7, <3>1, <3>2, <3>3 DEF AuditTypes
  <2>9. \A i \in Nat : Expired(i) => Expired(i)'
    BY <1>2, <2>6, <2>8, StaysExpired DEF AuditInv
  <2>10. OnRecord \subseteq OnRecord'
    <3> SUFFICES ASSUME NEW e \in OnRecord PROVE e \in OnRecord'
      OBVIOUS
    <3>1. \A i : EventsOf(archive'[i].records) = EventsOf(archive[i].records)'
      BY DEF EventsOf
    <3>2. \A i \in Segments' : EventsOf(archive'[i].records) \subseteq OnRecord'
      BY <3>1 DEF OnRecord
    <3>3. CASE e \in EventsOf(file)
      BY <2>4, <2>6, <3>2, <3>3
    <3>4. CASE e \in pruned
      BY <1>1, <3>4 DEF OnRecord
    <3>5. CASE \E i \in Segments : e \in EventsOf(archive[i].records)
      BY <2>6, <3>2, <3>5
    <3> QED
      BY <3>3, <3>4, <3>5 DEF OnRecord
  <2>11. SegmentsSound'
    <3>1. ASSUME NEW i \in Segments
          PROVE  /\ archive'[i].alone => Whole(archive'[i].records, archive'[i].signed)
                 /\ archive'[i].half => Expired(i)' /\ EventsOf(archive'[i].records) \subseteq pruned'
      <4>1. i \in Nat
        BY DEF AuditInv, AuditTypes
      <4> QED
        BY <1>1, <2>6, <2>9, <4>1 DEF AuditInv, SegmentsSound
    <3>2. \A i \in Segments' :
            /\ archive'[i].alone => Whole(archive'[i].records, archive'[i].signed)
            /\ archive'[i].half => Expired(i)' /\ EventsOf(archive'[i].records) \subseteq pruned'
      BY <2>4, <2>6, <3>1
    <3> QED
      BY <3>2 DEF SegmentsSound, Whole, EventsOf, Chained, CheckpointOf, HashOf
  <2>12. LoggersSound'
    BY <1>1, <1>3, <2>2, <2>5, <2>9, <2>10, LoggersStaySound
  <2> QED
    BY <1>1, <2>8, <2>10, <2>11, <2>12 DEF AuditInv
<1> QED
  BY <1>4, <1>5

LEMMA ListExpiredStep ==
  ASSUME AuditInv, NEW p \in Loggers, ListExpired(p)
  PROVE  AuditInv'
<1> DEFINE expired == Segments \ Retained(Segments)
           x == IF expired = {} THEN Resting ELSE [pc |-> "removing", left |-> expired]
<1>1. /\ At(p).pc = "listing" /\ logger' = [logger EXCEPT ![p] = x]
      /\ UNCHANGED <<file, checkpoint, archive, committed, pruned, crossed>>
  BY DEF ListExpired, Rests
<1>2. \A i \in expired : Expired(i)
  BY ExpiredIsNotRetained DEF AuditInv
<1>3. expired \subseteq Nat
  BY DEF AuditInv, AuditTypes
<1> HIDE DEF expired
<1>4. /\ x \in LoggerStates /\ x.pc \in {"idle", "removing"}
      /\ x.pc = "removing" => x.left = expired
  <2>1. CASE expired = {}
    BY <2>1, RestingType
  <2>2. CASE expired # {}
    <3>1. expired \in (SUBSET Nat) \ {{}}
      BY <1>3, <2>2
    <3>2. [pc |-> "removing", left |-> expired] \in Removing
      BY <3>1 DEF Removing
    <3> QED
      BY <2>2, <3>2 DEF LoggerStates
  <2> QED
    BY <2>1, <2>2
<1> HIDE DEF x
<1>5. /\ logger' \in [Loggers -> LoggerStates]
      /\ At(p)' = x /\ \A q \in Loggers \ {p} : At(q)' = At(q)
  BY <1>1, <1>4, LoggerMoves DEF AuditInv, AuditTypes
<1>6. ~Busy(p)'
  BY <1>4, <1>5 DEF Busy
<1>7. LoggersSound'
  BY <1>1, <1>2, <1>4, <1>5, <1>6, RecordsRest, LoggersStaySound
<1>8. AuditTypes'
  BY <1>1, <1>5, RecordsRest DEF AuditInv, AuditTypes
<1> QED
  BY <1>1, <1>7, <1>8, RecordsRest DEF AuditInv

(* rmtree: what goes is expired, and its events count as pruned first.     *)
LEMMA RemoveSegmentStep ==
  ASSUME AuditInv, NEW p \in Loggers, RemoveSegment(p)
  PROVE  AuditInv'
<1> DEFINE i == Min(At(p).left)
           fewer == [At(p) EXCEPT !.left = @ \ {i}]
<1>1. At(p).pc = "removing" /\ UNCHANGED <<file, checkpoint, committed, crossed>>
  BY DEF RemoveSegment
<1>2. At(p) \in Removing
  BY <1>1, LoggerKnown, StateShapes
<1>3. i \in At(p).left /\ i \in Nat /\ \A k \in At(p).left : k \in Nat /\ Expired(k)
  <2>1. At(p).left \in SUBSET Nat /\ At(p).left # {}
    <3>1. At(p).left \in (SUBSET Nat) \ {{}}
      BY <1>2 DEF Removing
    <3> QED
      BY <3>1
  <2>2. i \in At(p).left
    BY <2>1, SmallestOf DEF Min
  <2> QED
    BY <1>1, <2>1, <2>2 DEF AuditInv, LoggersSound
<1>4. At(p).left # {i} =>
        fewer \in LoggerStates /\ fewer.pc = "removing" /\ fewer.left = At(p).left \ {i}
  BY <1>2, <1>3 DEF LoggerStates, Removing
<1>5. /\ \/ UNCHANGED logger
         \/ logger' = [logger EXCEPT ![p] = Resting]
         \/ At(p).left # {i} /\ logger' = [logger EXCEPT ![p] = fewer]
      /\ \/ /\ i \in Segments /\ archive' = [archive EXCEPT ![i].half = TRUE]
            /\ pruned' = pruned \cup EventsOf(archive[i].records)
         \/ /\ i \in Segments /\ archive[i].half
            /\ archive' = Restrict(archive, Segments \ {i}) /\ UNCHANGED pruned
         \/ UNCHANGED <<archive, pruned>>
  BY DEF RemoveSegment, Rests, At
<1> HIDE DEF i, fewer
<1>6. /\ logger' \in [Loggers -> LoggerStates]
      /\ At(p)' \in {At(p), Resting, fewer} /\ (At(p)' = fewer => At(p).left # {i} \/ At(p)' \in {At(p), Resting})
      /\ \A q \in Loggers \ {p} : At(q)' = At(q)
  <2>1. CASE UNCHANGED logger
    BY <2>1 DEF AuditInv, AuditTypes, At
  <2>2. CASE logger' = [logger EXCEPT ![p] = Resting]
    BY <2>2, RestingType, LoggerMoves DEF AuditInv, AuditTypes
  <2>3. CASE At(p).left # {i} /\ logger' = [logger EXCEPT ![p] = fewer]
    BY <1>4, <2>3, LoggerMoves DEF AuditInv, AuditTypes
  <2> QED
    BY <1>5, <2>1, <2>2, <2>3
<1>7. /\ At(p)'.pc \in {"idle", "removing"}
      /\ At(p)'.pc = "removing" => At(p)'.left \subseteq At(p).left
  BY <1>1, <1>4, <1>6, RestingType
<1>8. ~Busy(p)'
  BY <1>7 DEF Busy
<1>9. \A q \in Loggers \ {p} : At(q).pc = "rotating" /\ q \notin crossed' =>
        q \notin crossed /\ UNCHANGED <<file, checkpoint>> /\ (~Busy(p) => ~Busy(p)')
  BY <1>1, <1>8
<1>10. ASSUME AuditTypes', OnRecord \subseteq OnRecord', SegmentsSound',
              \A k \in Nat : Expired(k) => Expired(k)'
       PROVE  AuditInv'
  <2>1. At(p)'.pc = "removing" => \A k \in At(p)'.left : Expired(k)'
    BY <1>3, <1>7, <1>10
  <2>2. LoggersSound'
    BY <1>6, <1>7, <1>9, <1>10, <2>1, LoggersStaySound
  <2> QED
    BY <1>1, <1>10, <2>2 DEF AuditInv
<1>11. CASE /\ i \in Segments /\ archive' = [archive EXCEPT ![i].half = TRUE]
            /\ pruned' = pruned \cup EventsOf(archive[i].records)
  <2> DEFINE halved == [archive[i] EXCEPT !.half = TRUE]
  <2>1. archive[i] \in SegmentRecords
    BY <1>11 DEF AuditInv, AuditTypes
  <2>2. /\ halved \in SegmentRecords /\ halved.records = archive[i].records
        /\ halved.signed = archive[i].signed /\ halved.alone = archive[i].alone
    BY <2>1 DEF SegmentRecords
  <2>3. archive' = [archive EXCEPT ![i] = halved]
    BY <1>11
  <2> HIDE DEF halved
  <2>4. /\ Segments' = Segments /\ archive'[i] = halved
        /\ \A k \in Segments \ {i} : archive'[k] = archive[k]
        /\ archive' \in [Segments -> SegmentRecords]
    BY <1>11, <2>2, <2>3 DEF Segments, AuditInv, AuditTypes
  <2>5. \A k \in Segments : /\ archive'[k].records = archive[k].records
                            /\ archive'[k].signed = archive[k].signed
                            /\ archive'[k].alone = archive[k].alone
    BY <2>2, <2>4
  <2>6. AuditTypes'
    BY <1>1, <1>6, <2>4 DEF AuditInv, AuditTypes
  <2>7. \A k : Expired(k)' <=> Expired(k)
    BY <2>4 DEF Expired, Newer
  <2>8. SegmentsSound'
    <3>1. ASSUME NEW k \in Segments
          PROVE  /\ archive'[k].alone => Whole(archive'[k].records, archive'[k].signed)
                 /\ archive'[k].half => Expired(k) /\ EventsOf(archive'[k].records) \subseteq pruned'
      BY <1>3, <1>11, <2>4, <2>5 DEF AuditInv, SegmentsSound
    <3> QED
      BY <2>4, <2>7, <3>1 DEF SegmentsSound, Whole, EventsOf, Chained, CheckpointOf, HashOf
  <2>9. OnRecord \subseteq OnRecord'
    <3>1. \A k \in Segments : EventsOf(archive[k].records)' = EventsOf(archive[k].records)
      BY <2>5 DEF EventsOf
    <3>2. EventsOf(file)' = EventsOf(file)
      BY <1>1 DEF EventsOf
    <3> QED
      BY <1>11, <2>4, <3>1, <3>2 DEF OnRecord
  <2> QED
    BY <1>10, <2>6, <2>7, <2>8, <2>9
<1>12. CASE /\ i \in Segments /\ archive[i].half
            /\ archive' = Restrict(archive, Segments \ {i}) /\ UNCHANGED pruned
  <2>1. /\ Segments' = Segments \ {i} /\ \A k \in Segments' : archive'[k] = archive[k]
        /\ archive' = [k \in Segments' |-> archive[k]]
    BY <1>12 DEF Segments, Restrict
  <2>2. AuditTypes'
    <3>1. Segments' \subseteq Nat /\ IsFiniteSet(Segments') /\ \E m \in Nat : \A k \in Segments' : k <= m
      BY <2>1, FS_Subset DEF AuditInv, AuditTypes
    <3>2. archive' \in [Segments' -> SegmentRecords]
      BY <2>1 DEF AuditInv, AuditTypes
    <3> QED
      BY <1>1, <1>6, <3>1, <3>2 DEF AuditInv, AuditTypes
  <2>3. \A k \in Nat : Expired(k) => Expired(k)'
    BY <1>3, <2>1, <2>2, StaysExpired DEF AuditInv
  <2>4. SegmentsSound'
    <3>1. ASSUME NEW k \in Segments'
          PROVE  /\ archive'[k].alone => Whole(archive'[k].records, archive'[k].signed)
                 /\ archive'[k].half => Expired(k)' /\ EventsOf(archive'[k].records) \subseteq pruned'
      <4>1. k \in Segments /\ k \in Nat
        BY <2>1 DEF AuditInv, AuditTypes
      <4> QED
        BY <1>12, <2>1, <2>3, <4>1 DEF AuditInv, SegmentsSound
    <3> QED
      BY <3>1 DEF SegmentsSound, Whole, EventsOf, Chained, CheckpointOf, HashOf
  <2>5. OnRecord \subseteq OnRecord'
    <3> SUFFICES ASSUME NEW e \in OnRecord PROVE e \in OnRecord'
      OBVIOUS
    <3>1. \A k : EventsOf(archive'[k].records) = EventsOf(archive[k].records)'
      BY DEF EventsOf
    <3>2. \A k \in Segments' : EventsOf(archive[k].records) \subseteq OnRecord'
      BY <2>1, <3>1 DEF OnRecord
    <3>3. EventsOf(file)' = EventsOf(file)
      BY <1>1 DEF EventsOf
    <3>4. EventsOf(archive[i].records) \subseteq pruned
      BY <1>12 DEF AuditInv, SegmentsSound
    <3>5. pruned \subseteq OnRecord' /\ EventsOf(file) \subseteq OnRecord'
      BY <1>12, <3>3 DEF OnRecord
    <3>6. e \in EventsOf(file) \/ e \in pruned \/ \E k \in Segments : e \in EventsOf(archive[k].records)
      BY DEF OnRecord
    <3> QED
      BY <2>1, <3>2, <3>4, <3>5, <3>6
  <2> QED
    BY <1>10, <2>2, <2>3, <2>4, <2>5
<1>13. CASE UNCHANGED <<archive, pruned>>
  <2>1. AuditTypes'
    BY <1>1, <1>6, <1>13, RecordsRest DEF AuditInv, AuditTypes
  <2> QED
    BY <1>1, <1>10, <1>13, <2>1, RecordsRest
<1> QED
  BY <1>5, <1>11, <1>12, <1>13

LEMMA AuditInitInv == AuditInit => AuditInv
<1> SUFFICES ASSUME AuditInit PROVE AuditInv
  OBVIOUS
<1>1. Segments = {} /\ file = <<>> /\ committed = {} /\ archive \in [{} -> SegmentRecords]
  BY DEF AuditInit, Segments
<1>2. \A p \in Loggers : At(p) = Resting
  BY DEF AuditInit, At
<1>3. LoggersSound /\ SegmentsSound
  BY <1>1, <1>2 DEF LoggersSound, SegmentsSound, Resting
<1>4. AuditTypes
  BY <1>1, FS_EmptySet DEF AuditInit, AuditTypes, LoggerStates, NoCheckpoint, Checkpoints, Genesis
<1> QED
  BY <1>1, <1>3, <1>4 DEF AuditInv

LEMMA AuditNextInv == AuditInv /\ [AuditNext]_audit => AuditInv'
<1> SUFFICES ASSUME AuditInv, [AuditNext]_audit PROVE AuditInv'
  OBVIOUS
<1>1. CASE AuditNext
  BY <1>1, VerifyStep, MisreadStep, AppendRecordStep, WriteCheckpointStep, StartRotationStep,
     ReplaceDirectoryStep, ListExpiredStep, RemoveSegmentStep, CrashStep DEF AuditNext
<1>2. CASE UNCHANGED audit
  <2>1. UNCHANGED <<file, checkpoint, archive, pruned, committed, logger, crossed>>
    BY <1>2 DEF audit
  <2>2. AuditTypes'
    BY <2>1, RecordsRest DEF AuditInv, AuditTypes
  <2>3. LoggersSound'
    BY <2>1, RecordsRest DEF AuditInv, LoggersSound, At, Alone, Busy, Whole, Chained, CheckpointOf, HashOf
  <2> QED
    BY <2>1, <2>2, <2>3, RecordsRest DEF AuditInv
<1> QED
  BY <1>1, <1>2

(* secure_audit.py, retention.py: what an emitter was told is committed    *)
(* is in the ledger, a segment or among what retention removes, and every  *)
(* segment that no other process overlapped is a whole verified chain, for *)
(* any processes and events and any number of segments kept.               *)
THEOREM AuditIsKeptHolds == AuditSpec => []AuditIsKept
<1>1. AuditInv => AuditIsKept
  <2> SUFFICES ASSUME AuditInv PROVE AuditIsKept
    OBVIOUS
  <2>1. NothingCommittedIsLost
    BY DEF AuditInv, OnRecord, NothingCommittedIsLost
  <2>2. SegmentsAreWhole
    BY ExpiredIsNotRetained DEF AuditInv, SegmentsSound, SegmentsAreWhole, Whole
  <2> QED
    BY <2>1, <2>2 DEF AuditIsKept
<1> QED
  BY AuditInitInv, AuditNextInv, <1>1, PTL DEF AuditSpec

-----------------------------------------------------------------------------
(* Residency.  An inventory is a list of resident sections, each key once. *)
Resident == [key : Sections, pinned : BOOLEAN]
InventorySound(s) ==
  /\ s \in Seq(Resident)
  /\ \A i, j \in DOMAIN s : s[i].key = s[j].key => i = j

LEMMA InventoryFacts ==
  ASSUME NEW s, InventorySound(s)
  PROVE  /\ DOMAIN s = 1..Len(s) /\ Len(s) \in Nat
         /\ Keys(s) \subseteq Sections /\ IsFiniteSet(Keys(s))
         /\ Entries(s) \subseteq Resident
         /\ \A e, o \in Entries(s) : e.key = o.key => e = o
         /\ \A k \in Keys(s) : Position(s, k) \in DOMAIN s /\ s[Position(s, k)].key = k
         /\ \A i \in DOMAIN s : Position(s, s[i].key) = i
         /\ Cardinality(Keys(s)) = Len(s)
         /\ Used(s) \in Nat
<1>1. DOMAIN s = 1..Len(s) /\ Len(s) \in Nat /\ \A i \in 1..Len(s) : s[i] \in Resident
  BY DEF InventorySound
<1>2. Entries(s) = {s[i] : i \in 1..Len(s)} /\ Keys(s) = {s[i].key : i \in 1..Len(s)}
  BY <1>1 DEF Entries, Keys
<1>3. Keys(s) \subseteq Sections /\ Entries(s) \subseteq Resident
  BY <1>1, <1>2 DEF Resident
<1>4. IsFiniteSet(Keys(s))
  BY <1>3, SectionsAssumption, SubsetFinite
<1>5. \A e, o \in Entries(s) : e.key = o.key => e = o
  BY <1>1, <1>2 DEF InventorySound
<1>6. \A k \in Keys(s) : Position(s, k) \in DOMAIN s /\ s[Position(s, k)].key = k
  BY <1>1, <1>2 DEF Position
<1>7. \A i \in DOMAIN s : Position(s, s[i].key) = i
  BY <1>1, <1>2, <1>6 DEF InventorySound
<1>8. Cardinality(Keys(s)) = Len(s)
  <2> DEFINE f == [i \in 1..Len(s) |-> s[i].key]
  <2>1. f \in Bijection(1..Len(s), Keys(s))
    <3>1. f \in [1..Len(s) -> Keys(s)]
      BY <1>2
    <3>2. \A i, j \in 1..Len(s) : f[i] = f[j] => i = j
      BY <1>1 DEF InventorySound
    <3>3. \A k \in Keys(s) : \E i \in 1..Len(s) : f[i] = k
      BY <1>2
    <3> QED
      BY <3>1, <3>2, <3>3 DEF Bijection, Injection, Surjection, IsInjective
  <2>2. ExistsBijection(1..Len(s), Keys(s))
    BY <2>1 DEF ExistsBijection
  <2> QED
    BY <1>1, <2>2, FS_CountingElements
<1>9. Used(s) \in Nat
  <2>1. \A k \in Keys(s) : TokensOf[k] \in Nat
    BY <1>3, SectionsAssumption
  <2> QED
    BY <1>4, <2>1, SumNat DEF Used
<1> QED
  BY <1>1, <1>3, <1>4, <1>5, <1>6, <1>7, <1>8, <1>9

(* One section taken out: the others stay in their order.                  *)
LEMMA WithoutSectionFacts ==
  ASSUME NEW s, InventorySound(s), NEW k, NEW t, t = Without(s, k)
  PROVE  /\ InventorySound(t)
         /\ Keys(t) = Keys(s) \ {k}
         /\ Entries(t) = {e \in Entries(s) : e.key # k}
         /\ Len(s) > 0 /\ s[Len(s)].key # k => Len(t) > 0 /\ t[Len(t)] = s[Len(s)]
<1>1. CASE k \notin Keys(s)
  <2>1. t = s
    BY <1>1 DEF Without
  <2>2. \A e \in Entries(s) : e.key # k
    BY <1>1 DEF Keys
  <2> QED
    BY <1>1, <2>1, <2>2
<1>2. CASE k \in Keys(s)
  <2> DEFINE p == Position(s, k)
             n == Len(s)
  <2>1. s \in Seq(Resident) /\ n \in Nat /\ p \in 1..n /\ s[p].key = k
    BY <1>2, InventoryFacts DEF InventorySound
  <2>2. t = SubSeq(s, 1, p - 1) \o SubSeq(s, p + 1, n)
    BY <1>2 DEF Without, RemoveAt
  <2> HIDE DEF p, n
  <2>3. n = Len(s)
    BY DEF n
  <2>4. /\ t \in Seq(Resident) /\ Len(t) = n - 1
        /\ \A i \in 1..(n - 1) : t[i] = s[IF i < p THEN i ELSE i + 1]
    <3>1. /\ SubSeq(s, 1, p - 1) \in Seq(Resident) /\ Len(SubSeq(s, 1, p - 1)) = p - 1
          /\ \A i \in 1..(p - 1) : SubSeq(s, 1, p - 1)[i] = s[i]
      BY <2>1, <2>3
    <3>2. /\ SubSeq(s, p + 1, n) \in Seq(Resident) /\ Len(SubSeq(s, p + 1, n)) = n - p
          /\ \A i \in 1..(n - p) : SubSeq(s, p + 1, n)[i] = s[p + i]
      BY <2>1, <2>3
    <3> DEFINE a == SubSeq(s, 1, p - 1)
               b == SubSeq(s, p + 1, n)
    <3> HIDE DEF a, b
    <3>3. /\ a \in Seq(Resident) /\ Len(a) = p - 1 /\ b \in Seq(Resident) /\ Len(b) = n - p
          /\ \A i \in 1..(p - 1) : a[i] = s[i]
          /\ \A i \in 1..(n - p) : b[i] = s[p + i]
      BY <3>1, <3>2 DEF a, b
    <3>4. t = a \o b
      BY <2>2 DEF a, b
    <3>5. t \in Seq(Resident) /\ Len(t) = n - 1
      <4>1. /\ \A x, y \in Seq(Resident) : x \o y \in Seq(Resident)
            /\ \A x, y \in Seq(Resident) : Len(x \o y) = Len(x) + Len(y)
        OBVIOUS
      <4>2. t \in Seq(Resident) /\ Len(t) = Len(a) + Len(b)
        BY <3>3, <3>4, <4>1
      <4> QED
        BY <2>1, <3>3, <4>2
    <3>6. \A i \in 1..(n - 1) : t[i] = IF i < p THEN a[i] ELSE b[i - (p - 1)]
      BY <2>1, <3>3, <3>4
    <3>7. ASSUME NEW i \in 1..(n - 1) PROVE t[i] = s[IF i < p THEN i ELSE i + 1]
      <4>1. CASE i < p
        BY <2>1, <3>3, <3>6, <4>1
      <4>2. CASE ~(i < p)
        <5>1. i - (p - 1) \in 1..(n - p) /\ p + (i - (p - 1)) = i + 1
          BY <2>1, <4>2
        <5> QED
          BY <3>3, <3>6, <4>2, <5>1
      <4> QED
        BY <4>1, <4>2
    <3> QED
      BY <3>5, <3>7
  <2> DEFINE old(i) == IF i < p THEN i ELSE i + 1
  <2>5. /\ \A i \in 1..(n - 1) : old(i) \in 1..n /\ old(i) # p
        /\ \A i, j \in 1..(n - 1) : old(i) = old(j) => i = j
        /\ \A j \in 1..n : j # p => \E i \in 1..(n - 1) : old(i) = j
    <3>1. \A i \in 1..(n - 1) : old(i) \in 1..n /\ old(i) # p
      BY <2>1
    <3>2. \A i, j \in 1..(n - 1) : old(i) = old(j) => i = j
      BY <2>1
    <3>3. ASSUME NEW j \in 1..n, j # p PROVE \E i \in 1..(n - 1) : old(i) = j
      <4>1. CASE j < p
        <5>1. j \in 1..(n - 1) /\ old(j) = j
          BY <2>1, <4>1
        <5> QED
          BY <5>1
      <4>2. CASE j > p
        <5>1. j - 1 \in 1..(n - 1) /\ old(j - 1) = j
          BY <2>1, <4>2
        <5> QED
          BY <5>1
      <4> QED
        BY <2>1, <3>3, <4>1, <4>2
    <3> QED
      BY <3>1, <3>2, <3>3
  <2>6. \A i \in 1..(n - 1) : t[i] = s[old(i)]
    BY <2>4
  <2> HIDE DEF old
  <2>7. DOMAIN s = 1..n /\ DOMAIN t = 1..(n - 1)
    BY <2>1, <2>3, <2>4
  <2>8. InventorySound(t)
    BY <2>4, <2>5, <2>6, <2>7 DEF InventorySound
  <2>9. \A i \in 1..n : i # p => s[i].key # k
    BY <2>1, <2>7 DEF InventorySound
  <2>10. Entries(t) = {e \in Entries(s) : e.key # k}
    <3>1. \A i \in 1..(n - 1) : t[i] \in Entries(s) /\ t[i].key # k
      BY <2>5, <2>6, <2>7, <2>9 DEF Entries
    <3>2. ASSUME NEW e \in Entries(s), e.key # k PROVE e \in Entries(t)
      <4>1. PICK j \in 1..n : e = s[j]
        BY <2>7 DEF Entries
      <4>2. j # p
        BY <2>1, <3>2, <4>1
      <4>3. PICK i \in 1..(n - 1) : old(i) = j
        BY <2>5, <4>2
      <4> QED
        BY <2>6, <2>7, <4>1, <4>3 DEF Entries
    <3>3. \A e \in Entries(t) : \E i \in 1..(n - 1) : e = t[i]
      BY <2>7 DEF Entries
    <3> QED
      BY <3>1, <3>2, <3>3
  <2>11. Keys(t) = Keys(s) \ {k}
    BY <2>10 DEF Keys
  <2>12. ASSUME n > 0, s[n].key # k PROVE Len(t) > 0 /\ t[Len(t)] = s[n]
    <3>1. p # n
      BY <2>1, <2>12
    <3>2. n - 1 \in 1..(n - 1) /\ old(n - 1) = n
      BY <2>1, <3>1 DEF old
    <3> QED
      BY <2>4, <2>6, <3>2
  <2> QED
    BY <2>3, <2>8, <2>10, <2>11, <2>12
<1> QED
  BY <1>1, <1>2

Candidates(s, new) == {e \in Entries(s) : ~e.pinned /\ e.key # new}

(* Somebody is worth the least, and the least recent of those.             *)
LEMMA VictimFacts ==
  ASSUME NEW s, InventorySound(s), NEW new, Candidates(s, new) # {},
         NEW v, v = Victim(s, new)
  PROVE  /\ v \in Candidates(s, new)
         /\ \A k \in Candidates(s, new) : WorthOf[v.key] <= WorthOf[k.key]
<1> DEFINE C == Candidates(s, new)
           FirstToGo(e) == \A o \in C \ {e} :
             \/ WorthOf[e.key] < WorthOf[o.key]
             \/ /\ WorthOf[e.key] = WorthOf[o.key]
                /\ Position(s, e.key) < Position(s, o.key)
<1>1. v = CHOOSE e \in C : FirstToGo(e)
  BY DEF Victim, Candidates
<1>2. \A e \in C : /\ e \in Entries(s) /\ WorthOf[e.key] \in Nat /\ e.key \in Keys(s)
                   /\ Position(s, e.key) \in Nat
  <2> SUFFICES ASSUME NEW e \in C
               PROVE /\ e \in Entries(s) /\ WorthOf[e.key] \in Nat /\ e.key \in Keys(s)
                     /\ Position(s, e.key) \in Nat
    OBVIOUS
  <2>1. e \in Entries(s) /\ e.key \in Keys(s)
    BY DEF Candidates, Keys
  <2>2. e.key \in Sections
    BY <2>1, InventoryFacts
  <2>3. Position(s, e.key) \in Nat
    BY <2>1, InventoryFacts
  <2> QED
    BY <2>1, <2>2, <2>3, SectionsAssumption
<1>3. \A e, o \in C : Position(s, e.key) = Position(s, o.key) => e = o
  <2> SUFFICES ASSUME NEW e \in C, NEW o \in C, Position(s, e.key) = Position(s, o.key)
               PROVE e = o
    OBVIOUS
  <2>1. s[Position(s, e.key)].key = e.key /\ s[Position(s, o.key)].key = o.key
    BY <1>2, InventoryFacts
  <2> QED
    BY <1>2, <2>1, InventoryFacts
<1> HIDE DEF C
<1>4. \E e \in C : FirstToGo(e)
  <2> DEFINE W == {WorthOf[e.key] : e \in C}
  <2>1. W \in SUBSET Nat /\ W # {}
    BY <1>2 DEF C
  <2>2. PICK w \in W : \A x \in W : w <= x
    BY <2>1, SmallestOf
  <2> DEFINE L == {e \in C : WorthOf[e.key] = w}
             Q == {Position(s, e.key) : e \in L}
  <2>3. Q \in SUBSET Nat /\ Q # {}
    BY <1>2
  <2>4. PICK q \in Q : \A x \in Q : q <= x
    BY <2>3, SmallestOf
  <2>5. PICK e \in L : q = Position(s, e.key)
    OBVIOUS
  <2>6. ASSUME NEW o \in C \ {e}
        PROVE \/ WorthOf[e.key] < WorthOf[o.key]
              \/ WorthOf[e.key] = WorthOf[o.key] /\ Position(s, e.key) < Position(s, o.key)
    <3>1. w <= WorthOf[o.key] /\ w \in Nat /\ WorthOf[o.key] \in Nat /\ WorthOf[e.key] = w
      BY <1>2, <2>2
    <3>2. CASE WorthOf[o.key] = w
      <4>1. q <= Position(s, o.key)
        BY <2>4, <3>2
      <4>2. Position(s, e.key) # Position(s, o.key)
        BY <1>3
      <4> QED
        BY <1>2, <2>5, <3>1, <3>2, <4>1, <4>2
    <3> QED
      BY <3>1, <3>2
  <2> QED
    BY <2>6
<1>5. v \in C /\ FirstToGo(v)
  BY <1>1, <1>4, Zenon
<1> QED
  BY <1>2, <1>5 DEF C

LEMMA TouchedFacts ==
  ASSUME NEW s, InventorySound(s), NEW e \in Resident, NEW t, t = Touched(s, e)
  PROVE  /\ InventorySound(t) /\ Len(t) > 0 /\ t[Len(t)] = e
         /\ Entries(t) = {o \in Entries(s) : o.key # e.key} \union {e}
         /\ Keys(t) = Keys(s) \union {e.key}
<1>1. PICK u : u = Without(s, e.key)
  OBVIOUS
<1>2. /\ InventorySound(u) /\ Keys(u) = Keys(s) \ {e.key}
      /\ Entries(u) = {o \in Entries(s) : o.key # e.key}
  BY <1>1, WithoutSectionFacts
<1>3. t = Append(u, e)
  BY <1>1 DEF Touched
<1>4. u \in Seq(Resident)
  BY <1>2 DEF InventorySound
<1>5. /\ t \in Seq(Resident) /\ Len(t) = Len(u) + 1 /\ DOMAIN t = DOMAIN u \union {Len(t)}
      /\ Len(t) \notin DOMAIN u /\ t[Len(t)] = e /\ \A i \in DOMAIN u : t[i] = u[i]
      /\ Len(t) > 0
  BY <1>3, <1>4
<1>6. \A i \in DOMAIN u : u[i].key # e.key
  <2>1. \A i \in DOMAIN u : u[i].key \in Keys(u)
    BY DEF Keys, Entries
  <2> QED
    BY <1>2, <2>1
<1>7. InventorySound(t)
  BY <1>2, <1>5, <1>6 DEF InventorySound
<1>8. Entries(t) = Entries(u) \union {e}
  BY <1>5 DEF Entries
<1>9. Keys(t) = Keys(u) \union {e.key}
  BY <1>8 DEF Keys
<1> QED
  BY <1>2, <1>5, <1>7, <1>8, <1>9

(* What eviction has done so far: the victims are unpinned and worth no    *)
(* more than what could still go, and without the last of them, worth the  *)
(* most, the limit would be exceeded.                                      *)
Evicted(start, new, rest) ==
  /\ InventorySound(rest) /\ Len(rest) > 0 /\ rest[Len(rest)].key = new
  /\ Entries(rest) \subseteq Entries(start)
  /\ \A e \in GoneOf(start, rest) :
       /\ ~e.pinned /\ e.key # new
       /\ \A k \in Candidates(rest, new) : WorthOf[e.key] <= WorthOf[k.key]
  /\ \/ GoneOf(start, rest) = {}
     \/ \E big \in GoneOf(start, rest) :
          /\ Used(rest) + TokensOf[big.key] > TokenLimit
          /\ \A e \in GoneOf(start, rest) : WorthOf[e.key] <= WorthOf[big.key]

LEMMA EvictedStarts ==
  ASSUME NEW s, InventorySound(s), Len(s) > 0, NEW new, s[Len(s)].key = new
  PROVE  Evicted(s, new, s)
<1>1. GoneOf(s, s) = {}
  BY DEF GoneOf, Keys
<1> QED
  BY <1>1 DEF Evicted

LEMMA EvictOne ==
  ASSUME NEW start, InventorySound(start), NEW new, NEW s, Evicted(start, new, s),
         Used(s) > TokenLimit, Candidates(s, new) # {},
         NEW t, t = Without(s, Victim(s, new).key)
  PROVE  Evicted(start, new, t)
<1>1. InventorySound(s) /\ Len(s) > 0 /\ s[Len(s)].key = new /\ Entries(s) \subseteq Entries(start)
  BY DEF Evicted
<1>2. PICK v : v = Victim(s, new)
  OBVIOUS
<1>3. v \in Candidates(s, new) /\ \A k \in Candidates(s, new) : WorthOf[v.key] <= WorthOf[k.key]
  BY <1>1, <1>2, VictimFacts
<1>4. v \in Entries(s) /\ ~v.pinned /\ v.key # new /\ v.key \in Keys(s)
  BY <1>3 DEF Candidates, Keys
<1>5. /\ InventorySound(t) /\ Keys(t) = Keys(s) \ {v.key}
      /\ Entries(t) = {e \in Entries(s) : e.key # v.key}
      /\ Len(t) > 0 /\ t[Len(t)] = s[Len(s)]
  BY <1>1, <1>2, <1>4, WithoutSectionFacts
<1>6. Candidates(t, new) \subseteq Candidates(s, new)
  BY <1>5 DEF Candidates
<1>7. GoneOf(start, t) = GoneOf(start, s) \union {v}
  <2>1. \A e, o \in Entries(start) : e.key = o.key => e = o
    BY InventoryFacts
  <2>2. v \in Entries(start)
    BY <1>1, <1>4
  <2> QED
    BY <1>4, <1>5, <2>1, <2>2 DEF GoneOf
<1>8. \A e \in GoneOf(start, s) :
        /\ ~e.pinned /\ e.key # new
        /\ \A k \in Candidates(s, new) : WorthOf[e.key] <= WorthOf[k.key]
  BY DEF Evicted
<1>9. \A e \in GoneOf(start, t) :
        /\ ~e.pinned /\ e.key # new
        /\ \A k \in Candidates(t, new) : WorthOf[e.key] <= WorthOf[k.key]
        /\ WorthOf[e.key] <= WorthOf[v.key]
  <2>1. v.key \in Sections
    BY <1>1, <1>4, InventoryFacts
  <2>2. WorthOf[v.key] \in Nat
    BY <2>1, SectionsAssumption
  <2> QED
    BY <1>3, <1>4, <1>6, <1>7, <1>8, <2>2
<1>10. Used(t) + TokensOf[v.key] > TokenLimit
  <2>1. Used(s) = TokensOf[v.key] + Used(t)
    <3>1. IsFiniteSet(Keys(s)) /\ \A k \in Keys(s) : TokensOf[k] \in Int
      BY <1>1, InventoryFacts, SectionsAssumption
    <3> QED
      BY <1>4, <1>5, <3>1, SumRemove DEF Used
  <2>2. Used(s) \in Nat /\ Used(t) \in Nat /\ TokensOf[v.key] \in Nat
    BY <1>1, <1>4, <1>5, InventoryFacts, SectionsAssumption
  <2> QED
    BY <2>1, <2>2, SectionsAssumption
<1>11. Entries(t) \subseteq Entries(start) /\ t[Len(t)].key = new
  BY <1>1, <1>5
<1> QED
  BY <1>5, <1>7, <1>9, <1>10, <1>11 DEF Evicted

LEMMA EvictFacts ==
  ASSUME NEW start, InventorySound(start), Len(start) > 0, NEW new,
         start[Len(start)].key = new, NEW t, t = EvictToLimit(start, new)
  PROVE  Evicted(start, new, t)
<1> DEFINE N == Cardinality(Sections)
           V == {s \in Seq(Resident) : Evicted(start, new, s)}
           AtRest(s) == Used(s) <= TokenLimit \/ \A e \in Entries(s) : e.pinned \/ e.key = new
           Next1(s) == IF AtRest(s) THEN s ELSE Without(s, Victim(s, new).key)
           step == [x \in (1..N) \X V |-> Next1(x[2])]
           StepOf(f) == f = [n \in 0..N |-> IF n = 0 THEN start ELSE Next1(f[n - 1])]
<1>1. N \in Nat
  BY SectionsAssumption, FS_CardinalityType
<1>2. ASSUME NEW s \in V PROVE Next1(s) \in V
  <2>1. Evicted(start, new, s)
    OBVIOUS
  <2>2. CASE AtRest(s)
    BY <2>2
  <2>3. CASE ~AtRest(s)
    <3>1. Next1(s) = Without(s, Victim(s, new).key)
      BY <2>3
    <3>2. ~(Used(s) <= TokenLimit) /\ ~\A e \in Entries(s) : e.pinned \/ e.key = new
      BY <2>3
    <3>3. Used(s) > TokenLimit
      <4>1. Used(s) \in Nat
        BY <2>1, InventoryFacts DEF Evicted
      <4> QED
        BY <3>2, <4>1, SectionsAssumption
    <3>4. Candidates(s, new) # {}
      BY <3>2 DEF Candidates
    <3> HIDE DEF Next1, AtRest, V
    <3>5. Evicted(start, new, Next1(s))
      BY <2>1, <3>1, <3>3, <3>4, EvictOne
    <3> QED
      BY <3>5 DEF V, Evicted, InventorySound
  <2> QED
    BY <2>2, <2>3
<1>3. start \in V
  BY EvictedStarts DEF InventorySound
<1> HIDE DEF Next1, V, N
<1>4. IsStep(step, N, V)
  <2>1. \A x \in (1..N) \X V : Next1(x[2]) \in V
    BY <1>2
  <2>2. step \in [(1..N) \X V -> V]
    BY <2>1, Zenon
  <2> QED
    BY <2>2 DEF IsStep
<1>5. \A n \in 1..N, s \in V : step[n, s] = Next1(s)
  OBVIOUS
<1> HIDE DEF step
<1>6. \E f : StepOf(f)
  <2>1. PICK f : IsRecursion(f, start, step, N, V)
    BY <1>1, <1>3, <1>4, StepsExist
  <2>2. \A n \in 0..N : f[n] = IF n = 0 THEN start ELSE Next1(f[n - 1])
    <3> SUFFICES ASSUME NEW n \in 0..N, n # 0 PROVE f[n] = Next1(f[n - 1])
      BY <2>1 DEF IsRecursion
    <3>1. n \in 1..N /\ n - 1 \in 0..N
      BY <1>1
    <3>2. f[n - 1] \in V
      BY <2>1, <3>1 DEF IsRecursion
    <3> QED
      BY <1>5, <2>1, <3>1, <3>2 DEF IsRecursion
  <2>3. f = [n \in 0..N |-> f[n]]
    BY <2>1 DEF IsRecursion
  <2>4. StepOf(f)
    BY <2>2, <2>3, Zenon
  <2> QED
    BY <2>4
<1> DEFINE evicted == CHOOSE f : StepOf(f)
<1>7. StepOf(evicted) /\ t = evicted[N]
  <2>1. t = evicted[N]
    BY Zenon DEF EvictToLimit, Next1, N
  <2> QED
    BY <1>6, <2>1, Zenon
<1> HIDE DEF evicted
<1>8. evicted[0] = start /\ \A n \in 1..N : evicted[n] = Next1(evicted[n - 1])
  <2>1. \A n \in 0..N : evicted[n] = IF n = 0 THEN start ELSE Next1(evicted[n - 1])
    BY <1>7, Zenon
  <2>2. 0 \in 0..N /\ \A n \in 1..N : n \in 0..N /\ n # 0
    BY <1>1
  <2> QED
    BY <2>1, <2>2, Zenon
<1> DEFINE Good == [n \in 0..N |-> V]
<1>9. evicted[0] \in Good[0]
  BY <1>1, <1>3, <1>8
<1>10. \A n \in 1..N : evicted[n - 1] \in Good[n - 1] => evicted[n] \in Good[n]
  <2> SUFFICES ASSUME NEW n \in 1..N, evicted[n - 1] \in Good[n - 1] PROVE evicted[n] \in Good[n]
    OBVIOUS
  <2>1. n - 1 \in 0..N /\ n \in 0..N
    BY <1>1
  <2> QED
    BY <1>2, <1>8, <2>1
<1>11. N \in 0..N
  BY <1>1
<1>12. evicted[N] \in Good[N]
  <2> HIDE DEF Good
  <2> QED
    BY <1>1, <1>9, <1>10, <1>11, StepsKeep
<1> QED
  BY <1>7, <1>11, <1>12 DEF V

(* LeastGo, with the sections that could have gone by their name.          *)
LEMMA LeastGoMeans ==
  ASSUME NEW s, NEW t
  PROVE  LeastGo(s, t) <=>
           \/ Cardinality(GoneOf(s, t)) = 1 /\ \A e \in Entries(t) : e \in Entries(s)
           \/ \A e \in GoneOf(s, t) :
                /\ ~e.pinned
                /\ \A k \in Candidates(t, Last(t).key) : WorthOf[e.key] <= WorthOf[k.key]
                /\ \E big \in GoneOf(s, t) : WorthOf[e.key] <= WorthOf[big.key]
                     /\ Used(t) + TokensOf[big.key] > TokenLimit
  BY Zenon DEF LeastGo, Candidates

Actions == {"add", "access", "pin", "unpin", "remove"}
ChangeEvents == [sequence : Nat, action : Actions, key : Sections, used : Nat]
ResidencyInv ==
  /\ InventorySound(memory.entries) /\ memory.generation \in Nat
  /\ memory.events \in Seq(ChangeEvents)
  /\ BudgetAndFileHold

LEMMA ChangeKeeps ==
  ASSUME ResidencyInv, NEW action \in Actions, NEW key \in Sections, NEW inventory,
         InventorySound(inventory), Used(inventory) <= TokenLimit, Change(action, key, inventory)
  PROVE  ResidencyInv' /\ memory'.entries = inventory
<1> DEFINE g == memory.generation + 1
           event == [sequence |-> g, action |-> action, key |-> key, used |-> Used(inventory)]
           all == Append(memory.events, event)
<1>1. /\ memory.generation \in Nat /\ memory.events \in Seq(ChangeEvents)
      /\ \A i \in DOMAIN memory.events :
           memory.events[i].sequence = memory.generation - Len(memory.events) + i
  BY DEF ResidencyInv, BudgetAndFileHold
<1>2. Cardinality(Keys(inventory)) = Len(inventory) /\ Used(inventory) \in Nat
  BY InventoryFacts
<1>3. /\ disk' = [entries |-> inventory, generation |-> g]
      /\ \/ memory' = [entries |-> inventory, generation |-> g, events |-> Recorded(event)]
         \/ memory' = [entries |-> inventory, generation |-> g, events |-> <<>>]
  BY DEF Change, Commit, SaveThenDie
<1>4. memory'.entries = inventory /\ memory'.generation = g /\ g \in Nat
      /\ memory'.events \in {Recorded(event), <<>>}
  <2> HIDE DEF event, g
  <2>1. g \in Nat
    BY <1>1 DEF g
  <2> QED
    BY <1>3, <2>1
<1>5. event \in ChangeEvents
  BY <1>2, <1>4 DEF ChangeEvents
<1>6. event.sequence = g
  OBVIOUS
<1> HIDE DEF event
<1>7. /\ all \in Seq(ChangeEvents) /\ Len(all) = Len(memory.events) + 1 /\ Len(memory.events) \in Nat
      /\ all[Len(memory.events) + 1] = event
      /\ \A i \in 1..Len(memory.events) : all[i] = memory.events[i]
  BY <1>1, <1>5
<1>8. \A i \in 1..Len(all) : all[i].sequence = g - Len(all) + i
  <2>1. DOMAIN memory.events = 1..Len(memory.events)
    BY <1>1
  <2> HIDE DEF all
  <2> SUFFICES ASSUME NEW i \in 1..Len(all) PROVE all[i].sequence = g - Len(all) + i
    OBVIOUS
  <2>2. CASE i = Len(memory.events) + 1
    BY <1>4, <1>6, <1>7, <2>2
  <2>3. CASE i # Len(memory.events) + 1
    <3>1. i \in 1..Len(memory.events)
      BY <1>7, <2>3
    <3>2. all[i].sequence = memory.generation - Len(memory.events) + i
      BY <1>1, <1>7, <2>1, <3>1
    <3> QED
      BY <1>1, <1>7, <3>1, <3>2
  <2> QED
    BY <2>2, <2>3
<1>9. ASSUME NEW es, es \in {Recorded(event), <<>>}
      PROVE  /\ es \in Seq(ChangeEvents)
             /\ \A i \in DOMAIN es : es[i].sequence = g - Len(es) + i
  <2>1. CASE es = <<>>
    BY <2>1
  <2>2. CASE es = Recorded(event)
    <3>1. PICK from \in {1, 2} : es = SubSeq(all, from, Len(all))
      BY <2>2 DEF Recorded
    <3>2. Len(all) \in Nat \ {0} /\ all \in Seq(ChangeEvents)
      BY <1>7
    <3> HIDE DEF all, g
    <3>3. /\ es \in Seq(ChangeEvents) /\ Len(es) = Len(all) - from + 1
          /\ \A i \in 1..Len(es) : es[i] = all[from + i - 1]
      BY <3>1, <3>2
    <3>4. DOMAIN es = 1..Len(es) /\ \A i \in 1..Len(es) : from + i - 1 \in 1..Len(all)
      BY <3>2, <3>3
    <3>5. \A i \in 1..Len(es) : es[i].sequence = g - Len(all) + (from + i - 1)
      BY <1>8, <3>3, <3>4
    <3>6. \A i \in 1..Len(es) : es[i].sequence = g - Len(es) + i
      BY <1>4, <3>2, <3>3, <3>5
    <3> QED
      BY <3>3, <3>4, <3>6
  <2> QED
    BY <1>9, <2>1, <2>2
<1>10. PICK es : es = memory'.events
  OBVIOUS
<1>11. /\ es \in Seq(ChangeEvents)
       /\ \A i \in DOMAIN es : es[i].sequence = g - Len(es) + i
  BY <1>4, <1>9, <1>10
<1>12. disk' = [entries |-> memory'.entries, generation |-> memory'.generation]
  BY <1>3, <1>4
<1> HIDE DEF g, all
<1> QED
  BY <1>2, <1>4, <1>10, <1>11, <1>12 DEF ResidencyInv, BudgetAndFileHold

(* Where no key goes, nothing was evicted.                                 *)
LEMMA NoneGone ==
  ASSUME NEW s, NEW t, Keys(s) \subseteq Keys(t)
  PROVE  LeastGo(s, t)
<1>1. GoneOf(s, t) = {}
  BY DEF GoneOf, Keys
<1> QED
  BY <1>1, LeastGoMeans

LEMMA AddKeeps ==
  ASSUME ResidencyInv, NEW key \in Sections, NEW pinned \in BOOLEAN, AddSection(key, pinned)
  PROVE  ResidencyInv' /\ LeastGo(memory.entries, memory'.entries)
<1> DEFINE entry == [key |-> key, pinned |-> pinned]
           old == memory.entries
           start == Touched(old, entry)
           added == EvictToLimit(start, key)
<1>1. InventorySound(old)
  BY DEF ResidencyInv
<1>2. entry \in Resident /\ entry.key = key
  BY DEF Resident
<1>3. \/ Used(added) <= TokenLimit /\ Change("add", key, added)
      \/ Restored
  BY Zenon, <1>2 DEF AddSection, Fits, Added
<1>4. /\ InventorySound(start) /\ Len(start) > 0 /\ start[Len(start)].key = key
      /\ Entries(start) = {o \in Entries(old) : o.key # key} \union {entry}
  <2> HIDE DEF entry
  <2> QED
    BY <1>1, <1>2, TouchedFacts
<1> HIDE DEF start
<1>5. Evicted(start, key, added)
  BY <1>4, EvictFacts
<1> HIDE DEF added
<1>6. LeastGo(old, added)
  <2>1. /\ Len(added) > 0 /\ added[Len(added)].key = key /\ InventorySound(added)
    BY <1>5 DEF Evicted
  <2>2. Last(added).key = key
    BY <2>1 DEF Last
  <2>3. key \in Keys(added)
    <3>1. Len(added) \in DOMAIN added
      BY <2>1, InventoryFacts
    <3> QED
      BY <2>1, <3>1 DEF Keys, Entries
  <2>4. GoneOf(old, added) = GoneOf(start, added)
    <3> HIDE DEF entry, old
    <3> QED
      BY <1>2, <1>4, <2>3 DEF GoneOf
  <2>5. /\ \A e \in GoneOf(start, added) :
             /\ ~e.pinned
             /\ \A k \in Candidates(added, key) : WorthOf[e.key] <= WorthOf[k.key]
        /\ \/ GoneOf(start, added) = {}
           \/ \E big \in GoneOf(start, added) :
                /\ Used(added) + TokensOf[big.key] > TokenLimit
                /\ \A e \in GoneOf(start, added) : WorthOf[e.key] <= WorthOf[big.key]
    BY <1>5 DEF Evicted
  <2> HIDE DEF old
  <2> QED
    BY <2>2, <2>4, <2>5, LeastGoMeans
<1>7. CASE Restored
  BY <1>7, NoneGone DEF Restored, residency, ResidencyInv, BudgetAndFileHold
<1>8. CASE Used(added) <= TokenLimit /\ Change("add", key, added)
  <2>1. InventorySound(added)
    BY <1>5 DEF Evicted
  <2>2. ResidencyInv' /\ memory'.entries = added
    BY <1>8, <2>1, ChangeKeeps DEF Actions
  <2> QED
    BY <1>6, <2>2
<1> QED
  BY <1>3, <1>7, <1>8

LEMMA TouchKeeps ==
  ASSUME ResidencyInv, NEW action \in Actions, NEW e \in Resident, e.key \in Keys(memory.entries),
         Change(action, e.key, Touched(memory.entries, e))
  PROVE  ResidencyInv' /\ LeastGo(memory.entries, memory'.entries)
<1> DEFINE t == Touched(memory.entries, e)
<1>1. InventorySound(memory.entries) /\ Used(memory.entries) <= TokenLimit
  BY DEF ResidencyInv, BudgetAndFileHold
<1>2. InventorySound(t) /\ Keys(t) = Keys(memory.entries)
  <2>1. t = Touched(memory.entries, e)
    OBVIOUS
  <2> HIDE DEF t
  <2>2. InventorySound(t) /\ Keys(t) = Keys(memory.entries) \union {e.key}
    BY <1>1, <2>1, TouchedFacts
  <2> QED
    BY <2>2
<1>3. Used(t) <= TokenLimit
  <2> HIDE DEF t
  <2> QED
    BY <1>1, <1>2 DEF Used
<1>4. e.key \in Sections
  BY DEF Resident
<1>5. ResidencyInv' /\ memory'.entries = t
  BY <1>2, <1>3, <1>4, ChangeKeeps
<1> HIDE DEF t
<1> QED
  BY <1>2, <1>5, NoneGone

LEMMA RemoveKeeps ==
  ASSUME ResidencyInv, NEW key \in Sections, RemoveSection(key)
  PROVE  ResidencyInv' /\ LeastGo(memory.entries, memory'.entries)
<1> DEFINE s == memory.entries
           t == Without(s, key)
<1>1. InventorySound(s) /\ Used(s) <= TokenLimit
  BY DEF ResidencyInv, BudgetAndFileHold
<1>2. key \in Keys(s) /\ Change("remove", key, t)
  BY DEF RemoveSection
<1>3. /\ InventorySound(t) /\ Keys(t) = Keys(s) \ {key}
      /\ Entries(t) = {e \in Entries(s) : e.key # key}
  BY <1>1, WithoutSectionFacts
<1> HIDE DEF t
<1>4. Used(t) <= TokenLimit
  <2>1. IsFiniteSet(Keys(s)) /\ \A k \in Keys(s) : TokensOf[k] \in Int
    BY <1>1, InventoryFacts, SectionsAssumption
  <2>2. Used(s) = TokensOf[key] + Used(t)
    BY <1>2, <1>3, <2>1, SumRemove DEF Used
  <2>3. Used(s) \in Nat /\ Used(t) \in Nat /\ TokensOf[key] \in Nat
    BY <1>1, <1>3, InventoryFacts, SectionsAssumption
  <2> QED
    BY <1>1, <2>2, <2>3, SectionsAssumption
<1>5. ResidencyInv' /\ memory'.entries = t
  BY <1>2, <1>3, <1>4, ChangeKeeps DEF Actions
<1>6. Cardinality(GoneOf(s, t)) = 1
  <2>1. PICK e \in Entries(s) : e.key = key
    BY <1>2 DEF Keys
  <2>2. \A o \in Entries(s) : o.key = key => o = e
    BY <1>1, <2>1, InventoryFacts
  <2>3. \A o \in Entries(s) : o.key \in Keys(s)
    BY DEF Keys
  <2>4. GoneOf(s, t) = {e}
    BY <1>3, <2>1, <2>2, <2>3 DEF GoneOf
  <2> QED
    BY <2>4, FS_Singleton
<1> QED
  BY <1>3, <1>5, <1>6, LeastGoMeans

LEMMA ResidencyStarts ==
  ASSUME ResidencyInit
  PROVE  ResidencyInv
<1>1. memory.entries = <<>> /\ memory.generation = 0 /\ memory.events = <<>>
      /\ disk = [entries |-> <<>>, generation |-> 0]
  BY DEF ResidencyInit
<1>2. InventorySound(<<>>)
  BY DEF InventorySound
<1>3. Keys(<<>>) = {}
  BY DEF Keys, Entries
<1>4. Used(<<>>) <= TokenLimit
  <2>1. Used(<<>>) = SumFunctionOnSet(TokensOf, {})
    BY <1>3, Zenon DEF Used
  <2> QED
    BY <2>1, SumEmpty, SectionsAssumption
<1>5. Cardinality(Keys(<<>>)) = Len(<<>>)
  BY <1>3, FS_EmptySet
<1> QED
  BY <1>1, <1>2, <1>4, <1>5 DEF ResidencyInv, BudgetAndFileHold

LEMMA ResidencyInductive ==
  ASSUME ResidencyInv, [ResidencyNext]_residency
  PROVE  ResidencyInv' /\ LeastGo(memory.entries, memory'.entries)
<1> DEFINE Goal == ResidencyInv' /\ LeastGo(memory.entries, memory'.entries)
<1>0. InventorySound(memory.entries)
  BY DEF ResidencyInv
<1>1. CASE UNCHANGED residency
  BY <1>1, NoneGone DEF residency, ResidencyInv, BudgetAndFileHold
<1>2. ASSUME NEW key \in Sections, AccessSection(key) PROVE Goal
  <2> DEFINE e == EntryOf(memory.entries, key)
  <2>1. e \in Entries(memory.entries) /\ e.key = key
    BY <1>2 DEF AccessSection, EntryOf, Keys
  <2>2. e \in Resident /\ e.key \in Keys(memory.entries)
        /\ Change("access", e.key, Touched(memory.entries, e))
    BY <1>0, <1>2, <2>1, InventoryFacts DEF AccessSection
  <2> HIDE DEF e
  <2> QED
    BY <2>2, TouchKeeps DEF Actions
<1>3. ASSUME NEW key \in Sections, RemoveSection(key) PROVE Goal
  BY <1>3, RemoveKeeps
<1>4. ASSUME NEW key \in Sections, NEW value \in BOOLEAN, AddSection(key, value) PROVE Goal
  BY <1>4, AddKeeps
<1>5. ASSUME NEW key \in Sections, NEW value \in BOOLEAN, PinSection(key, value) PROVE Goal
  <2> DEFINE e == [key |-> key, pinned |-> value]
             action == IF value THEN "pin" ELSE "unpin"
  <2>1. e \in Resident /\ e.key = key /\ action \in Actions
    BY DEF Resident, Actions
  <2>2. e.key \in Keys(memory.entries) /\ Change(action, e.key, Touched(memory.entries, e))
    BY <1>5 DEF PinSection
  <2> HIDE DEF e, action
  <2> QED
    BY <2>1, <2>2, TouchKeeps
<1>6. ASSUME Restart PROVE Goal
  <2>1. /\ disk = [entries |-> memory.entries, generation |-> memory.generation]
        /\ memory.events \in Seq(ChangeEvents)
    BY DEF ResidencyInv, BudgetAndFileHold
  <2>2. /\ memory'.entries = memory.entries /\ memory'.generation = memory.generation
        /\ memory'.events \in {memory.events, <<>>} /\ disk' = disk
    BY <1>6, <2>1 DEF Restart
  <2>3. ResidencyInv'
    <3>1. memory'.events \in Seq(ChangeEvents)
      <4>1. <<>> \in Seq(ChangeEvents)
        OBVIOUS
      <4> QED
        BY <2>1, <2>2, <4>1, Zenon
    <3>2. BudgetAndFileHold'
      <4>1. BudgetAndFileHold
        BY DEF ResidencyInv
      <4> QED
        BY <2>1, <2>2, <4>1 DEF BudgetAndFileHold
    <3> QED
      BY <2>2, <3>1, <3>2 DEF ResidencyInv
  <2> QED
    BY <2>2, <2>3, NoneGone
<1> HIDE DEF Goal
<1>7. Goal
  BY <1>1, <1>2, <1>3, <1>4, <1>5, <1>6 DEF ResidencyNext, Goal
<1> QED
  BY <1>7 DEF Goal

(* The budget holds, the file says what memory says and the events kept    *)
(* are the latest, through failed saves and deaths; only unpinned sections *)
(* worth the least go, and no more than needed (residency.py,              *)
(* context_state.py, scoped_context_state.py).                             *)
THEOREM ResidencyIsExactHolds == ResidencySpec => ResidencyIsExact
<1> DEFINE Step == LeastGo(memory.entries, memory'.entries)
<1>1. ResidencyInit => ResidencyInv
  BY ResidencyStarts
<1>2. ResidencyInv /\ [ResidencyNext]_residency => ResidencyInv'
  BY ResidencyInductive
<1>3. ResidencyInv /\ [ResidencyNext]_residency => [Step]_residency
  BY ResidencyInductive
<1>4. ResidencyInv => BudgetAndFileHold
  BY DEF ResidencyInv
<1> HIDE DEF Step
<1>5. ResidencySpec => []BudgetAndFileHold /\ [][Step]_residency
  BY <1>1, <1>2, <1>3, <1>4, PTL DEF ResidencySpec
<1> QED
  BY <1>5 DEF ResidencyIsExact, EvictsLeast, Step
=============================================================================
