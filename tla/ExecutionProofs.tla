-------------------------- MODULE ExecutionProofs --------------------------
(***************************************************************************)
(* Proofs about Execution, for any number of callers, keys and arguments,  *)
(* with crashes, recoveries and failing transactions or without.           *)
(***************************************************************************)
EXTENDS Execution, TLAPS

(* Between its admission and the end of its provider call and settlement.  *)
Working(c) == pc[c] \in {"calling", "settling", "trimming", "completing"}

(* The local idempotency_slot is the request's, and is set on admission.   *)
SlotIsOwn ==
  \A c \in Callers :
    /\ slot[c] \in {NoSlot, request[c].slot}
    /\ pc[c] \in {"idle", "admitting", "waiting"} => slot[c] = NoSlot

(* Whoever is being admitted has a key, and whoever waits found a record.   *)
Keyed ==
  \A c \in Callers :
    /\ pc[c] \in {"admitting", "waiting"} => request[c].slot \in Slots
    /\ pc[c] = "waiting" => row[request[c].slot].status # "none"

(* A caller at work on a key is the one its record was made for, and the   *)
(* record cannot be vacant: it is in progress or has become uncertain.     *)
WorkersOwn ==
  \A c \in Callers : Working(c) /\ slot[c] # NoSlot =>
    /\ owner[slot[c]] = c
    /\ row[slot[c]].status \in {"in_progress", "uncertain"}
    /\ row[slot[c]].args = request[c].args

(* Nothing is applied for a record before its owner's call.                *)
NothingApplied ==
  \A c \in Callers : pc[c] = "calling" /\ slot[c] # NoSlot /\ c \notin did
                        => applied[slot[c]] = 0

(* A result that is being settled is the result of an applied operation.   *)
SettlingDid ==
  \A c \in Callers : pc[c] \in {"settling", "trimming", "completing"} => c \in did

OwnersAsked ==
  \A s \in Slots : owner[s] # Nobody => request[owner[s]].slot = s

Types ==
  /\ request \in [Callers -> [slot : Slots \cup {NoSlot}, args : Arguments]]
  /\ pc \in [Callers -> Labels]
  /\ slot \in [Callers -> Slots \cup {NoSlot}]
  /\ row \in [Slots -> Records]
  /\ did \in SUBSET Callers
  /\ answer \in [Callers -> [error : Errors, from : Callers \cup {Nobody}]]
  /\ owner \in [Slots -> Callers \cup {Nobody}]
  /\ applied \in [Slots -> Nat]

IInv ==
  /\ Types
  /\ SlotIsOwn /\ Keyed /\ WorkersOwn /\ NothingApplied /\ SettlingDid /\ OwnersAsked
  /\ AtMostOnce
  /\ \A s \in Slots : row[s].status = "complete" => owner[s] \in Callers
  /\ CompletedByOwner
  /\ ReplayIsFaithful

USE ExecutionAssumption

(* The two ways a record changes once it has been made.                    *)
LEMMA RecordChanges ==
  ASSUME NEW r \in Records
  PROVE  /\ \A status \in {"complete", "uncertain"}, result \in Callers \cup {Nobody} :
              [status |-> status, args |-> r.args, result |-> result, old |-> FALSE]
                \in Records
         /\ [r EXCEPT !.status = "uncertain"] \in Records
         /\ [r EXCEPT !.status = "uncertain"].status = "uncertain"
         /\ [r EXCEPT !.status = "uncertain"].args = r.args
         /\ [r EXCEPT !.old = TRUE] \in Records
         /\ [r EXCEPT !.old = TRUE].status = r.status
         /\ [r EXCEPT !.old = TRUE].args = r.args
         /\ [r EXCEPT !.old = TRUE].result = r.result
  BY DEF Records

(* What complete and uncertain leave of the table.                         *)
LEMMA MarkRowChanges ==
  ASSUME row \in [Slots -> Records], NEW s \in Slots \cup {NoSlot},
         NEW status \in {"complete", "uncertain"}, NEW result \in Callers \cup {Nobody},
         MarkRow(s, status, result)
  PROVE  /\ row' \in [Slots -> Records]
         /\ \A x \in Slots :
              \/ row'[x] = row[x]
              \/ /\ x = s /\ row[x].status = "in_progress"
                 /\ row'[x].status = status /\ row'[x].result = result
                 /\ row'[x].args = row[x].args
<1>1. CASE s # NoSlot /\ row[s].status = "in_progress"
  <2> DEFINE new == [status |-> status, args |-> row[s].args, result |-> result, old |-> FALSE]
  <2>1. s \in Slots /\ row' = [row EXCEPT ![s] = new]
    BY <1>1 DEF MarkRow
  <2>2. new \in Records
    BY <2>1, RecordChanges
  <2>3. row' \in [Slots -> Records] /\ \A x \in Slots : row'[x] = IF x = s THEN new ELSE row[x]
    <3> HIDE DEF new
    <3> QED
      BY <2>1, <2>2
  <2> QED
    BY <1>1, <2>3
<1>2. CASE ~(s # NoSlot /\ row[s].status = "in_progress")
  BY <1>2 DEF MarkRow
<1> QED
  BY <1>1, <1>2

LEMMA InitIInv == Init => IInv
<1>1. (CHOOSE a \in Arguments : TRUE) \in Arguments
  OBVIOUS
<1> QED
  BY <1>1 DEF Init, IInv, Types, SlotIsOwn, Keyed, WorkersOwn, NothingApplied,
     SettlingDid, OwnersAsked, AtMostOnce, CompletedByOwner, ReplayIsFaithful, Working, NoRow, Records,
     Failure, Labels, Errors

(* An answer of the right type keeps the table of answers well formed.     *)
Answers == [error : Errors, from : Callers \cup {Nobody}]

LEMMA AnswerType ==
  ASSUME answer \in [Callers -> Answers], NEW c \in Callers, NEW a \in Answers,
         answer' = [answer EXCEPT ![c] = a]
  PROVE  answer' \in [Callers -> Answers]
  OBVIOUS

(* Most steps only move a caller on and perhaps answer it with an error.   *)
Moves(c, label) ==
  /\ pc' = [pc EXCEPT ![c] = label]
  /\ UNCHANGED answer \/ \E e \in Errors : answer' = [answer EXCEPT ![c] = Failure(e)]
  /\ UNCHANGED <<request, slot, row, did, owner, applied>>

LEMMA MoveStep ==
  ASSUME IInv, NEW c \in Callers, NEW label \in Labels \ {"idle"}, Moves(c, label),
         pc[c] \notin {"done", "crashed"},
         label \in {"admitting", "waiting", "calling"} => slot[c] = NoSlot,
         label \in {"admitting", "waiting"} => request[c].slot \in Slots,
         label = "waiting" => row[request[c].slot].status # "none",
         label \in {"settling", "trimming", "completing"} => Working(c) /\ c \in did
  PROVE  IInv'
<1>1. Types'
  <2>1. Types /\ pc' = [pc EXCEPT ![c] = label]
        /\ UNCHANGED <<request, slot, row, did, owner, applied>>
    BY DEF IInv, Moves
  <2>2. answer \in [Callers -> Answers]
    BY <2>1 DEF Types, Answers
  <2>3. \A e \in Errors : Failure(e) \in Answers
    BY DEF Failure, Answers
  <2>4. UNCHANGED answer \/ \E a \in Answers : answer' = [answer EXCEPT ![c] = a]
    BY <2>3 DEF Moves
  <2>5. answer' \in [Callers -> Answers]
    BY <2>2, <2>4, AnswerType
  <2> QED
    BY <2>1, <2>5 DEF Types, Answers
<1> USE DEF IInv, Types, Moves
<1>2. SlotIsOwn' /\ OwnersAsked' /\ AtMostOnce'
  BY DEF SlotIsOwn, OwnersAsked, AtMostOnce
<1>3. WorkersOwn' /\ NothingApplied' /\ SettlingDid'
  BY DEF WorkersOwn, NothingApplied, SettlingDid, Working
<1>4. CompletedByOwner'
  BY DEF CompletedByOwner
<1>5. ReplayIsFaithful'
  BY DEF ReplayIsFaithful, Failure
<1>6. \A s \in Slots : row'[s].status = "complete" => owner'[s] \in Callers
  OBVIOUS
<1>7. Keyed'
  BY DEF Keyed
<1> QED
  BY <1>1, <1>2, <1>3, <1>4, <1>5, <1>6, <1>7

LEMMA QuietStep ==
  ASSUME IInv, NEW c \in Callers,
         \/ Reject(c) \/ ReserveBudget(c) \/ AdmitWait(c) \/ CancelBudget(c) \/ Announce(c)
         \/ ProviderReturns(c) \/ ProviderFails(c) \/ Settle(c) \/ FailSettles(c)
         \/ Fault(c)
  PROVE  IInv'
<1> USE DEF GoTo, Answer, Moves, historyVars
<1>e. {"rejected", "failed"} \subseteq Errors
  BY DEF Errors
<1>s. pc[c] \in {"idle", "admitting", "waiting"} => slot[c] = NoSlot
  BY DEF IInv, SlotIsOwn
<1>1. CASE Reject(c)
  BY <1>1, <1>e, MoveStep DEF Reject, Labels
<1>2. CASE ReserveBudget(c)
  <2>1. PICK label \in {"calling", "admitting"} :
          /\ Moves(c, label) /\ pc[c] = "idle"
          /\ label = "admitting" => request[c].slot \in Slots
    BY <1>2 DEF ReserveBudget, IInv, Types
  <2> QED
    BY <2>1, <1>s, MoveStep DEF Labels
<1>3. CASE AdmitWait(c)
  <2>1. request[c].slot \in Slots /\ row[request[c].slot].status # "none"
    BY <1>3 DEF AdmitWait, IInv, Keyed
  <2> QED
    BY <1>3, <1>s, <2>1, MoveStep DEF AdmitWait, Labels
<1>4. CASE CancelBudget(c)
  <2>1. PICK label \in {"announcing", "done"} :
          Moves(c, label) /\ pc[c] \in {"replaying", "refusing"}
    BY <1>4 DEF CancelBudget
  <2> QED
    BY <2>1, MoveStep DEF Labels
<1>5. CASE Announce(c)
  BY <1>5, MoveStep DEF Announce, Labels
<1>6. CASE ProviderReturns(c)
  <2> PICK label \in {"settling", "trimming"} : Moves(c, label)
    BY <1>6 DEF ProviderReturns
  <2> QED
    BY <1>6, MoveStep DEF ProviderReturns, Working, Labels
<1>7. CASE ProviderFails(c)
  BY <1>7, <1>e, MoveStep DEF ProviderFails, Labels
<1>8. CASE Settle(c)
  <2>1. CASE pc[c] = "settling"
    <3>1. Moves(c, "completing")
      BY <1>8, <2>1 DEF Settle
    <3>2. c \in did
      BY <2>1 DEF IInv, SettlingDid
    <3> QED
      BY <2>1, <3>1, <3>2, MoveStep DEF Working, Labels
  <2>2. CASE pc[c] = "trimming"
    <3>1. Moves(c, "marking")
      BY <1>8, <2>2, <1>e DEF Settle
    <3> QED
      BY <2>2, <3>1, MoveStep DEF Labels
  <2> QED
    BY <1>8, <2>1, <2>2 DEF Settle
<1>9. CASE FailSettles(c)
  BY <1>9, MoveStep DEF FailSettles, Labels
<1>10. CASE Fault(c)
  <2>1. PICK label \in {"refusing", "failing", "marking", "done", "crashed"} :
          Moves(c, label) /\ pc[c] \notin {"done", "crashed"}
    BY <1>10, <1>e
    DEF Fault, AdmitFails, CancelFails, AnnounceFails, SettleFails, CompleteFails,
        HandlerFails, Crash
  <2> QED
    BY <2>1, MoveStep DEF Labels
<1> QED
  BY <1>1, <1>2, <1>3, <1>4, <1>5, <1>6, <1>7, <1>8, <1>9, <1>10

LEMMA AdmitNewStep ==
  ASSUME IInv, NEW c \in Callers, AdmitNew(c)
  PROVE  IInv'
<1> USE DEF IInv, GoTo
<1> DEFINE s == request[c].slot
<1>1. /\ slot[c] = NoSlot /\ pc[c] = "admitting"
      /\ row[s].status \in {"none", "complete"}
  BY DEF AdmitNew, SlotIsOwn, Vacant
<1>2. s \in Slots
  BY <1>1 DEF Keyed
<1>3. Types'
  BY <1>2 DEF AdmitNew, Types, Labels, Records
<1>4. SlotIsOwn' /\ Keyed' /\ OwnersAsked' /\ AtMostOnce' /\ SettlingDid'
  BY <1>1, <1>2
  DEF AdmitNew, Types, SlotIsOwn, Keyed, OwnersAsked, AtMostOnce, SettlingDid
<1>5. \A d \in Callers : Working(d) => slot[d] # s
  BY <1>1, <1>2 DEF WorkersOwn
<1>6. WorkersOwn' /\ NothingApplied'
  BY <1>1, <1>2, <1>5 DEF AdmitNew, Types, WorkersOwn, NothingApplied, Working
<1>7. CompletedByOwner' /\ \A x \in Slots : row'[x].status = "complete" => owner'[x] \in Callers
  BY <1>1, <1>2 DEF AdmitNew, Types, CompletedByOwner
<1>8. ReplayIsFaithful'
  BY DEF AdmitNew, Types, ReplayIsFaithful
<1> QED
  BY <1>3, <1>4, <1>6, <1>7, <1>8

(* Nobody else works on the key, so this is the first application.         *)
LEMMA AppliesStep ==
  ASSUME IInv, NEW c \in Callers, ProviderApplies(c)
  PROVE  IInv'
<1> USE DEF IInv, Types, ProviderApplies
<1>1. slot[c] \in Slots => applied[slot[c]] = 0
  BY DEF NothingApplied
<1>2. Types' /\ SlotIsOwn' /\ Keyed' /\ OwnersAsked' /\ SettlingDid'
  BY DEF SlotIsOwn, Keyed, OwnersAsked, SettlingDid
<1>3. AtMostOnce'
  BY <1>1 DEF AtMostOnce
<1>4. WorkersOwn'
  BY DEF WorkersOwn, Working
<1>5. NothingApplied'
  BY DEF NothingApplied, WorkersOwn, Working
<1>6. CompletedByOwner' /\ ReplayIsFaithful'
  BY DEF CompletedByOwner, ReplayIsFaithful
<1> QED
  BY <1>2, <1>3, <1>4, <1>5, <1>6

(* A caller that completes its record is its owner.                        *)
LEMMA CompleteStep ==
  ASSUME IInv, NEW c \in Callers, Complete(c)
  PROVE  IInv'
<1> USE DEF IInv, Types, Complete, GoTo, Answer, Result, historyVars
<1>1. c \in did /\ Working(c)
  BY DEF SettlingDid, Working
<1>2. slot[c] \in Slots => /\ owner[slot[c]] = c
                            /\ row[slot[c]].args = request[c].args
  BY <1>1 DEF WorkersOwn
<1>m. /\ row' \in [Slots -> Records]
      /\ \A x \in Slots :
           \/ row'[x] = row[x]
           \/ /\ x = slot[c] /\ row[x].status = "in_progress"
              /\ row'[x].status = "complete" /\ row'[x].result \in {c, Nobody}
              /\ row'[x].args = row[x].args
  <2>1. PICK result \in {c, Nobody} : MarkRow(slot[c], "complete", result)
    OBVIOUS
  <2>2. row \in [Slots -> Records] /\ slot[c] \in Slots \cup {NoSlot}
    OBVIOUS
  <2> HIDE DEF IInv, Types, Complete
  <2> QED
    BY <2>1, <2>2, MarkRowChanges
<1>t. /\ row' \in [Slots -> Records]
      /\ \A x \in Slots : row[x].status # "none" => row'[x].status # "none"
  BY <1>m
<1>3. Types'
  BY <1>t DEF Labels, Errors
<1>k. Keyed'
  BY <1>t DEF Keyed
<1>4. SlotIsOwn' /\ OwnersAsked' /\ AtMostOnce' /\ SettlingDid' /\ NothingApplied'
  BY DEF SlotIsOwn, OwnersAsked, AtMostOnce, SettlingDid, NothingApplied
<1>5. WorkersOwn'
  <2> SUFFICES ASSUME NEW d \in Callers, Working(d)', slot[d] # NoSlot
               PROVE  /\ owner[slot[d]] = d
                      /\ row'[slot[d]].status \in {"in_progress", "uncertain"}
                      /\ row'[slot[d]].args = request[d].args
    BY DEF WorkersOwn
  <2>1. d # c /\ Working(d)
    BY DEF Working
  <2>2. /\ owner[slot[d]] = d
        /\ row[slot[d]].status \in {"in_progress", "uncertain"}
        /\ row[slot[d]].args = request[d].args
    BY <2>1 DEF WorkersOwn
  <2>3. slot[d] # slot[c]
    BY <1>2, <2>1, <2>2
  <2>4. row'[slot[d]] = row[slot[d]]
    BY <2>3, <1>m
  <2> QED
    BY <2>2, <2>4
<1>6. \A s \in Slots : row'[s].status = "complete" => owner'[s] \in Callers
  BY <1>2, <1>m
<1>7. CompletedByOwner'
  BY <1>1, <1>2, <1>m DEF CompletedByOwner
<1>8. ReplayIsFaithful'
  BY <1>1 DEF ReplayIsFaithful
<1> QED
  BY <1>3, <1>k, <1>4, <1>5, <1>6, <1>7, <1>8

(* A record only ever turns uncertain by Mark and Recover.                 *)
Marks(x) ==
  \/ row'[x] = row[x]
  \/ /\ row[x].status = "in_progress"
     /\ row'[x].status = "uncertain"
     /\ row'[x].args = row[x].args

LEMMA MarksStep ==
  ASSUME IInv,
         row' \in [Slots -> Records],
         \A x \in Slots : Marks(x),
         UNCHANGED <<request, slot, answer, did, owner, applied>>,
         \/ UNCHANGED pc
         \/ \E c \in Callers : pc[c] = "marking" /\ pc' = [pc EXCEPT ![c] = "done"]
  PROVE  IInv'
<1> USE DEF IInv, Types, Marks
<1>1. Types'
  BY DEF Labels
<1>2. SlotIsOwn' /\ Keyed' /\ OwnersAsked'
  BY DEF SlotIsOwn, Keyed, OwnersAsked
<1>3. AtMostOnce' /\ SettlingDid' /\ NothingApplied'
  BY DEF AtMostOnce, SettlingDid, NothingApplied
<1>4. WorkersOwn'
  BY DEF WorkersOwn, Working
<1>5. \A x \in Slots : row'[x].status = "complete" => owner'[x] \in Callers
  OBVIOUS
<1>6. CompletedByOwner'
  BY DEF CompletedByOwner
<1>7. ReplayIsFaithful'
  BY DEF ReplayIsFaithful
<1> QED
  BY <1>1, <1>2, <1>3, <1>4, <1>5, <1>6, <1>7

LEMMA MarkStep ==
  ASSUME IInv, NEW c \in Callers, Mark(c)
  PROVE  IInv'
<1> USE DEF IInv, Types
<1>1. /\ row' \in [Slots -> Records]
      /\ \A x \in Slots : Marks(x)
  <2>1. row \in [Slots -> Records] /\ slot[c] \in Slots \cup {NoSlot}
        /\ MarkRow(slot[c], "uncertain", Nobody)
    BY DEF Mark
  <2>2. /\ row' \in [Slots -> Records]
        /\ \A x \in Slots :
             \/ row'[x] = row[x]
             \/ /\ row[x].status = "in_progress" /\ row'[x].status = "uncertain"
                /\ row'[x].args = row[x].args
    BY <2>1, MarkRowChanges
  <2> QED
    BY <2>2 DEF Marks
<1> QED
  BY <1>1, MarksStep DEF Mark, GoTo, historyVars

LEMMA RecoverStep == ASSUME IInv, Recover PROVE IInv'
<1> DEFINE turned(x) == [row[x] EXCEPT !.status = "uncertain"]
<1>a. \A x \in Slots : /\ turned(x) \in Records
                       /\ turned(x).status = "uncertain" /\ turned(x).args = row[x].args
  BY RecordChanges DEF IInv, Types
<1>b. row' = [x \in Slots |-> IF row[x].status = "in_progress" THEN turned(x) ELSE row[x]]
  BY DEF Recover
<1>1. /\ row' \in [Slots -> Records]
      /\ \A x \in Slots : Marks(x)
  <2> HIDE DEF turned
  <2>1. row \in [Slots -> Records]
    BY DEF IInv, Types
  <2>2. row' \in [Slots -> Records]
    BY <1>a, <1>b, <2>1
  <2>3. ASSUME NEW x \in Slots PROVE Marks(x)
    BY <1>a, <1>b, <2>1 DEF Marks
  <2> QED
    BY <2>2, <2>3
<1> QED
  BY <1>1, MarksStep DEF Recover, historyVars

LEMMA ExpireStep == ASSUME IInv, NEW s \in Slots, Expire(s) PROVE IInv'
<1> USE DEF IInv, Types, Expire, historyVars
<1> DEFINE aged == [row[s] EXCEPT !.old = TRUE]
<1>a. /\ aged \in Records /\ aged.status = row[s].status
      /\ aged.args = row[s].args /\ aged.result = row[s].result
  BY RecordChanges
<1>b. row' = [row EXCEPT ![s] = aged]
  OBVIOUS
<1>1. /\ row' \in [Slots -> Records]
      /\ \A x \in Slots : /\ row'[x].status = row[x].status /\ row'[x].args = row[x].args
                           /\ row'[x].result = row[x].result
  <2>1. row \in [Slots -> Records]
    OBVIOUS
  <2> HIDE DEF aged, IInv, Types, Expire
  <2> QED
    BY <1>a, <1>b, <2>1
<1>2. Types' /\ SlotIsOwn' /\ OwnersAsked' /\ AtMostOnce'
  BY <1>1 DEF SlotIsOwn, OwnersAsked, AtMostOnce
<1>3. Keyed' /\ NothingApplied' /\ SettlingDid' /\ ReplayIsFaithful'
  BY <1>1 DEF Keyed, NothingApplied, SettlingDid, ReplayIsFaithful
<1>4. WorkersOwn' /\ CompletedByOwner'
  BY <1>1 DEF WorkersOwn, Working, CompletedByOwner
<1> QED
  BY <1>1, <1>2, <1>3, <1>4

(* What an existing record answers is its owner's result.                  *)
LEMMA AnswerStep ==
  ASSUME IInv, NEW c \in Callers,
         AdmitExisting(c) \/ WaitEnds(c) \/ WaitTimesOut(c)
  PROVE  IInv'
<1> DEFINE s == request[c].slot
           r == row[request[c].slot]
<1> USE DEF historyVars, Answer, GoTo
<1>1. /\ pc[c] \in {"admitting", "waiting"}
      /\ s \in Slots
      /\ r.status \in {"in_progress", "complete", "uncertain"}
      /\ Refuse(c, r) \/ Replay(c, r)
      /\ UNCHANGED <<request, row, did, owner, applied>>
  BY DEF AdmitExisting, WaitEnds, WaitTimesOut, IInv, Types, Keyed, Records
<1>2. CASE Refuse(c, r)
  <2>1. Refusal(c, r) \in Errors
    BY <1>1 DEF Refusal, Errors
  <2>2. Moves(c, "refusing")
    BY <1>1, <1>2, <2>1 DEF Refuse, Moves
  <2> QED
    BY <1>1, <2>2, MoveStep DEF Labels
<1>3. CASE Replay(c, r)
  <2> USE DEF IInv, Types, Records
  <2>1. /\ r.args = request[c].args /\ r.status = "complete" /\ r.result \in Callers
        /\ pc' = [pc EXCEPT ![c] = "replaying"]
        /\ answer' = [answer EXCEPT ![c] = Result(r.result)]
        /\ slot' = [slot EXCEPT ![c] = s]
    BY <1>1, <1>3 DEF Replay, Replayable
  <2>2. r.result = owner[s] /\ owner[s] \in did /\ request[owner[s]].args = r.args
    BY <1>1, <2>1 DEF CompletedByOwner
  <2>3. request[owner[s]].slot = s
    BY <1>1, <2>1, <2>2 DEF OwnersAsked
  <2>4. request[r.result] = request[c] /\ r.result \in did
    <3>1. \A d \in Callers : request[d] = [slot |-> request[d].slot, args |-> request[d].args]
      OBVIOUS
    <3>2. request[r.result].slot = s /\ request[r.result].args = request[c].args
      BY <2>1, <2>2, <2>3
    <3> HIDE DEF IInv, Types, Records
    <3> QED
      BY <2>1, <2>2, <3>1, <3>2
  <2>5. "replaying" \in Labels /\ "none" \in Errors
    BY DEF Labels, Errors
  <2>6. Types'
    <3>1. Result(r.result) \in Answers
      BY <2>1, <2>5 DEF Result, Answers
    <3>2. answer \in [Callers -> Answers]
      BY DEF Answers
    <3>3. answer' \in [Callers -> Answers]
      BY <2>1, <3>1, <3>2, AnswerType
    <3>4. slot' \in [Callers -> Slots \cup {NoSlot}] /\ pc' \in [Callers -> Labels]
      BY <1>1, <2>1, <2>5
    <3> QED
      BY <1>1, <3>3, <3>4 DEF Answers
  <2>7. SlotIsOwn' /\ Keyed' /\ OwnersAsked' /\ AtMostOnce'
    BY <1>1, <2>1 DEF SlotIsOwn, Keyed, OwnersAsked, AtMostOnce
  <2>8. WorkersOwn' /\ NothingApplied' /\ SettlingDid'
    BY <1>1, <2>1 DEF WorkersOwn, Working, NothingApplied, SettlingDid
  <2>9. CompletedByOwner' /\ \A x \in Slots : row'[x].status = "complete" => owner'[x] \in Callers
    BY <1>1, <2>1 DEF CompletedByOwner
  <2>10. ReplayIsFaithful'
    BY <1>1, <2>1, <2>4 DEF ReplayIsFaithful, Result
  <2> QED
    BY <2>6, <2>7, <2>8, <2>9, <2>10
<1> QED
  BY <1>1, <1>2, <1>3

LEMMA NextIInv == IInv /\ [Next]_vars => IInv'
<1> SUFFICES ASSUME IInv, [Next]_vars PROVE IInv'
  OBVIOUS
<1>1. ASSUME NEW c \in Callers, Step(c) PROVE IInv'
  BY <1>1, QuietStep, AdmitNewStep, AnswerStep, AppliesStep, CompleteStep, MarkStep
  DEF Step, Provider
<1>2. ASSUME NEW c \in Callers, Fault(c) PROVE IInv'
  BY <1>2, QuietStep
<1>3. ASSUME UNCHANGED vars PROVE IInv'
  BY <1>3 DEF vars, IInv, Types, SlotIsOwn, Keyed, WorkersOwn, Working, NothingApplied,
     SettlingDid, OwnersAsked, AtMostOnce, CompletedByOwner, ReplayIsFaithful
<1> QED
  BY <1>1, <1>2, <1>3, ExpireStep, RecoverStep DEF Next, Work, Disturb, Ended

(* The invariant the results below follow from.                            *)
THEOREM Invariance == Spec => []IInv
  BY InitIInv, NextIInv, PTL DEF Spec

(* However calls interleave, crash, fail, time out and are recovered, the  *)
(* provider applies the operation of a key at most once per record.        *)
THEOREM AtMostOnceHolds == Spec => []AtMostOnce
<1>1. IInv => AtMostOnce
  BY DEF IInv
<1> QED
  BY <1>1, Invariance, PTL

(* A replayed result is that of an applied call with the same request.     *)
THEOREM ReplayIsFaithfulHolds == Spec => []ReplayIsFaithful
<1>1. IInv => ReplayIsFaithful
  BY DEF IInv
<1> QED
  BY <1>1, Invariance, PTL

(* The store's complete need not ask for the owner: only it gets there.    *)
THEOREM CompletedByOwnerHolds == Spec => []CompletedByOwner
<1>1. IInv => CompletedByOwner
  BY DEF IInv
<1> QED
  BY <1>1, Invariance, PTL

(* A record whose outcome is unknown stays so, across every step.          *)
THEOREM UnknownIsFinalHolds == Spec => UnknownIsFinal
<1> DEFINE Final == \A s \in Slots : row[s].status = "uncertain" => row'[s].status = "uncertain"
<1>1. ASSUME IInv, [Next]_vars PROVE [Final]_vars
  <2> USE DEF historyVars
  <2>1. ASSUME NEW c \in Callers, AdmitNew(c) PROVE Final
    BY <1>1, <2>1 DEF AdmitNew, Vacant, IInv, Types
  <2>2. ASSUME NEW c \in Callers, Complete(c) \/ Mark(c) PROVE Final
    BY <1>1, <2>2 DEF Complete, Mark, MarkRow, IInv, Types
  <2>3. ASSUME Recover PROVE Final
    BY <1>1, <2>3 DEF Recover, IInv, Types
  <2>4. ASSUME NEW s \in Slots, Expire(s) PROVE Final
    BY <1>1, <2>4 DEF Expire, IInv, Types
  <2>5. ASSUME NEW c \in Callers, Step(c), ~AdmitNew(c), ~Complete(c), ~Mark(c)
        PROVE  UNCHANGED row
    BY <2>5 DEF Step, Provider, Reject, ReserveBudget, AdmitWait, AdmitExisting, WaitEnds,
       WaitTimesOut, CancelBudget, Announce, ProviderApplies, ProviderReturns,
       ProviderFails, Settle, FailSettles
  <2>6. ASSUME NEW c \in Callers, Fault(c) PROVE UNCHANGED row
    BY <2>6 DEF Fault, AdmitFails, CancelFails, AnnounceFails, SettleFails, CompleteFails,
       HandlerFails, Crash
  <2> QED
    BY <1>1, <2>1, <2>2, <2>3, <2>4, <2>5, <2>6
    DEF Next, Work, Disturb, Ended, vars
<1> QED
  BY <1>1, Invariance, PTL DEF Spec, UnknownIsFinal

(* The three together, as the runs check them: an operation with a key is  *)
(* applied once and answered with what it did.                             *)
THEOREM ExecutedOnceHolds == Spec => []ExecutedOnce
<1>1. AtMostOnce /\ ReplayIsFaithful /\ CompletedByOwner <=> ExecutedOnce
  BY DEF ExecutedOnce
<1> QED
  BY <1>1, AtMostOnceHolds, ReplayIsFaithfulHolds, CompletedByOwnerHolds, PTL

-----------------------------------------------------------------------------
(* What each caller's reservation and answer are at each point of execute, *)
(* which no other caller changes.                                          *)
Accounted(c) ==
  /\ pc[c] \in {"idle", "admitting", "waiting", "refusing", "replaying", "announcing"} => c \notin did
  /\ pc[c] = "idle" => budget[c] = "none"
  /\ pc[c] \in {"admitting", "waiting", "refusing", "replaying", "calling", "settling",
                "trimming", "failing"} => budget[c] = "active"
  /\ pc[c] = "completing" => budget[c] = "reconciled"
  /\ pc[c] = "marking" => budget[c] = "reconciled" \/ (budget[c] = "cancelled" /\ c \notin did)
  /\ pc[c] = "announcing" => budget[c] = "cancelled"
  /\ pc[c] \in {"replaying", "announcing"} => answer[c].from \notin {c, Nobody}
  /\ pc[c] \notin {"replaying", "announcing", "done", "crashed"} => answer[c].from = Nobody
  /\ pc[c] = "done" =>
       /\ c \in did => budget[c] # "cancelled"
       /\ answer[c].from = c => budget[c] = "reconciled"
       /\ answer[c].from \notin {c, Nobody} => budget[c] = "cancelled"
       /\ budget[c] = "active" => c \in disturbed

Accounts ==
  /\ budget \in [Callers -> {"none", "active", "reconciled", "cancelled"}]
  /\ \A c \in Callers : Accounted(c)

(* The caller at work is what is left to check.                            *)
LEMMA OthersKeep ==
  ASSUME IInv, Accounts, NEW c \in Callers, NEW label \in Labels, GoTo(c, label),
         NEW b \in {"none", "active", "reconciled", "cancelled"},
         budget' = [budget EXCEPT ![c] = b],
         NEW a \in Answers, answer' = [answer EXCEPT ![c] = a],
         did' \subseteq did \union {c}, did \subseteq did',
         disturbed \subseteq disturbed',
         /\ pc'[c] = label /\ budget'[c] = b /\ answer'[c] = a => Accounted(c)'
  PROVE  Accounts'
<1>1. pc'[c] = label /\ budget'[c] = b /\ answer'[c] = a
  BY DEF GoTo, IInv, Types, Accounts, Answers
<1>2. ASSUME NEW x \in Callers, x # c PROVE Accounted(x)'
  BY <1>2 DEF GoTo, Accounts, Accounted, IInv, Types
<1> QED
  BY <1>1, <1>2 DEF Accounts

(* A replayed result is another's: the caller itself has not been applied. *)
LEMMA ReplaysAnother ==
  ASSUME IInv, Accounts, NEW c \in Callers, pc[c] \in {"admitting", "waiting"},
         Replayable(c, row[request[c].slot])
  PROVE  row[request[c].slot].result \in Callers \ {c}
<1>1. request[c].slot \in Slots
  BY DEF IInv, Keyed
<1>2. row[request[c].slot].result \in Callers \union {Nobody}
  BY <1>1 DEF IInv, Types, Records
<1>3. row[request[c].slot].result \in {owner[request[c].slot], Nobody}
      /\ owner[request[c].slot] \in did
  BY <1>1 DEF IInv, CompletedByOwner, Replayable
<1> QED
  BY <1>2, <1>3 DEF Accounts, Accounted, Replayable

LEMMA FailureAnswers == \A e \in Errors : Failure(e) \in Answers /\ Failure(e).from = Nobody
  BY DEF Failure, Answers

(* A step that changes the answer to an error at most, and the reservation.*)
LEMMA ErrorKeeps ==
  ASSUME IInv, Accounts, NEW c \in Callers, NEW label \in Labels, GoTo(c, label),
         UNCHANGED budget \/ \E s \in {"active", "reconciled", "cancelled"} : Budget(c, s),
         UNCHANGED answer \/ \E e \in Errors : Answer(c, Failure(e)),
         UNCHANGED did, disturbed \subseteq disturbed',
         (/\ pc'[c] = label /\ budget'[c] \in {"none", "active", "reconciled", "cancelled"}
          /\ answer'[c] = answer[c] \/ answer'[c].from = Nobody) => Accounted(c)'
  PROVE  Accounts'
<1>1. PICK b \in {"none", "active", "reconciled", "cancelled"} : budget' = [budget EXCEPT ![c] = b]
  BY DEF Accounts, Budget
<1>2. PICK a \in Answers : /\ answer' = [answer EXCEPT ![c] = a]
                           /\ a = answer[c] \/ a.from = Nobody
  BY FailureAnswers DEF IInv, Types, Answers, Answer
<1>3. pc'[c] = label /\ budget'[c] = b /\ answer'[c] = a
  BY <1>1, <1>2 DEF GoTo, IInv, Types, Accounts, Answers
<1> QED
  BY <1>1, <1>2, <1>3, OthersKeep

(* The steps that end in an error or keep the answer.                      *)
LEMMA ErrorSteps ==
  ASSUME IInv, Accounts, NEW c \in Callers, disturbed \subseteq disturbed',
         \/ Reject(c) \/ ReserveBudget(c) \/ AdmitWait(c) \/ CancelBudget(c) \/ Announce(c)
         \/ ProviderReturns(c) \/ ProviderFails(c) \/ Settle(c) \/ FailSettles(c) \/ Mark(c)
  PROVE  Accounts'
<1> USE DEF historyVars, Accounted, GoTo
<1>0. Accounted(c) /\ "failed" \in Errors /\ "rejected" \in Errors
  BY DEF Accounts, Errors
<1>1. CASE Reject(c)
  <2>1. answer'[c].from = Nobody
    BY <1>1, FailureAnswers DEF Reject, Answer, IInv, Types, Failure
  <2> QED
    BY <1>0, <1>1, <2>1, ErrorKeeps DEF Reject, Labels
<1>2. CASE ReserveBudget(c)
  <2> DEFINE label == IF request[c].slot = NoSlot THEN "calling" ELSE "admitting"
  <2>1. label \in {"calling", "admitting"} /\ GoTo(c, label) /\ UNCHANGED answer
    BY <1>2 DEF ReserveBudget
  <2>2. budget'[c] = "active"
    BY <1>2 DEF ReserveBudget, Budget, Accounts
  <2> HIDE DEF label
  <2> QED
    BY <1>0, <1>2, <2>1, <2>2, ErrorKeeps DEF ReserveBudget, Labels
<1>3. CASE AdmitWait(c)
  BY <1>0, <1>3, ErrorKeeps DEF AdmitWait, Labels
<1>4. CASE CancelBudget(c)
  <2>1. /\ pc[c] \in {"replaying", "refusing"}
        /\ Budget(c, "cancelled") /\ UNCHANGED <<answer, did>>
    BY <1>4 DEF CancelBudget
  <2>2. budget'[c] = "cancelled"
    BY <2>1 DEF Budget, Accounts
  <2>3. CASE pc[c] = "replaying"
    <3>1. GoTo(c, "announcing")
      BY <1>4, <2>3 DEF CancelBudget
    <3>2. pc'[c] = "announcing" => Accounted(c)'
      BY <1>0, <2>1, <2>2, <2>3
    <3> HIDE DEF Accounted, GoTo
    <3> QED
      BY <2>1, <3>1, <3>2, ErrorKeeps DEF Labels
  <2>4. CASE pc[c] = "refusing"
    <3>1. GoTo(c, "done")
      BY <1>4, <2>4 DEF CancelBudget
    <3>2. pc'[c] = "done" => Accounted(c)'
      BY <1>0, <2>1, <2>2, <2>4
    <3> HIDE DEF Accounted, GoTo
    <3> QED
      BY <2>1, <3>1, <3>2, ErrorKeeps DEF Labels
  <2> QED
    BY <2>1, <2>3, <2>4
<1>5. CASE Announce(c)
  BY <1>0, <1>5, ErrorKeeps DEF Announce, Labels
<1>6. CASE ProviderReturns(c)
  <2>1. PICK label \in {"settling", "trimming"} : GoTo(c, label)
    BY <1>6 DEF ProviderReturns
  <2> QED
    BY <1>0, <1>6, <2>1, ErrorKeeps DEF ProviderReturns, Labels
<1>7. CASE ProviderFails(c)
  BY <1>0, <1>7, FailureAnswers, ErrorKeeps DEF ProviderFails, Labels
<1>8. CASE Settle(c)
  <2>1. PICK label \in {"completing", "marking"} : GoTo(c, label)
    BY <1>8 DEF Settle
  <2>2. /\ budget'[c] = "reconciled"
        /\ \E s \in {"active", "reconciled", "cancelled"} : Budget(c, s)
    BY <1>8 DEF Settle, Budget, Accounts
  <2>3. /\ UNCHANGED answer \/ \E e \in Errors : Answer(c, Failure(e))
        /\ answer'[c].from = Nobody
    BY <1>0, <1>8, FailureAnswers DEF Settle, Answer, IInv, Types, Failure
  <2>4. label = "marking" \/ label = "completing"
    OBVIOUS
  <2> QED
    BY <1>0, <1>8, <2>1, <2>2, <2>3, <2>4, ErrorKeeps DEF Settle, Labels
<1>9. CASE FailSettles(c)
  <2>1. /\ budget'[c] = "reconciled"
        /\ \E s \in {"active", "reconciled", "cancelled"} : Budget(c, s)
    BY <1>9 DEF FailSettles, Budget, Accounts
  <2> QED
    BY <1>0, <1>9, <2>1, ErrorKeeps DEF FailSettles, Labels
<1>10. CASE Mark(c)
  BY <1>0, <1>10, ErrorKeeps DEF Mark, Labels
<1> QED
  BY <1>1, <1>2, <1>3, <1>4, <1>5, <1>6, <1>7, <1>8, <1>9, <1>10

(* Admission, the provider's effect and the completion.                    *)
LEMMA ResultSteps ==
  ASSUME IInv, Accounts, NEW c \in Callers, disturbed \subseteq disturbed',
         \/ AdmitNew(c) \/ AdmitExisting(c) \/ WaitEnds(c) \/ WaitTimesOut(c)
         \/ ProviderApplies(c) \/ Complete(c)
  PROVE  Accounts'
<1> USE DEF historyVars, Accounted, GoTo
<1> DEFINE r == row[request[c].slot]
<1>0. Accounted(c)
  BY DEF Accounts
<1>1. CASE AdmitNew(c)
  BY <1>0, <1>1, ErrorKeeps DEF AdmitNew, Labels
<1>2. ASSUME pc[c] \in {"admitting", "waiting"}, Refuse(c, r), UNCHANGED <<budget, did>>,
             r.status # "none"
      PROVE  Accounts'
  <2>1. PICK e \in Errors : Answer(c, Failure(e))
    <3>1. Refusal(c, r) \in Errors
      <4>1. request[c].slot \in Slots /\ r \in Records
        BY <1>2 DEF IInv, Keyed, Types
      <4> QED
        BY <1>2, <4>1 DEF Refusal, Errors, Records
    <3> QED
      BY <1>2, <3>1 DEF Refuse
  <2>2. GoTo(c, "refusing") /\ answer'[c].from = Nobody
    BY <1>2, <2>1, FailureAnswers DEF Refuse, Answer, IInv, Types, Failure
  <2> QED
    BY <1>0, <1>2, <2>1, <2>2, ErrorKeeps DEF Labels
<1>3. ASSUME pc[c] \in {"admitting", "waiting"}, Replay(c, r), UNCHANGED <<budget, did>>
      PROVE  Accounts'
  <2>1. r.result \in Callers \ {c}
    BY <1>3, ReplaysAnother DEF Replay
  <2>2. Result(r.result) \in Answers /\ Result(r.result).from = r.result
    BY <2>1 DEF Result, Answers, Errors
  <2>3. budget[c] \in {"none", "active", "reconciled", "cancelled"}
        /\ budget' = [budget EXCEPT ![c] = budget[c]]
    BY <1>3 DEF Accounts
  <2> QED
    BY <1>0, <1>3, <2>1, <2>2, <2>3, OthersKeep DEF Replay, Answer, Labels
<1>4. CASE AdmitExisting(c) \/ WaitEnds(c) \/ WaitTimesOut(c)
  <2>1. pc[c] = "waiting" => r.status # "none"
    BY DEF IInv, Keyed
  <2> QED
    BY <1>2, <1>3, <1>4, <2>1 DEF AdmitExisting, WaitEnds, WaitTimesOut
<1>5. CASE ProviderApplies(c)
  <2>1. pc[c] \in Labels /\ answer[c] \in Answers
        /\ budget[c] \in {"none", "active", "reconciled", "cancelled"}
    BY DEF IInv, Types, Accounts, Answers
  <2>2. /\ pc' = [pc EXCEPT ![c] = pc[c]] /\ budget' = [budget EXCEPT ![c] = budget[c]]
        /\ answer' = [answer EXCEPT ![c] = answer[c]]
    BY <1>5 DEF ProviderApplies, IInv, Types, Accounts
  <2> QED
    BY <1>0, <1>5, <2>1, <2>2, OthersKeep DEF ProviderApplies
<1>6. CASE Complete(c)
  <2>1. Result(c) \in Answers /\ Result(c).from = c
    BY DEF Result, Answers, Errors
  <2>2. budget[c] \in {"none", "active", "reconciled", "cancelled"}
        /\ budget' = [budget EXCEPT ![c] = budget[c]]
    BY <1>6 DEF Complete, Accounts
  <2> QED
    BY <1>0, <1>6, <2>1, <2>2, OthersKeep DEF Complete, Answer, Labels
<1> QED
  BY <1>1, <1>4, <1>5, <1>6

(* A fault leaves the reservation as it is, and is remembered.             *)
LEMMA FaultSteps ==
  ASSUME IInv, Accounts, NEW c \in Callers, Disturb(c) PROVE Accounts'
<1> USE DEF historyVars, Accounted, GoTo
<1>0. Accounted(c) /\ disturbed' = disturbed \union {c} /\ "failed" \in Errors
  BY DEF Accounts, Disturb, Errors
<1>1. ASSUME NEW label \in {"refusing", "failing", "marking"}, GoTo(c, label),
             Answer(c, Failure("failed")), UNCHANGED <<budget, did>>, Accounted(c),
             label = "refusing" => pc[c] \in {"admitting", "waiting"},
             label = "failing" => pc[c] \in {"replaying", "refusing", "settling", "trimming"},
             label = "marking" => pc[c] \in {"announcing", "completing"}
      PROVE  Accounts'
  <2>1. answer'[c].from = Nobody
    BY <1>1, FailureAnswers DEF Answer, IInv, Types, Failure
  <2>2. \E e \in Errors : Answer(c, Failure(e))
    BY <1>0, <1>1
  <2>3. label \in Labels
    BY DEF Labels
  <2>4. pc'[c] = label => Accounted(c)'
    BY <1>0, <1>1, <2>1
  <2> HIDE DEF Accounted
  <2> QED
    BY <1>0, <1>1, <2>2, <2>3, <2>4, ErrorKeeps
<1>2. ASSUME AdmitFails(c) \/ CancelFails(c) \/ AnnounceFails(c) \/ SettleFails(c) \/ CompleteFails(c)
      PROVE  Accounts'
  BY <1>0, <1>1, <1>2 DEF AdmitFails, CancelFails, AnnounceFails, SettleFails, CompleteFails
<1>3. CASE HandlerFails(c)
  BY <1>0, <1>3, ErrorKeeps DEF HandlerFails, Labels
<1>4. CASE Crash(c)
  BY <1>0, <1>4, ErrorKeeps DEF Crash, Labels
<1> QED
  BY <1>2, <1>3, <1>4 DEF Disturb, Fault

LEMMA AccountsKept == IInv /\ Accounts /\ [Next]_vars => Accounts'
<1> SUFFICES ASSUME IInv, Accounts, [Next]_vars PROVE Accounts'
  OBVIOUS
<1>1. ASSUME UNCHANGED <<pc, budget, answer, did, disturbed>> PROVE Accounts'
  BY <1>1 DEF Accounts, Accounted
<1>2. ASSUME NEW c \in Callers, Work(c) PROVE Accounts'
  BY <1>2, ErrorSteps, ResultSteps DEF Work, Step, Provider
<1> QED
  BY <1>1, <1>2, FaultSteps DEF Next, Expire, Recover, Ended, vars, historyVars

(* execute in service.py: whatever raises, waits or is replayed, a call    *)
(* that ended has paid for what was done and for nothing else.             *)
THEOREM SettledHolds == Spec => []Settled
<1>1. Init => Accounts
  BY DEF Init, Accounts, Accounted, Failure
<1>2. Accounts => Settled
  BY DEF Accounts, Accounted, Settled
<1> QED
  BY <1>1, <1>2, Invariance, AccountsKept, PTL DEF Spec
=============================================================================
