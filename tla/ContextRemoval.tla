---------------------------- MODULE ContextRemoval ----------------------------
(***************************************************************************)
(* ContextRemovalCoordinator (context_removal.py) on a scoped entry        *)
(* (tenancy.py): instructions to a model client to drop context, which     *)
(* the client acknowledges by messages that come late, twice or never.     *)
(***************************************************************************)
EXTENDS Naturals, Sequences, FiniteSets

CONSTANTS RemovalKeys,   \* idempotency keys of requests
          Targets,       \* what to remove
          AckIds,        \* acknowledgement ids, each of one message
          RecordLimit,   \* records retained (record_limit)
          MaxGeneration  \* bound of the generation

(* The coordinator refuses a record_limit below one (line 64).             *)
ASSUME RemovalAssumption == RecordLimit \in Nat \ {0}

VARIABLES removal,       \* the stored entry: its generation and its records
          seen,          \* the generation the client's side last viewed
          acks,          \* acknowledgements sent, delivered any number of times
          forgotten      \* history: instructions that fell out of the records

contextRemoval == <<removal, seen, acks, forgotten>>

RemovalInit ==
  /\ removal = [generation |-> 0, records |-> <<>>]
  /\ seen = 0 /\ acks = {} /\ forgotten = {}

(* An instruction is named by the generation that made it: its id is drawn *)
(* at random, in the transaction that sets that generation.                *)
Instruction(key, target, generation) ==
  [id |-> generation, key |-> key, target |-> target, status |-> "pending",
   acknowledged |-> FALSE, ack |-> "none", attempts |-> 1, generation |-> generation]

Confirmed(record) == record.status = "confirmed" /\ record.acknowledged
Indices == DOMAIN removal.records
IndexOf(id) == {i \in Indices : removal.records[i].id = id}
ByKey(key) == {i \in Indices : removal.records[i].key = key}
Newest(records) == SubSeq(records, IF Len(records) > RecordLimit
                                  THEN Len(records) - RecordLimit + 1 ELSE 1, Len(records))
NextGeneration == removal.generation + 1
MayChange(expected) == expected = removal.generation /\ NextGeneration <= MaxGeneration
Replace(i, record) ==
  removal' = [generation |-> NextGeneration,
              records |-> [removal.records EXCEPT ![i] = record]]

-----------------------------------------------------------------------------
View == seen # removal.generation /\ seen' = removal.generation
        /\ UNCHANGED <<removal, acks, forgotten>>

(* A key that is known answers with its record, or conflicts when it names *)
(* another target; either way nothing changes.                             *)
RequestRemoval(key, target) ==
  LET all == Append(removal.records, Instruction(key, target, NextGeneration)) IN
  /\ ByKey(key) = {} /\ MayChange(seen)
  /\ removal' = [generation |-> NextGeneration, records |-> Newest(all)]
  /\ forgotten' = forgotten \union
       {all[i].id : i \in {j \in DOMAIN all : j <= Len(all) - RecordLimit}}
  /\ UNCHANGED <<seen, acks>>

RetryRemoval(id) ==
  \E i \in IndexOf(id) :
    /\ ~Confirmed(removal.records[i]) /\ MayChange(seen)
    /\ Replace(i, [removal.records[i] EXCEPT !.attempts = @ + 1, !.generation = NextGeneration])
    /\ UNCHANGED <<seen, acks, forgotten>>

(* The client acts on an instruction it holds and says whether it removed  *)
(* the text.                                                               *)
ClientAnswers(id, ack, removed) ==
  /\ \A m \in acks : m.ack # ack
  /\ acks' = acks \union {[id |-> id, ack |-> ack, removed |-> removed]}
  /\ UNCHANGED <<removal, seen, forgotten>>

(* acknowledge: the message may be a repetition, and carries the           *)
(* generation its sender has last seen.                                    *)
AcknowledgedAfresh(record, m) ==  \* faulty: the record is made anew
  [record EXCEPT !.ack = m.ack, !.acknowledged = TRUE, !.generation = NextGeneration,
                 !.status = IF m.removed THEN "confirmed" ELSE @, !.attempts = 1]
Acknowledged(record, m) ==
  [record EXCEPT !.ack = m.ack, !.acknowledged = TRUE, !.generation = NextGeneration,
                 !.status = IF m.removed THEN "confirmed" ELSE @]

Acknowledge(m) ==
  \E i \in IndexOf(m.id) :
    /\ removal.records[i].ack # m.ack /\ ~Confirmed(removal.records[i])
    /\ MayChange(seen)
    /\ Replace(i, Acknowledged(removal.records[i], m))
    /\ UNCHANGED <<seen, acks, forgotten>>

RemovalNext ==
  \/ View
  \/ \E key \in RemovalKeys, target \in Targets : RequestRemoval(key, target)
  \/ \E id \in 1..MaxGeneration :
       \/ RetryRemoval(id)
       \/ \E ack \in AckIds, removed \in BOOLEAN : IndexOf(id) # {} /\ ClientAnswers(id, ack, removed)
  \/ \E m \in acks : Acknowledge(m)

RemovalSpec == RemovalInit /\ [][RemovalNext]_contextRemoval

-----------------------------------------------------------------------------
(* Properties.                                                             *)

(* A removal is confirmed only when its client said that it removed the    *)
(* text for that very instruction: no retry, refusal or late message       *)
(* confirms it, and the records agree with their generation.               *)
NeverInferred ==
  \A i \in Indices :
    LET r == removal.records[i] IN
    /\ r.status = "confirmed" => [id |-> r.id, ack |-> r.ack, removed |-> TRUE] \in acks
    /\ r.generation <= removal.generation
    /\ \A j \in Indices \ {i} : /\ removal.records[j].key # r.key
                                /\ removal.records[j].generation # r.generation

(* What is confirmed stays so, whatever messages still arrive; attempts    *)
(* are never lost and the records keep their order.                        *)
RemovalAdvances ==
  [][/\ removal'.generation >= removal.generation
     /\ \A i \in Indices, j \in DOMAIN removal'.records :
          removal'.records[j].id = removal.records[i].id =>
            /\ Confirmed(removal.records[i]) => removal'.records[j] = removal.records[i]
            /\ removal'.records[j].attempts >= removal.records[i].attempts
            /\ removal'.records[j].target = removal.records[i].target]_contextRemoval

(* An instruction is remembered until it is confirmed.                     *)
PendingIsRemembered ==
  [][\A i \in Indices :
       ~Confirmed(removal.records[i]) => removal.records[i].id \notin forgotten']_contextRemoval

(* Removal is never inferred, and only advances.                           *)
RemovalIsExplicit == []NeverInferred /\ RemovalAdvances
=============================================================================
