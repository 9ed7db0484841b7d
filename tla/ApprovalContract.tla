-------------------------- MODULE ApprovalContract --------------------------
(***************************************************************************)
(* What a durable approval store promises (approval_store.py;              *)
(* docs/architecture.md, 9.2): a request is decided once, may lapse at any *)
(* moment before it is used, and an approved one is used once, for exactly *)
(* the intent it was made for.  There are no clocks and no callers here.   *)
(***************************************************************************)
EXTENDS Naturals

CONSTANTS
  Slots,     \* an approval: a scope and an identifier within it
  Intents    \* what an execution binds: scope, operation, arguments, ...

VARIABLES
  status,    \* the status of each approval
  intent,    \* the intent it was requested for
  uses       \* how often it has been used

vars == <<status, intent, uses>>

Open == {"pending", "approved"}

Init ==
  /\ status = [k \in Slots |-> "absent"]
  /\ intent \in [Slots -> Intents]
  /\ uses = [k \in Slots |-> 0]

Request(k, i) ==
  /\ status[k] = "absent"
  /\ status' = [status EXCEPT ![k] = "pending"]
  /\ intent' = [intent EXCEPT ![k] = i]
  /\ UNCHANGED uses

Decide(k, decision) ==
  /\ status[k] = "pending"
  /\ status' = [status EXCEPT ![k] = decision]
  /\ UNCHANGED <<intent, uses>>

Use(k) ==
  /\ status[k] = "approved"
  /\ status' = [status EXCEPT ![k] = "consumed"]
  /\ uses' = [uses EXCEPT ![k] = @ + 1]
  /\ UNCHANGED intent

Lapse(ks) ==
  /\ \A k \in ks : status[k] \in Open
  /\ status' = [k \in Slots |-> IF k \in ks THEN "expired" ELSE status[k]]
  /\ UNCHANGED <<intent, uses>>

Next ==
  \/ \E k \in Slots : \/ Request(k, intent'[k])
                      \/ \E decision \in {"approved", "denied"} : Decide(k, decision)
                      \/ Use(k)
  \/ Lapse({k \in Slots : status'[k] # status[k]})

Spec == Init /\ [][Next]_vars
=============================================================================
