------------------------------ MODULE AccessProofs ------------------------------
(***************************************************************************)
(* What the secret broker, the approved call, the checkpoint observer, the *)
(* control planes, the references, the reasoning router, the ledgers, the  *)
(* registry, the catalogue and the verifier of proofs promise, in this     *)
(* order, for any number of handles, threads, scopes, calls, approvals,    *)
(* verifications, requests, sessions, tasks, reservations and manifests,   *)
(* and trees of any size.                                                  *)
(*                                                                         *)
(* The invariant of the broker ties the uses that were handed out to those *)
(* a lease has left, and a thread that holds a secret to the lease that    *)
(* let it in: a lease keeps its scope and its expiry once it is issued, so *)
(* what was true while the lock was held still is after it.                *)
(***************************************************************************)
EXTENDS Secrets, ApprovedCall, MerkleProofs, Transparency, ControlPlane, Disclosure, Reasoning,
        BudgetLedger, Registry, Catalog, SumTheorems, FiniteSetTheorems, NaturalsInduction, TLAPS

(* A thread at rest, or in a call of consume with what it read before the  *)
(* lock.                                                                   *)
Consuming == [pc : {"admitting", "resolving", "delivered", "failed", "refused"},
              handle : Handles, scope : SecretScopes, time : 0..LastTime]

Types ==
  /\ leases \in [Handles -> Lease]
  /\ now \in 0..LastTime /\ alias \in BOOLEAN
  /\ spend \in [Spenders -> {Resting} \union Consuming]
  /\ spent \in [Handles -> Nat]

(* What a handle has been spent and what its lease has left.               *)
Accounted(h) ==
  /\ leases[h].state = "free" => spent[h] = 0
  /\ leases[h].state = "live" => /\ leases[h].scope \in Trusted
                                 /\ leases[h].remaining >= 1
                                 /\ spent[h] + leases[h].remaining = leases[h].granted
  /\ spent[h] <= leases[h].granted

(* A thread with a secret was let in by a lease of its scope, in time.     *)
LetIn(s) ==
  spend[s].pc \in {"resolving", "delivered"} =>
    LET lease == leases[spend[s].handle] IN
    /\ lease.state # "free" /\ lease.scope = spend[s].scope
    /\ spend[s].scope \in Trusted /\ spend[s].time < lease.expires

LeasesInv == Types /\ (\A h \in Handles : Accounted(h)) /\ \A s \in Spenders : LetIn(s)

(* A lease, once issued, is neither issued again nor bound anew.           *)
Keeps(old, new) ==
  old.state # "free" => new.state # "free" /\ new.scope = old.scope /\ new.expires = old.expires
                           /\ new.granted = old.granted

-----------------------------------------------------------------------------
LEMMA LeasesInit == SecretsInit => LeasesInv
  BY SecretsAssumption
  DEF SecretsInit, LeasesInv, Types, Lease, Resting, Accounted, LetIn

(* What a use leaves of a live lease.                                      *)
LEMMA SpendLeaves ==
  ASSUME NEW lease \in Lease, lease.state = "live", lease.remaining >= 1
  PROVE  /\ Spend(lease) \in Lease /\ Keeps(lease, Spend(lease))
         /\ Spend(lease).state \in {"live", "gone"}
         /\ Spend(lease).scope = lease.scope /\ Spend(lease).granted = lease.granted
         /\ Spend(lease).state = "live" =>
              Spend(lease).remaining >= 1 /\ Spend(lease).remaining = lease.remaining - 1
<1> DEFINE left == [lease EXCEPT !.remaining = @ - 1]
<1>1. left \in Lease /\ left.state = "live" /\ left.remaining = lease.remaining - 1
  BY SecretsAssumption DEF Lease
<1>2. left.scope = lease.scope /\ left.expires = lease.expires /\ left.granted = lease.granted
  BY DEF Lease
<1>3. Spend(lease) = IF left.remaining = 0 THEN Gone(left) ELSE left
  BY DEF Spend
<1> HIDE DEF left
<1>4. /\ Gone(left) \in Lease /\ Gone(left).state = "gone"
      /\ Gone(left).scope = left.scope /\ Gone(left).expires = left.expires
      /\ Gone(left).granted = left.granted
  BY <1>1 DEF Gone, Lease
<1>5. left.remaining \in Nat
  BY <1>1, SecretsAssumption DEF Lease
<1>6. CASE left.remaining = 0
  <2>1. Spend(lease) = Gone(left)
    BY <1>3, <1>6
  <2> QED
    BY <1>1, <1>2, <1>4, <2>1 DEF Keeps
<1>7. CASE left.remaining # 0
  <2>1. Spend(lease) = left
    BY <1>3, <1>7
  <2>2. left.remaining >= 1
    BY <1>5, <1>7
  <2> QED
    BY <1>1, <1>2, <2>1, <2>2 DEF Keeps
<1> QED
  BY <1>6, <1>7

(* Every step leaves the issued leases as they were bound.                 *)
LEMMA StepKeeps ==
  ASSUME LeasesInv, SecretsNext
  PROVE  \A h \in Handles : Keeps(leases[h], leases'[h])
<1> USE DEF LeasesInv, Types
<1>1. ASSUME NEW h \in Handles, NEW scope \in SecretScopes, NEW uses \in 1..MaxUses,
             Issue(h, scope, uses)
      PROVE  \A g \in Handles : Keeps(leases[g], leases'[g])
  BY <1>1 DEF Issue, Keeps
<1>2. ASSUME NEW h \in Handles, Revoke(h)
      PROVE  \A g \in Handles : Keeps(leases[g], leases'[g])
  BY <1>2 DEF Revoke, Keeps, Gone, Lease
<1>3. ASSUME NEW s \in Spenders, AdmitUse(s)
      PROVE  \A g \in Handles : Keeps(leases[g], leases'[g])
  <2> DEFINE h == spend[s].handle
  <2>1. h \in Handles
    BY <1>3 DEF AdmitUse, Resting, Consuming
  <2>2. leases[h].state = "live" => Keeps(leases[h], Spend(leases[h]))
    BY <2>1, SpendLeaves DEF Accounted
  <2>3. Keeps(leases[h], Gone(leases[h]))
    BY <2>1 DEF Gone, Keeps, Lease
  <2>4. Keeps(leases[h], leases'[h])
    BY <1>3, <2>1, <2>2, <2>3 DEF AdmitUse, Keeps
  <2>5. \A g \in Handles \ {h} : leases'[g] = leases[g]
    BY <1>3 DEF AdmitUse
  <2> QED
    BY <2>4, <2>5 DEF Keeps
<1>4. ASSUME UNCHANGED leases
      PROVE  \A g \in Handles : Keeps(leases[g], leases'[g])
  BY <1>4 DEF Keeps
<1> QED
  BY <1>1, <1>2, <1>3, <1>4 DEF SecretsNext, BeginConsume, Deliver, SecondPasses, ToggleAlias

-----------------------------------------------------------------------------
LEMMA StepTypes ==
  ASSUME LeasesInv, SecretsNext
  PROVE  Types'
<1> USE SecretsAssumption DEF LeasesInv, Types
<1>1. ASSUME NEW h \in Handles, NEW scope \in SecretScopes, NEW uses \in 1..MaxUses,
             Issue(h, scope, uses)
      PROVE  Types'
  BY <1>1 DEF Issue, Lease
<1>2. ASSUME NEW h \in Handles, Revoke(h) PROVE Types'
  BY <1>2 DEF Revoke, Gone, Lease
<1>3. ASSUME NEW s \in Spenders, NEW h \in Handles, NEW scope \in SecretScopes,
             BeginConsume(s, h, scope)
      PROVE  Types'
  BY <1>3 DEF BeginConsume, Consuming
<1>4. ASSUME NEW s \in Spenders, AdmitUse(s) PROVE Types'
  <2> DEFINE h == spend[s].handle
  <2>1. spend[s] \in Consuming /\ h \in Handles
    BY <1>4 DEF AdmitUse, Resting, Consuming
  <2>2. leases[h].state = "live" => Spend(leases[h]) \in Lease
    BY <2>1, SpendLeaves DEF Accounted
  <2>3. Gone(leases[h]) \in Lease
    BY <2>1 DEF Gone, Lease
  <2>4. leases' \in [Handles -> Lease]
    BY <1>4, <2>1, <2>2, <2>3 DEF AdmitUse
  <2>5. spend' \in [Spenders -> {Resting} \union Consuming]
    BY <1>4, <2>1 DEF AdmitUse, Consuming
  <2>6. spent' \in [Handles -> Nat]
    BY <1>4, <2>1 DEF AdmitUse
  <2> QED
    BY <1>4, <2>4, <2>5, <2>6 DEF AdmitUse
<1>5. ASSUME NEW s \in Spenders, Deliver(s) PROVE Types'
  <2>1. spend[s] \in Consuming
    BY <1>5 DEF Deliver, Resting, Consuming
  <2> QED
    BY <1>5, <2>1 DEF Deliver, Consuming
<1>6. CASE SecondPasses
  BY <1>6 DEF SecondPasses
<1>7. CASE ToggleAlias
  BY <1>7 DEF ToggleAlias
<1> QED
  BY <1>1, <1>2, <1>3, <1>4, <1>5, <1>6, <1>7 DEF SecretsNext

(* A use is counted when the lock is held, against the lease it is of.     *)
LEMMA StepAccounts ==
  ASSUME LeasesInv, SecretsNext
  PROVE  \A g \in Handles : Accounted(g)'
<1> USE SecretsAssumption DEF LeasesInv, Types
<1>1. ASSUME NEW h \in Handles, NEW scope \in SecretScopes, NEW uses \in 1..MaxUses,
             Issue(h, scope, uses)
      PROVE  \A g \in Handles : Accounted(g)'
  BY <1>1 DEF Issue, Accounted
<1>2. ASSUME NEW h \in Handles, Revoke(h)
      PROVE  \A g \in Handles : Accounted(g)'
  BY <1>2 DEF Revoke, Gone, Accounted, Lease
<1>3. ASSUME NEW s \in Spenders, AdmitUse(s)
      PROVE  \A g \in Handles : Accounted(g)'
  <2>0. spend[s].handle \in Handles
    BY <1>3 DEF AdmitUse, Resting, Consuming
  <2>1. PICK h \in Handles : h = spend[s].handle
    BY <2>0
  <2> DEFINE letIn == /\ leases[h].state = "live" /\ ~Expired(leases[h], spend[s].time)
                         /\ leases[h].scope = spend[s].scope
  <2>2. \A g \in Handles \ {h} : leases'[g] = leases[g] /\ spent'[g] = spent[g]
    BY <1>3, <2>1 DEF AdmitUse
  <2>3. CASE letIn
    <3>1. leases'[h] = Spend(leases[h]) /\ spent'[h] = spent[h] + 1
      BY <1>3, <2>1, <2>3 DEF AdmitUse, MayUse
    <3>2. /\ leases[h].remaining \in Nat /\ spent[h] \in Nat
          /\ leases[h].scope \in Trusted /\ leases[h].remaining >= 1
          /\ leases[h].granted \in Nat /\ spent[h] + leases[h].remaining = leases[h].granted
      BY <2>1, <2>3 DEF Accounted, Lease
    <3>3. /\ leases'[h].state \in {"live", "gone"} /\ leases'[h].scope = leases[h].scope
          /\ leases'[h].granted = leases[h].granted
          /\ leases'[h].state = "live" => /\ leases'[h].remaining >= 1
                                          /\ leases'[h].remaining = leases[h].remaining - 1
      BY <2>1, <2>3, <3>1, <3>2, SpendLeaves
    <3>4. Accounted(h)'
      <4> HIDE DEF LeasesInv, Types
      <4> QED
        BY <3>1, <3>2, <3>3 DEF Accounted
    <3> QED
      BY <2>2, <3>4 DEF Accounted
  <2>4. CASE ~letIn
    <3>1. spent' = spent /\ leases'[h] \in {leases[h], Gone(leases[h])}
      BY <1>3, <2>1, <2>4 DEF AdmitUse, MayUse
    <3>2. CASE leases'[h] = leases[h]
      BY <2>1, <2>2, <3>1, <3>2 DEF Accounted
    <3>3. CASE leases'[h] = Gone(leases[h])
      <4>1. leases'[h].state = "gone" /\ leases'[h].granted = leases[h].granted
        BY <2>1, <3>3 DEF Gone, Lease
      <4> QED
        BY <2>1, <2>2, <3>1, <4>1 DEF Accounted
    <3> QED
      BY <3>1, <3>2, <3>3
  <2> QED
    BY <2>3, <2>4
<1>4. ASSUME UNCHANGED <<leases, spent>>
      PROVE  \A g \in Handles : Accounted(g)'
  BY <1>4 DEF Accounted
<1> QED
  BY <1>1, <1>2, <1>3, <1>4 DEF SecretsNext, BeginConsume, Deliver, SecondPasses, ToggleAlias

(* A thread is let in by the lease it was checked against, and stays so.   *)
LEMMA StepLetsIn ==
  ASSUME LeasesInv, SecretsNext
  PROVE  \A t \in Spenders : LetIn(t)'
<1> USE DEF LeasesInv, Types
<1>1. \A t \in Spenders : LetIn(t) /\ spend'[t] = spend[t] => LetIn(t)'
  BY StepKeeps DEF LetIn, Keeps, Consuming, Resting
<1>2. ASSUME NEW s \in Spenders, NEW h \in Handles, NEW scope \in SecretScopes,
             BeginConsume(s, h, scope)
      PROVE  \A t \in Spenders : LetIn(t)'
  <2>1. spend'[s].pc = "admitting" /\ \A t \in Spenders \ {s} : spend'[t] = spend[t]
    BY <1>2 DEF BeginConsume
  <2>2. LetIn(s)'
    BY <2>1 DEF LetIn
  <2> QED
    BY <1>1, <2>1, <2>2
<1>3. ASSUME NEW s \in Spenders, AdmitUse(s)
      PROVE  \A t \in Spenders : LetIn(t)'
  <2> DEFINE h == spend[s].handle
             letIn == /\ leases[h].state = "live" /\ ~Expired(leases[h], spend[s].time)
                         /\ leases[h].scope = spend[s].scope
  <2>1. spend[s] \in Consuming /\ h \in Handles
    BY <1>3 DEF AdmitUse, Resting, Consuming
  <2>2. \A t \in Spenders \ {s} : spend'[t] = spend[t]
    BY <1>3 DEF AdmitUse
  <2>3. spend'[s] = [spend[s] EXCEPT !.pc = IF letIn THEN "resolving" ELSE "refused"]
    BY <1>3 DEF AdmitUse, MayUse
  <2>4. CASE letIn
    <3>1. /\ leases[h] \in Lease /\ leases[h].scope \in Trusted
          /\ spend[s].time < leases[h].expires
      BY <2>1, <2>4, SecretsAssumption DEF Accounted, Expired, Lease, Consuming
    <3>2. Keeps(leases[h], leases'[h])
      BY <2>1, StepKeeps
    <3>3. spend'[s].handle = h /\ spend'[s].scope = spend[s].scope /\ spend'[s].time = spend[s].time
      BY <2>1, <2>3 DEF Consuming
    <3>4. LetIn(s)'
      BY <2>4, <3>1, <3>2, <3>3 DEF LetIn, Keeps
    <3> QED
      BY <1>1, <2>2, <3>4
  <2>5. CASE ~letIn
    <3>1. spend'[s].pc = "refused"
      BY <2>1, <2>3, <2>5 DEF Consuming
    <3>2. LetIn(s)'
      BY <3>1 DEF LetIn
    <3> QED
      BY <1>1, <2>2, <3>2
  <2> QED
    BY <2>4, <2>5
<1>4. ASSUME NEW s \in Spenders, Deliver(s)
      PROVE  \A t \in Spenders : LetIn(t)'
  <2>1. spend[s] \in Consuming /\ \A t \in Spenders \ {s} : spend'[t] = spend[t]
    BY <1>4 DEF Deliver, Resting, Consuming
  <2>2. /\ spend'[s].handle = spend[s].handle /\ spend'[s].scope = spend[s].scope
        /\ spend'[s].time = spend[s].time /\ leases' = leases /\ spend[s].pc = "resolving"
    BY <1>4, <2>1 DEF Deliver, Consuming
  <2>3. LetIn(s)'
    BY <2>2 DEF LetIn
  <2> QED
    BY <1>1, <2>1, <2>3
<1>5. ASSUME UNCHANGED spend
      PROVE  \A t \in Spenders : LetIn(t)'
  BY <1>1, <1>5
<1> QED
  BY <1>2, <1>3, <1>4, <1>5 DEF SecretsNext, Issue, Revoke, SecondPasses, ToggleAlias

-----------------------------------------------------------------------------
(* The invariant, for every step.                                          *)
THEOREM SecretsInvariance == SecretsSpec => []LeasesInv
<1>1. LeasesInv /\ [SecretsNext]_secrets => LeasesInv'
  <2>1. CASE SecretsNext
    BY <2>1, StepTypes, StepAccounts, StepLetsIn DEF LeasesInv
  <2>2. CASE UNCHANGED secrets
    BY <2>2 DEF secrets, LeasesInv, Types, Accounted, LetIn
  <2> QED
    BY <2>1, <2>2
<1> QED
  BY <1>1, LeasesInit, PTL DEF SecretsSpec

(* No handle is spent more often than it was issued for, and a secret goes *)
(* only to the consumer of its scope, on a call begun in time.             *)
THEOREM UsesHold == SecretsSpec => [](SecretsTypeOK /\ UsesAreBounded /\ DeliveredInScope)
<1>1. LeasesInv => SecretsTypeOK
  BY DEF LeasesInv, Types, SecretsTypeOK, Consuming, Resting
<1>2. LeasesInv => UsesAreBounded
  BY DEF LeasesInv, Types, Accounted, UsesAreBounded
<1>3. LeasesInv => DeliveredInScope
  BY DEF LeasesInv, LetIn, DeliveredInScope
<1> QED
  BY <1>1, <1>2, <1>3, SecretsInvariance, PTL

(* A lease that was revoked, has expired or is used up admits nobody.      *)
LEMMA StepLeavesGone ==
  ASSUME LeasesInv, SecretsNext, NEW g \in Handles, leases[g].state = "gone"
  PROVE  leases'[g] = leases[g] /\ spent'[g] = spent[g]
<1> USE DEF LeasesInv, Types
<1>1. ASSUME NEW s \in Spenders, AdmitUse(s)
      PROVE  leases'[g] = leases[g] /\ spent'[g] = spent[g]
  <2>1. spend[s].handle \in Handles
    BY <1>1 DEF AdmitUse, Resting, Consuming
  <2> QED
    BY <1>1, <2>1 DEF AdmitUse, MayUse
<1>2. ASSUME NEW h \in Handles, NEW scope \in SecretScopes, NEW uses \in 1..MaxUses,
             Issue(h, scope, uses)
      PROVE  leases'[g] = leases[g] /\ spent'[g] = spent[g]
  BY <1>2 DEF Issue
<1>3. ASSUME NEW h \in Handles, Revoke(h)
      PROVE  leases'[g] = leases[g] /\ spent'[g] = spent[g]
  BY <1>3 DEF Revoke
<1> QED
  BY <1>1, <1>2, <1>3 DEF SecretsNext, BeginConsume, Deliver, SecondPasses, ToggleAlias

(* The broker's promise: bounded uses, in scope, and never again once the  *)
(* lease is gone.                                                          *)
THEOREM SecretsAreBoundedHolds == SecretsSpec => SecretsAreBounded
<1> DEFINE Untouched == \A h \in Handles : leases[h].state = "gone" =>
                          leases'[h] = leases[h] /\ spent'[h] = spent[h]
<1>1. LeasesInv /\ [SecretsNext]_secrets => [Untouched]_secrets
  BY StepLeavesGone
<1>2. GoneIsGone <=> [][Untouched]_secrets
  BY DEF GoneIsGone
<1> HIDE DEF Untouched
<1>3. SecretsSpec => GoneIsGone
  BY <1>1, <1>2, SecretsInvariance, PTL DEF SecretsSpec
<1>4. [](SecretsTypeOK /\ UsesAreBounded /\ DeliveredInScope) /\ GoneIsGone <=> SecretsAreBounded
  BY DEF SecretsAreBounded
<1> QED
  BY <1>3, <1>4, UsesHold, PTL

-----------------------------------------------------------------------------
(* The approved call.  Past the consumption of its approval a call is the  *)
(* only one that ever will be; a call without one goes on its caller's     *)
(* word; and what was done is what a call that is done was started for.    *)

Steps == {"loading", "consuming", "issuing", "executing", "done", "refused"}
Rows == [status : {"absent"}]
          \cup [status : {"pending", "approved", "denied", "consumed"}, intent : Intents]
Started == [step : Steps, intent : Intents, approval : Approvals \cup {NoApproval},
            said : BOOLEAN, ticket : Intents \cup {NoApproval}]

CallTypes ==
  /\ granted \in [Approvals -> Rows]
  /\ run \in [Runs -> {NoRun} \cup Started]
  /\ \A e \in effects : e \in Runs \X Intents \X (Approvals \cup {NoApproval})

Past(r) == run[r].step \in {"issuing", "executing", "done"} /\ run[r].approval \in Approvals

Bound(r) ==
  Past(r) => granted[run[r].approval] = [status |-> "consumed", intent |-> run[r].intent]

Alone(r, q) == Past(r) /\ Past(q) /\ run[r].approval = run[q].approval => r = q

(* How a call comes to have a reference, or to need none of an approval.   *)
Worded(r) ==
  /\ run[r].step = "loading" => run[r].ticket = NoApproval
  /\ run[r].step = "consuming" => run[r].approval # NoApproval
  /\ run[r].step = "issuing" => run[r].approval # NoApproval \/ run[r].said
  /\ run[r].step = "executing" /\ run[r].ticket # NoApproval =>
       run[r].approval # NoApproval \/ run[r].said
  /\ run[r].step = "done" => run[r].approval # NoApproval \/ run[r].said

Did(e) == run[e[1]].step = "done" /\ run[e[1]].intent = e[2] /\ run[e[1]].approval = e[3]

CallsInv ==
  /\ CallTypes
  /\ \A r \in Runs : Bound(r) /\ Worded(r)
  /\ \A r, q \in Runs : Alone(r, q)
  /\ \A e \in effects : Did(e)

LEMMA CallsInit == ApprovedInit => CallsInv
  BY DEF ApprovedInit, CallsInv, CallTypes, Rows, NoRun, Past, Bound, Alone, Worded

(* A step that lets no call past its consumption, and moves none that is   *)
(* done, keeps what the rows of consumed approvals say.                    *)
LEMMA QuietStep ==
  ASSUME CallsInv, CallTypes', UNCHANGED effects,
         \A r \in Runs : Past(r)' => Past(r) /\ run'[r].approval = run[r].approval
                                             /\ run'[r].intent = run[r].intent,
         \A r \in Runs : run[r].step = "done" => run'[r] = run[r],
         \A r \in Runs : Worded(r)',
         \A a \in Approvals : granted[a].status = "consumed" => granted'[a] = granted[a]
  PROVE  CallsInv'
<1>1. \A r \in Runs : Bound(r)'
  BY DEF CallsInv, Bound, Past
<1>2. \A r, q \in Runs : Alone(r, q)'
  BY DEF CallsInv, Alone
<1>3. \A e \in effects' : Did(e)'
  BY DEF CallsInv, CallTypes, Did
<1> QED
  BY <1>1, <1>2, <1>3 DEF CallsInv

(* The operator asks for an approval and decides on it.                    *)
LEMMA OperatorStep ==
  ASSUME CallsInv, NEW a \in Approvals,
         \/ \E i \in Intents : RequestIntent(a, i)
         \/ \E d \in {"approved", "denied"} : DecideApproval(a, d)
  PROVE  CallsInv'
<1> USE DEF RequestIntent, DecideApproval
<1>1. UNCHANGED <<run, effects>>
  OBVIOUS
<1>2. granted[a].status # "consumed" /\ \A b \in Approvals \ {a} : granted'[b] = granted[b]
  BY DEF CallsInv, CallTypes
<1>3. CallTypes'
  BY <1>1 DEF CallsInv, CallTypes, Rows
<1>4. \A r \in Runs : Worded(r)'
  BY <1>1 DEF CallsInv, Worded
<1> QED
  BY <1>1, <1>2, <1>3, <1>4, QuietStep DEF Past

LEMMA StartStep ==
  ASSUME CallsInv, NEW s \in Runs, NEW i \in Intents, NEW a \in Approvals \cup {NoApproval},
         NEW said \in BOOLEAN, StartRun(s, i, a, said)
  PROVE  CallsInv'
<1> USE DEF StartRun, CallsInv, CallTypes
<1>1. run'[s].step = "loading" /\ run'[s].ticket = NoApproval
  OBVIOUS
<1>2. \A r \in Runs \ {s} : run'[r] = run[r]
  OBVIOUS
<1>3. CallTypes'
  BY DEF Started, Steps
<1>4. \A r \in Runs : Worded(r)'
  BY <1>1, <1>2 DEF Worded
<1>5. run[s].step = "idle"
  BY DEF NoRun
<1> QED
  BY <1>1, <1>2, <1>3, <1>4, <1>5, QuietStep DEF Past

(* The steps of a call that has been started move it and nothing else.     *)
LEMMA MoveOf ==
  ASSUME CallsInv, NEW s \in Runs, NEW step \in Steps, run[s] # NoRun, RunGoes(s, step)
  PROVE  /\ run' \in [Runs -> {NoRun} \cup Started]
         /\ run[s] \in Started /\ run'[s].step = step /\ run'[s].intent = run[s].intent
         /\ run'[s].approval = run[s].approval /\ run'[s].said = run[s].said
         /\ run'[s].ticket = run[s].ticket
         /\ \A r \in Runs \ {s} : run'[r] = run[r]
<1>1. run[s] \in Started
  BY DEF CallsInv, CallTypes
<1> QED
  BY <1>1 DEF CallsInv, CallTypes, RunGoes, Started

LEMMA LoadStep ==
  ASSUME CallsInv, NEW s \in Runs, LoadForRun(s)
  PROVE  CallsInv'
<1> DEFINE next == IF run[s].approval # NoApproval THEN "consuming"
                   ELSE IF run[s].said THEN "issuing" ELSE "executing"
<1>1. /\ run[s] # NoRun /\ run[s].step = "loading" /\ RunGoes(s, next)
      /\ next \in Steps /\ UNCHANGED <<granted, effects>>
  BY DEF LoadForRun, RunAt, Steps
<1>2. /\ run'[s].approval = run[s].approval /\ run'[s].step = next
      /\ run'[s].said = run[s].said /\ run'[s].ticket = run[s].ticket
      /\ \A r \in Runs \ {s} : run'[r] = run[r]
  BY <1>1, MoveOf
<1>3. CallTypes'
  BY <1>1, MoveOf DEF CallsInv, CallTypes
<1>4. ~Past(s)'
  BY <1>1, <1>2, ApprovedAssumption DEF Past
<1>5. \A r \in Runs : Worded(r)'
  BY <1>1, <1>2 DEF CallsInv, Worded
<1> QED
  BY <1>1, <1>2, <1>3, <1>4, <1>5, QuietStep DEF Past

LEMMA AbandonStep ==
  ASSUME CallsInv, NEW s \in Runs, AbandonRun(s)
  PROVE  CallsInv'
<1>1. /\ run[s] # NoRun /\ run[s].step # "done" /\ RunGoes(s, "refused")
      /\ "refused" \in Steps /\ UNCHANGED <<granted, effects>>
  BY DEF AbandonRun, Steps
<1>2. run'[s].step = "refused" /\ \A r \in Runs \ {s} : run'[r] = run[r]
  BY <1>1, MoveOf
<1>3. CallTypes'
  BY <1>1, MoveOf DEF CallsInv, CallTypes
<1>4. \A r \in Runs : Worded(r)'
  BY <1>2 DEF CallsInv, Worded
<1> QED
  BY <1>1, <1>2, <1>3, <1>4, QuietStep DEF Past

(* consume: the row is approved for exactly this intent, so no other call  *)
(* is past it, and it is consumed from then on.                            *)
LEMMA ConsumeStep ==
  ASSUME CallsInv, NEW s \in Runs, ConsumeForRun(s)
  PROVE  CallsInv'
<1>1. run[s] # NoRun /\ run[s].step = "consuming" /\ UNCHANGED effects
  BY DEF ConsumeForRun, RunAt
<1>2. run[s] \in Started /\ run[s].approval \in Approvals
  BY <1>1 DEF CallsInv, CallTypes, Worded, Started
<1>3. CASE ~Consumable(s)
  <2>1. RunGoes(s, "refused") /\ "refused" \in Steps /\ UNCHANGED granted
    BY <1>3 DEF ConsumeForRun, Steps
  <2>2. run'[s].step = "refused" /\ \A r \in Runs \ {s} : run'[r] = run[r]
    BY <1>1, <2>1, MoveOf
  <2>3. CallTypes'
    BY <1>1, <2>1, MoveOf DEF CallsInv, CallTypes
  <2>4. \A r \in Runs : Worded(r)'
    BY <2>2 DEF CallsInv, Worded
  <2> QED
    BY <1>1, <2>1, <2>2, <2>3, <2>4, QuietStep DEF Past
<1>4. CASE Consumable(s)
  <2>1. /\ RunGoes(s, "issuing") /\ "issuing" \in Steps
        /\ granted' = [granted EXCEPT ![run[s].approval].status = "consumed"]
    BY <1>4 DEF ConsumeForRun, Steps
  <2>2. /\ run'[s].step = "issuing" /\ run'[s].approval = run[s].approval
        /\ run'[s].intent = run[s].intent /\ \A r \in Runs \ {s} : run'[r] = run[r]
    BY <1>1, <2>1, MoveOf
  <2>3. granted[run[s].approval] = [status |-> "approved", intent |-> run[s].intent]
    BY <1>4 DEF Consumable
  <2>4. granted'[run[s].approval] = [status |-> "consumed", intent |-> run[s].intent]
    BY <1>2, <2>1, <2>3 DEF CallsInv, CallTypes
  <2>5. \A b \in Approvals : b # run[s].approval => granted'[b] = granted[b]
    BY <1>2, <2>1 DEF CallsInv, CallTypes
  <2>6. CallTypes'
    <3>1. granted' \in [Approvals -> Rows]
      BY <1>2, <2>1, <2>4, <2>5 DEF CallsInv, CallTypes, Rows, Started
    <3> QED
      BY <1>1, <2>1, <3>1, MoveOf DEF CallsInv, CallTypes
  <2>7. \A r \in Runs : Past(r) => run[r].approval # run[s].approval
    <3>1. granted[run[s].approval].status # "consumed"
      BY <2>3
    <3>2. ASSUME NEW r \in Runs, Past(r)
          PROVE  granted[run[r].approval].status = "consumed"
      <4>1. granted[run[r].approval] = [status |-> "consumed", intent |-> run[r].intent]
        BY <3>2 DEF CallsInv, Bound
      <4> QED
        BY <4>1
    <3> QED
      BY <3>1, <3>2
  <2>8. \A r \in Runs : Bound(r)' /\ Worded(r)'
    <3>1. Bound(s)' /\ Worded(s)'
      BY <1>2, <2>2, <2>4, ApprovedAssumption DEF Bound, Worded
    <3>2. \A r \in Runs \ {s} : Bound(r)' /\ Worded(r)'
      BY <2>2, <2>5, <2>7 DEF CallsInv, Bound, Worded, Past
    <3> QED
      BY <3>1, <3>2
  <2>9. \A r, q \in Runs : Alone(r, q)'
    BY <2>2, <2>7 DEF CallsInv, Alone, Past
  <2>10. \A e \in effects' : Did(e)'
    BY <1>1, <2>2 DEF CallsInv, CallTypes, Did
  <2> QED
    BY <2>6, <2>8, <2>9, <2>10 DEF CallsInv
<1> QED
  BY <1>3, <1>4

(* The reference issued is for the call's own intent.                      *)
LEMMA IssueStep ==
  ASSUME CallsInv, NEW s \in Runs, IssueTicket(s)
  PROVE  CallsInv'
<1>1. /\ run[s] # NoRun /\ run[s].step = "issuing" /\ UNCHANGED <<granted, effects>>
      /\ run' = [run EXCEPT ![s] = [@ EXCEPT !.step = "executing", !.ticket = run[s].intent]]
  BY DEF IssueTicket, RunAt
<1>2. run[s] \in Started
  BY <1>1 DEF CallsInv, CallTypes
<1>3. run'[s] = [run[s] EXCEPT !.step = "executing", !.ticket = run[s].intent]
  BY <1>1 DEF CallsInv, CallTypes
<1>4. /\ run'[s] \in Started /\ run'[s].step = "executing" /\ run'[s].intent = run[s].intent
      /\ run'[s].approval = run[s].approval /\ run'[s].said = run[s].said
  BY <1>2, <1>3 DEF Started, Steps
<1>5. \A r \in Runs \ {s} : run'[r] = run[r]
  BY <1>1 DEF CallsInv, CallTypes
<1>6. CallTypes'
  BY <1>1, <1>4 DEF CallsInv, CallTypes
<1>7. \A r \in Runs : Worded(r)'
  BY <1>1, <1>4, <1>5 DEF CallsInv, Worded
<1> QED
  BY <1>1, <1>4, <1>5, <1>6, <1>7, QuietStep DEF Past

(* The provider acts, for the intent the reference was issued for.         *)
LEMMA ExecuteStep ==
  ASSUME CallsInv, NEW s \in Runs, ExecuteRun(s)
  PROVE  CallsInv'
<1>1. /\ run[s] # NoRun /\ run[s].step = "executing" /\ run[s].ticket = run[s].intent
      /\ RunGoes(s, "done") /\ "done" \in Steps /\ granted' = granted
      /\ effects' = effects \cup {<<s, run[s].intent, run[s].approval>>}
  BY DEF ExecuteRun, RunAt, Steps
<1>2. /\ run[s] \in Started /\ run'[s].step = "done" /\ run'[s].intent = run[s].intent
      /\ run'[s].approval = run[s].approval /\ run'[s].said = run[s].said
      /\ \A r \in Runs \ {s} : run'[r] = run[r]
  BY <1>1, MoveOf
<1>3. run[s].intent \in Intents /\ run[s].approval \in Approvals \cup {NoApproval}
  BY <1>2 DEF Started
<1>4. CallTypes'
  BY <1>1, <1>3, MoveOf DEF CallsInv, CallTypes
<1>5. \A r \in Runs : Bound(r)' /\ Worded(r)'
  <2>1. run[s].approval # NoApproval \/ run[s].said
    BY <1>1, <1>3, ApprovedAssumption DEF CallsInv, Worded
  <2>2. Bound(s)' /\ Worded(s)'
    BY <1>1, <1>2, <2>1 DEF CallsInv, Bound, Worded, Past
  <2>3. \A r \in Runs \ {s} : Bound(r)' /\ Worded(r)'
    BY <1>1, <1>2 DEF CallsInv, Bound, Worded, Past
  <2> QED
    BY <2>2, <2>3
<1>6. \A r, q \in Runs : Alone(r, q)'
  <2>1. \A r \in Runs : Past(r)' => Past(r) /\ run'[r].approval = run[r].approval
    BY <1>1, <1>2 DEF Past
  <2> QED
    BY <2>1 DEF CallsInv, Alone
<1>7. \A e \in effects' : Did(e)'
  BY <1>1, <1>2 DEF CallsInv, CallTypes, Did
<1> QED
  BY <1>4, <1>5, <1>6, <1>7 DEF CallsInv

(* The invariant of the approved call, for every step.                     *)
THEOREM ApprovedInvariance == ApprovedSpec => []CallsInv
<1>1. CallsInv /\ [ApprovedNext]_approvedCalls => CallsInv'
  <2> SUFFICES ASSUME CallsInv, [ApprovedNext]_approvedCalls PROVE CallsInv'
    OBVIOUS
  <2>1. CASE UNCHANGED approvedCalls
    BY <2>1 DEF approvedCalls, CallsInv, CallTypes, Bound, Worded, Alone, Did, Past
  <2>2. CASE ApprovedNext
    BY <2>2, OperatorStep, StartStep, LoadStep, ConsumeStep, IssueStep, ExecuteStep, AbandonStep
    DEF ApprovedNext
  <2> QED
    BY <2>1, <2>2
<1> QED
  BY <1>1, CallsInit, PTL DEF ApprovedSpec

(* However many calls were given the same approval, it lets the provider   *)
(* act once, and on what was approved.                                     *)
THEOREM ApprovedOnceHolds == ApprovedSpec => []ApprovedOnce
<1>1. ASSUME CallsInv
      PROVE  ApprovedOnce
  <2>1. \A e \in effects : IF e[3] = NoApproval THEN run[e[1]].said
                            ELSE granted[e[3]] = [status |-> "consumed", intent |-> e[2]]
    <3> SUFFICES ASSUME NEW e \in effects
                 PROVE  IF e[3] = NoApproval THEN run[e[1]].said
                        ELSE granted[e[3]] = [status |-> "consumed", intent |-> e[2]]
      OBVIOUS
    <3>1. /\ e[1] \in Runs /\ e[3] \in Approvals \cup {NoApproval} /\ run[e[1]].step = "done"
          /\ run[e[1]].intent = e[2] /\ run[e[1]].approval = e[3]
      BY <1>1 DEF CallsInv, CallTypes, Did
    <3>2. Bound(e[1]) /\ Worded(e[1])
      BY <1>1, <3>1 DEF CallsInv
    <3> QED
      BY <3>1, <3>2 DEF Bound, Past, Worded
  <2>2. ASSUME NEW a \in Approvals
        PROVE  Cardinality({e \in effects : e[3] = a}) <= 1
    <3>1. ASSUME NEW e \in effects, NEW f \in effects, e[3] = a, f[3] = a
          PROVE  e = f
      <4>1. /\ e \in Runs \X Intents \X (Approvals \cup {NoApproval})
            /\ f \in Runs \X Intents \X (Approvals \cup {NoApproval})
            /\ Did(e) /\ Did(f)
        BY <1>1 DEF CallsInv, CallTypes
      <4>2. Past(e[1]) /\ Past(f[1])
        BY <3>1, <4>1 DEF Did, Past
      <4>3. e[1] = f[1]
        BY <1>1, <3>1, <4>1, <4>2 DEF CallsInv, Alone, Did
      <4>4. e[2] = f[2]
        BY <4>1, <4>3 DEF Did
      <4> QED
        BY <3>1, <4>1, <4>3, <4>4
    <3>2. CASE {e \in effects : e[3] = a} = {}
      BY <3>2, FS_EmptySet
    <3>3. CASE {e \in effects : e[3] = a} # {}
      <4>1. PICK e \in effects : e[3] = a
        BY <3>3
      <4>2. {f \in effects : f[3] = a} = {e}
        BY <3>1, <4>1
      <4> QED
        BY <4>2, FS_Singleton
    <3> QED
      BY <3>2, <3>3
  <2> QED
    BY <2>1, <2>2 DEF ApprovedOnce
<1> QED
  BY <1>1, ApprovedInvariance, PTL

-----------------------------------------------------------------------------
(* The checkpoint observer.                                                *)
Underway == [at : {"checked", "online", "answered", "verified"}, bundle : Checkpoints,
             now : Nat, current : Checkpoints, transition : Transitions \union {OtherUpdate}]
Turned   == [at : {"refused"}, code : {"replayed", "fork", "online"},
             transition : Transitions \union {OtherUpdate}]

LogTypes ==
  /\ published \subseteq Checkpoints /\ minute \in Nat
  /\ verifying \in [Verifiers -> {Idle} \union Underway \union Turned]
  /\ lastSeen \in Checkpoints \union {NoCheckpoint} /\ observed \subseteq Checkpoints

(* What the observer keeps is the last of what it let pass.                *)
Remembered == /\ lastSeen = NoCheckpoint => observed = {}
              /\ lastSeen # NoCheckpoint => lastSeen \in observed

LogInv == LogTypes /\ Remembered /\ ObservedOnlyGrows

LEMMA LogStarts == TransparencyInit => LogInv
  BY DEF TransparencyInit, LogInv, LogTypes, Remembered, ObservedOnlyGrows, UpdateBundle,
         Checkpoint, Checkpoints, Idle

(* What passes the observer extends the one log.                           *)
LEMMA ObserveKeeps ==
  ASSUME LogInv, NEW v \in Verifiers, NEW c \in Checkpoints, NEW next \in {"online", "verified"},
         verifying[v] \in Underway, Observe(v, c, next), UNCHANGED <<published, minute>>
  PROVE  LogInv'
<1>1. CASE Replayed(c) \/ Forked(c)
  <2>1. UNCHANGED <<lastSeen, observed>> /\ \E code \in {"replayed", "fork"} : Refuse(v, code)
    BY <1>1 DEF Observe
  <2>2. LogTypes'
    BY <2>1 DEF LogInv, LogTypes, Refuse, Underway, Turned
  <2> QED
    BY <2>1, <2>2 DEF LogInv, Remembered, ObservedOnlyGrows, SameTree
<1>2. CASE ~Replayed(c) /\ ~Forked(c)
  <2>1. Go(v, next) /\ lastSeen' = c /\ observed' = observed \union {c}
    BY <1>2 DEF Observe
  <2>2. verifying'[v] \in Underway /\ LogTypes'
    BY <2>1 DEF LogInv, LogTypes, Go, Underway
  <2>3. Remembered'
    BY <2>1, TransparencyAssumption DEF Remembered
  <2>4. \A d \in observed : /\ d.size <= c.size /\ d.time <= c.time
                            /\ d.size = c.size => SameTree(c, d) /\ SameTree(d, c)
    <3> SUFFICES ASSUME NEW d \in observed
                 PROVE  /\ d.size <= c.size /\ d.time <= c.time
                        /\ d.size = c.size => SameTree(c, d) /\ SameTree(d, c)
      OBVIOUS
    <3>1. lastSeen \in observed /\ lastSeen \in Checkpoints /\ d \in Checkpoints
      BY DEF LogInv, LogTypes, Remembered
    <3>2. /\ d.size <= lastSeen.size /\ d.time <= lastSeen.time
          /\ d.size = lastSeen.size => SameTree(d, lastSeen)
      BY <3>1 DEF LogInv, ObservedOnlyGrows
    <3>3. /\ lastSeen.size <= c.size /\ lastSeen.time <= c.time
          /\ c.size = lastSeen.size => SameTree(c, lastSeen)
      BY <1>2, <3>1, TransparencyAssumption DEF Replayed, Forked, Checkpoints
    <3> QED
      BY <3>1, <3>2, <3>3, TransparencyAssumption DEF SameTree, Checkpoints
  <2>5. ObservedOnlyGrows'
    BY <2>1, <2>4 DEF LogInv, LogTypes, ObservedOnlyGrows, SameTree, Checkpoints
  <2> QED
    BY <2>2, <2>3, <2>5 DEF LogInv
<1> QED
  BY <1>1, <1>2

(* Of the other steps none touches what was observed, but a restart that   *)
(* forgets it.                                                             *)
LEMMA LogSteps == LogInv /\ [TransparencyNext]_transparency => LogInv'
<1> SUFFICES ASSUME LogInv, [TransparencyNext]_transparency PROVE LogInv'
  OBVIOUS
<1>1. ASSUME UNCHANGED <<lastSeen, observed>>, LogTypes' PROVE LogInv'
  BY <1>1 DEF LogInv, Remembered, ObservedOnlyGrows, SameTree
<1>2. CASE UNCHANGED transparency
  <2>1. LogTypes'
    BY <1>2 DEF transparency, LogInv, LogTypes
  <2> QED
    BY <1>1, <1>2, <2>1 DEF transparency
<1>3. ASSUME NEW branch \in {"main", "fork"}, NEW grows \in BOOLEAN, Publish(branch, grows)
      PROVE  LogInv'
  <2>1. \E n \in Nat : published' = published \union {Checkpoint(n, branch, minute)}
    BY <1>3, TransparencyAssumption DEF Publish
  <2>2. LogTypes'
    BY <1>3, <2>1 DEF Publish, LogInv, LogTypes, Checkpoint, Checkpoints
  <2> QED
    BY <1>1, <1>3, <2>2 DEF Publish
<1>4. ASSUME NEW v \in Verifiers, NEW c \in published,
             NEW t \in Transitions \union {OtherUpdate}, BeginVerify(v, c, t)
      PROVE  LogInv'
  <2>1. LogTypes'
    BY <1>4 DEF BeginVerify, LogInv, LogTypes, Underway
  <2> QED
    BY <1>1, <1>4, <2>1 DEF BeginVerify
<1>5. ASSUME NEW v \in Verifiers, NEW c \in published \union {NoCheckpoint}, AskOnline(v, c)
      PROVE  LogInv'
  <2>1. verifying[v] \in Underway
    BY <1>5 DEF AskOnline, LogInv, LogTypes, Idle, Turned
  <2>2. CASE Refuse(v, "online")
    <3>1. verifying' \in [Verifiers -> {Idle} \union Underway \union Turned]
      BY <2>1, <2>2 DEF Refuse, LogInv, LogTypes, Underway, Turned
    <3> QED
      BY <1>5, <3>1, <1>1 DEF AskOnline, LogInv, LogTypes
  <2>3. CASE /\ c # NoCheckpoint
             /\ verifying' = [verifying EXCEPT ![v] = [@ EXCEPT !.at = "answered", !.current = c]]
    <3>1. c \in Checkpoints
      BY <2>3 DEF LogInv, LogTypes
    <3>2. [verifying[v] EXCEPT !.at = "answered", !.current = c] \in Underway
      BY <2>1, <3>1 DEF Underway
    <3>3. verifying' \in [Verifiers -> {Idle} \union Underway \union Turned]
      BY <2>3, <3>2 DEF LogInv, LogTypes
    <3> QED
      BY <1>5, <3>3, <1>1 DEF AskOnline, LogInv, LogTypes
  <2> QED
    BY <1>5, <2>2, <2>3 DEF AskOnline
<1>6. ASSUME NEW v \in Verifiers, ObserveBundle(v) \/ ObserveCurrent(v) \/ CommitTransition(v)
      PROVE  LogInv'
  <2>1. verifying[v] \in Underway
    BY <1>6 DEF ObserveBundle, ObserveCurrent, CommitTransition, LogInv, LogTypes, Idle, Turned
  <2>2. verifying[v].bundle \in Checkpoints /\ verifying[v].current \in Checkpoints
    BY <2>1 DEF Underway
  <2>3. CASE ObserveBundle(v)
    BY <2>1, <2>2, <2>3, ObserveKeeps DEF ObserveBundle
  <2>4. CASE ObserveCurrent(v)
    BY <2>1, <2>2, <2>4, ObserveKeeps DEF ObserveCurrent
  <2>5. CASE CommitTransition(v)
    BY <1>1, <2>5 DEF CommitTransition, LogInv, LogTypes
  <2> QED
    BY <1>6, <2>3, <2>4, <2>5
<1>7. CASE MinutePasses
  <2>1. LogTypes'
    BY <1>7 DEF MinutePasses, LogInv, LogTypes
  <2> QED
    BY <1>1, <1>7, <2>1 DEF MinutePasses
<1>8. CASE RestartVerifier
  <2>1. LogTypes'
    BY <1>8 DEF RestartVerifier, LogInv, LogTypes
  <2>2. CASE UNCHANGED <<lastSeen, observed>>
    BY <1>1, <2>1, <2>2
  <2>3. CASE lastSeen' = NoCheckpoint /\ observed' = {}
    BY <2>1, <2>3 DEF LogInv, Remembered, ObservedOnlyGrows
  <2> QED
    BY <1>8, <2>2, <2>3 DEF RestartVerifier
<1> QED
  BY <1>2, <1>3, <1>4, <1>5, <1>6, <1>7, <1>8 DEF TransparencyNext

(* supply_chain_bundle.py 105-193: whatever the log or a fork of it shows, *)
(* to any number of verifications at a time, the observer never lets pass  *)
(* a smaller tree or an earlier time than before, nor two trees of one     *)
(* size.  A fork at a greater size it cannot tell from growth.             *)
THEOREM ObservedOnlyGrowsHolds == TransparencySpec => []ObservedOnlyGrows
<1>1. LogInv => ObservedOnlyGrows
  BY DEF LogInv
<1> QED
  BY <1>1, LogStarts, LogSteps, PTL DEF TransparencySpec

-----------------------------------------------------------------------------
(* The control planes.                                                     *)
Handled == [at : {"arrived", "verified", "accepted", "dispatched", "emitting", "answered"},
            credential : Tickets \union {Nobody}, operation : AdminOperations, session : Nat,
            key : Nat, number : Nat, done : BOOLEAN,
            answer : {"none", "unauthorized", "denied", "failed", "ok"}]
Emitted == [request : Requests, sequence : Nat, outcome : {"success", "failure"}]

PlaneTypes ==
  /\ epoch \in Nat /\ epoch > 0 /\ sequence \in Nat
  /\ request \in [Requests -> {Unsent} \union Handled]
  /\ ticket = [c \in Tickets |-> ticket[c]]
  /\ events \subseteq Emitted
  /\ owner \in [Adapters -> {Nobody} \union DataCertificates \union AdminCertificates]

(* A ticket accepted under the key of today is in the set of nonces, which *)
(* is emptied only when there is no session: before a key has accepted     *)
(* anything, or with a new key.                                            *)
TicketsSpent ==
  \A r \in Requests : Accepted(r) =>
    /\ request[r].session <= epoch
    /\ request[r].session = epoch => live /\ request[r].credential \in consumed

(* A request that was verified holds the key that signed its ticket, which *)
(* once issued does not change; it is accepted in no earlier session.      *)
Signed(c, by) == c \in Tickets /\ ticket[c].at = "issued" /\ ticket[c].key = by
KeyKept(r) ==
  request[r] # Unsent =>
    /\ request[r].at = "arrived" =>
         request[r].credential \in Tickets /\ ticket[request[r].credential].at = "issued"
    /\ request[r].at = "verified" \/ Accepted(r) => request[r].key > 0
    /\ request[r].key > 0 => /\ Signed(request[r].credential, request[r].key)
                             /\ request[r].key <= epoch
    /\ Accepted(r) => request[r].key <= request[r].session
AcceptedApart ==
  \A r, q \in Requests :
    r # q /\ Accepted(r) /\ Accepted(q) /\ request[r].credential = request[q].credential
      => request[r].session # request[q].session

(* What a request has come to.                                             *)
Sound(r) ==
  /\ request[r].at \in {"arrived", "verified", "accepted"} =>
       ~request[r].done /\ request[r].answer = "none"
  /\ request[r].at \in {"arrived", "verified"} => request[r].session = 0
  /\ request[r].at \in {"dispatched", "emitting"} =>
       plane = "admin" /\ request[r].operation \in RoleOperations
  /\ request[r].at = "answered" =>
       /\ request[r].answer = "ok" =>
            /\ request[r].done
            /\ plane = "admin" => \E e \in events : e.request = r /\ e.outcome = "success"
       /\ request[r].done => request[r].answer \in {"ok", "failed"}
       /\ plane = "admin" /\ request[r].done => request[r].operation \in RoleOperations

(* Numbers are given once and used once.                                   *)
Numbered ==
  /\ \A r \in Requests : request[r].at = "emitting" =>
       /\ request[r].number <= sequence
       /\ \A e \in events : e.sequence # request[r].number
       /\ \A q \in Requests : q # r /\ request[q].at = "emitting" =>
            request[q].number # request[r].number
  /\ \A e, f \in events : e.sequence = f.sequence => e = f
  /\ \A e \in events : e.sequence <= sequence

ServesOwner == served \subseteq {<<a, owner[a]>> : a \in {b \in Adapters : owner[b] # Nobody}}

PlaneInv ==
  /\ PlaneTypes /\ TicketsSpent /\ AcceptedApart /\ Numbered /\ ServesOwner
  /\ \A r \in Requests : Sound(r) /\ KeyKept(r)

LEMMA PlaneStarts == ControlPlaneInit => PlaneInv
  BY DEF ControlPlaneInit, PlaneInv, PlaneTypes, TicketsSpent, AcceptedApart, Sound, Numbered,
         KeyKept, ServesOwner, Accepted, Unsent

(* A step that touches no request and emits nothing.                       *)
LEMMA RestKeeps ==
  ASSUME PlaneInv, UNCHANGED <<plane, request, sequence, events, remote>>,
         ticket' = [c \in Tickets |-> ticket'[c]],
         \A c \in Tickets : ticket[c].at = "issued" => ticket'[c] = ticket[c],
         \/ UNCHANGED auth
         \/ ~live /\ consumed' = {} /\ live' \in BOOLEAN /\ epoch' = epoch
         \/ epoch' = epoch + 1
  PROVE  PlaneInv'
<1>1. PlaneTypes' /\ ServesOwner'
  BY DEF PlaneInv, PlaneTypes, ServesOwner, remote, auth
<1>2. TicketsSpent'
  <2>1. ASSUME NEW r \in Requests, Accepted(r)'
        PROVE  /\ Accepted(r) /\ request'[r] = request[r]
               /\ request[r].session \in Nat /\ request[r].session <= epoch
               /\ request[r].session = epoch => live /\ request[r].credential \in consumed
    BY <2>1 DEF PlaneInv, PlaneTypes, Handled, Accepted, TicketsSpent
  <2>2. epoch \in Nat
    BY DEF PlaneInv, PlaneTypes
  <2>3. CASE UNCHANGED auth
    BY <2>1, <2>3 DEF TicketsSpent, auth
  <2>4. CASE ~live /\ consumed' = {} /\ live' \in BOOLEAN /\ epoch' = epoch
    BY <2>1, <2>4 DEF TicketsSpent
  <2>5. CASE epoch' = epoch + 1
    BY <2>1, <2>2, <2>5 DEF TicketsSpent
  <2> QED
    BY <2>3, <2>4, <2>5
<1>3. \A r \in Requests : KeyKept(r)'
  <2>1. epoch \in Nat /\ epoch' \in Nat /\ epoch <= epoch'
    BY DEF PlaneInv, PlaneTypes, auth
  <2>2. ASSUME NEW r \in Requests, request[r] # Unsent PROVE request[r].key \in Nat
    BY <2>2 DEF PlaneInv, PlaneTypes, Handled
  <2> QED
    BY <2>1, <2>2 DEF PlaneInv, KeyKept, Signed, Accepted
<1> QED
  BY <1>1, <1>2, <1>3 DEF PlaneInv, AcceptedApart, Accepted, Sound, Numbered

(* A step of one request that accepts no ticket and emits nothing.         *)
LEMMA RequestMoves ==
  ASSUME PlaneInv, NEW r \in Requests, NEW to \in Handled, Move(r, to),
         UNCHANGED <<plane, server, auth, ticket, sequence, events, remote>>,
         \/ to.session = 0 \/ to.credential = Nobody
         \/ /\ request[r] # Unsent /\ to.session = request[r].session
            /\ to.credential = request[r].credential,
         to.at # "emitting", Sound(r)', KeyKept(r)'
  PROVE  PlaneInv'
<1>1. request'[r] = to /\ (\A q \in Requests : q # r => request'[q] = request[q])
      /\ request' \in [Requests -> {Unsent} \union Handled]
  BY DEF Move, PlaneInv, PlaneTypes
<1>2. \A q \in Requests : Accepted(q)' => /\ Accepted(q)
                                          /\ request'[q].session = request[q].session
                                          /\ request'[q].credential = request[q].credential
  BY <1>1 DEF Accepted, Unsent
<1>3. PlaneTypes' /\ ServesOwner'
  BY <1>1 DEF PlaneInv, PlaneTypes, ServesOwner, remote, auth
<1>4. TicketsSpent' /\ AcceptedApart'
  BY <1>2 DEF PlaneInv, TicketsSpent, AcceptedApart, auth
<1>5. \A q \in Requests : Sound(q)' /\ KeyKept(q)'
  BY <1>1 DEF PlaneInv, Sound, KeyKept, Signed, Accepted, auth
<1>6. Numbered'
  BY <1>1 DEF PlaneInv, Numbered
<1> QED
  BY <1>3, <1>4, <1>5, <1>6 DEF PlaneInv

LEMMA ConsumeKeeps ==
  ASSUME PlaneInv, NEW r \in Requests, Consume(r) PROVE PlaneInv'
<1> DEFINE c == request[r].credential
<1>1. request[r] \in Handled /\ request[r].at = "verified" /\ Sound(r) /\ KeyKept(r)
      /\ request[r] # Unsent
  BY DEF Consume, PlaneInv, PlaneTypes, Unsent
<1>2. CASE Answer(r, "unauthorized") /\ UNCHANGED consumed
  <2> DEFINE to == [request[r] EXCEPT !.at = "answered", !.answer = "unauthorized"]
  <2>1. to \in Handled /\ to.at = "answered" /\ to.session = request[r].session
        /\ to.credential = c /\ ~to.done /\ to.answer = "unauthorized" /\ to.key = request[r].key
        /\ to.session = 0
    BY <1>1 DEF Handled, Sound
  <2>2. Sound(r)' /\ KeyKept(r)'
    <3>1. request'[r] = to
      BY <1>2 DEF Answer, Move, PlaneInv, PlaneTypes
    <3>2. Sound(r)'
      BY <2>1, <3>1 DEF Sound
    <3>3. KeyKept(r)'
      BY <1>1, <2>1, <3>1 DEF KeyKept, Signed, Accepted, Consume
    <3> QED
      BY <3>2, <3>3
  <2> HIDE DEF to
  <2>3. Move(r, to)
    BY <1>2 DEF Answer, to
  <2> QED
    BY <1>1, <1>2, <2>1, <2>2, <2>3, RequestMoves DEF Consume, auth, Unsent, Handled
<1>3. CASE /\ live /\ Unused(c) /\ consumed' = consumed \union {c}
           /\ Move(r, [request[r] EXCEPT !.at = "accepted", !.session = epoch])
  <2> DEFINE to == [request[r] EXCEPT !.at = "accepted", !.session = epoch]
  <2>1. to \in Handled /\ to.at = "accepted" /\ to.session = epoch /\ to.credential = c
        /\ to.done = request[r].done /\ to.answer = request[r].answer /\ to.key = request[r].key
    BY <1>1 DEF Handled, PlaneInv, PlaneTypes
  <2> HIDE DEF to
  <2>2. request'[r] = to /\ (\A q \in Requests : q # r => request'[q] = request[q])
        /\ request' \in [Requests -> {Unsent} \union Handled]
    BY <1>3, <2>1 DEF Move, PlaneInv, PlaneTypes, to
  <2>3. PlaneTypes' /\ ServesOwner'
    BY <2>2 DEF Consume, PlaneInv, PlaneTypes, ServesOwner, remote
  <2>4. TicketsSpent'
    BY <1>3, <2>1, <2>2 DEF Consume, PlaneInv, PlaneTypes, TicketsSpent, Accepted
  <2>5. ASSUME NEW q \in Requests, q # r, Accepted(q), request[q].credential = c
        PROVE  request[q].session # epoch
    BY <1>3, <2>5 DEF PlaneInv, TicketsSpent, Unused
  <2>6. AcceptedApart'
    BY <2>1, <2>2, <2>5 DEF PlaneInv, AcceptedApart, Accepted
  <2>7. \A q \in Requests : Sound(q)'
    BY <1>1, <2>1, <2>2 DEF Consume, PlaneInv, Sound
  <2>8. Numbered'
    BY <2>1, <2>2 DEF Consume, PlaneInv, Numbered
  <2>9. \A q \in Requests : KeyKept(q)'
    <3>1. KeyKept(r)'
      BY <1>1, <2>1, <2>2 DEF Consume, KeyKept, Signed, Accepted
    <3> QED
      BY <2>2, <3>1 DEF Consume, PlaneInv, KeyKept, Signed, Accepted
  <2> QED
    BY <2>3, <2>4, <2>6, <2>7, <2>8, <2>9 DEF PlaneInv
<1> QED
  BY <1>2, <1>3 DEF Consume

(* Before a dispatch.                                                      *)
LEMMA ArriveKeeps ==
  ASSUME PlaneInv, NEW r \in Requests, NEW op \in AdminOperations,
         \/ \E c \in Tickets : Arrive(r, c, op)
         \/ \E signer \in 1..MaxEpoch : ArriveBearer(r, signer, op)
  PROVE  PlaneInv'
<1>1. CASE \E c \in Tickets : Arrive(r, c, op)
  <2> PICK c \in Tickets : Arrive(r, c, op)
    BY <1>1
  <2> DEFINE to == [at |-> "arrived", credential |-> c, operation |-> op, session |-> 0,
                    key |-> 0, number |-> 0, done |-> FALSE, answer |-> "none"]
  <2>1. to \in Handled /\ to.session = 0 /\ to.at # "emitting"
    BY DEF Handled
  <2>2. Sound(r)' /\ KeyKept(r)'
    BY DEF Arrive, Move, Sound, KeyKept, Accepted, PlaneInv, PlaneTypes
  <2>3. Move(r, to)
    BY DEF Arrive
  <2> HIDE DEF to
  <2> QED
    BY <2>1, <2>2, <2>3, RequestMoves DEF Arrive
<1>2. CASE \E signer \in 1..MaxEpoch : ArriveBearer(r, signer, op)
  <2> PICK signer \in 1..MaxEpoch : ArriveBearer(r, signer, op)
    BY <1>2
  <2> DEFINE to == [at |-> IF live /\ signer = epoch THEN "accepted" ELSE "answered",
                    credential |-> Nobody, operation |-> op, session |-> epoch,
                    key |-> 0, number |-> 0, done |-> FALSE,
                    answer |-> IF live /\ signer = epoch THEN "none" ELSE "unauthorized"]
  <2>1. to \in Handled /\ to.credential = Nobody /\ to.at # "emitting"
    BY DEF Handled, PlaneInv, PlaneTypes
  <2>2. Sound(r)' /\ KeyKept(r)'
    BY DEF ArriveBearer, Move, Sound, KeyKept, Accepted, PlaneInv, PlaneTypes
  <2>3. Move(r, to)
    BY DEF ArriveBearer
  <2> HIDE DEF to
  <2> QED
    BY <2>1, <2>2, <2>3, RequestMoves DEF ArriveBearer
<1> QED
  BY <1>1, <1>2

LEMMA DecideKeeps ==
  ASSUME PlaneInv, NEW r \in Requests, Verify(r) \/ DenyRole(r) PROVE PlaneInv'
<1>1. request[r] \in Handled /\ Sound(r) /\ KeyKept(r) /\ request[r] # Unsent
  BY DEF Verify, DenyRole, PlaneInv, PlaneTypes, Unsent, Handled
<1>2. ASSUME NEW answer \in {"unauthorized", "denied"}, Answer(r, answer),
             request[r].at \in {"arrived", "accepted"},
             UNCHANGED <<plane, server, auth, ticket, sequence, events, remote>>
      PROVE  PlaneInv'
  <2> DEFINE to == [request[r] EXCEPT !.at = "answered", !.answer = answer]
  <2>1. to \in Handled /\ to.at = "answered" /\ to.answer = answer /\ to.key = request[r].key
        /\ to.session = request[r].session /\ to.credential = request[r].credential /\ ~to.done
    BY <1>1, <1>2 DEF Handled, Sound
  <2>2. request'[r] = to
    BY <1>2 DEF Answer, Move, PlaneInv, PlaneTypes
  <2>3. Sound(r)'
    BY <1>2, <2>1, <2>2 DEF Sound
  <2>4. KeyKept(r)'
    BY <1>1, <1>2, <2>1, <2>2 DEF KeyKept, Signed, Accepted, auth
  <2>5. Move(r, to)
    BY <1>2 DEF Answer
  <2> HIDE DEF to
  <2> QED
    BY <1>1, <1>2, <2>1, <2>3, <2>4, <2>5, RequestMoves
<1>3. CASE Verify(r) /\ Move(r, [request[r] EXCEPT !.at = "verified", !.key = epoch])
           /\ ticket[request[r].credential].key = epoch
  <2> DEFINE to == [request[r] EXCEPT !.at = "verified", !.key = epoch]
  <2>1. epoch \in Nat /\ epoch > 0 /\ request[r].at = "arrived" /\ request[r].session = 0
    BY <1>1, <1>3 DEF PlaneInv, PlaneTypes, Verify, Sound
  <2>2. to \in Handled /\ to.at = "verified" /\ to.answer = request[r].answer /\ to.key = epoch
        /\ to.session = 0 /\ to.credential = request[r].credential /\ ~to.done
    BY <1>1, <2>1 DEF Handled, Sound
  <2>3. request'[r] = to
    BY <1>3 DEF Move, PlaneInv, PlaneTypes
  <2>4. Sound(r)'
    BY <1>1, <2>1, <2>2, <2>3 DEF Sound
  <2>5. KeyKept(r)'
    BY <1>1, <1>3, <2>1, <2>2, <2>3 DEF KeyKept, Signed, Accepted, Verify, auth
  <2>6. Move(r, to)
    BY <1>3
  <2> HIDE DEF to
  <2> QED
    BY <1>1, <1>3, <2>2, <2>4, <2>5, <2>6, RequestMoves DEF Verify
<1> QED
  BY <1>2, <1>3 DEF Verify, DenyRole

LEMMA DispatchKeeps ==
  ASSUME PlaneInv, NEW r \in Requests, NEW succeeds \in BOOLEAN, Dispatch(r, succeeds)
  PROVE  PlaneInv'
<1>1. request[r] \in Handled /\ Sound(r) /\ KeyKept(r) /\ request[r] # Unsent /\ request[r].at = "accepted"
  BY DEF Dispatch, PlaneInv, PlaneTypes, Unsent, Handled
<1>2. CASE plane = "http"
  <2> DEFINE to == [request[r] EXCEPT !.at = "answered", !.done = succeeds,
                                      !.answer = IF succeeds THEN "ok" ELSE "failed"]
  <2>1. Move(r, to)
    BY <1>2 DEF Dispatch
  <2>2. to \in Handled /\ to.at = "answered" /\ to.session = request[r].session /\ to.key = request[r].key
        /\ to.credential = request[r].credential
        /\ to.done = succeeds /\ to.answer = IF succeeds THEN "ok" ELSE "failed"
    BY <1>1 DEF Handled
  <2>3. request'[r] = to
    BY <2>1 DEF Move, PlaneInv, PlaneTypes
  <2> HIDE DEF to
  <2>4. Sound(r)'
    BY <1>2, <2>2, <2>3 DEF Sound, Dispatch
  <2>5. KeyKept(r)'
    BY <1>1, <2>2, <2>3 DEF KeyKept, Signed, Accepted, Dispatch, auth
  <2> QED
    BY <1>1, <2>1, <2>2, <2>4, <2>5, RequestMoves DEF Dispatch
<1>3. CASE plane = "admin" /\ request[r].operation \in RoleOperations
            /\ Move(r, [request[r] EXCEPT !.at = "dispatched", !.done = succeeds])
  <2> DEFINE to == [request[r] EXCEPT !.at = "dispatched", !.done = succeeds]
  <2>1. to \in Handled /\ to.at = "dispatched" /\ to.session = request[r].session /\ to.key = request[r].key
        /\ to.credential = request[r].credential /\ to.operation = request[r].operation
    BY <1>1 DEF Handled
  <2>2. request'[r] = to
    BY <1>3 DEF Move, PlaneInv, PlaneTypes
  <2>3. Move(r, to)
    BY <1>3
  <2> HIDE DEF to
  <2>4. Sound(r)'
    BY <1>3, <2>1, <2>2 DEF Sound, Dispatch
  <2>5. KeyKept(r)'
    BY <1>1, <2>1, <2>2 DEF KeyKept, Signed, Accepted, Dispatch, auth
  <2> QED
    BY <1>1, <2>1, <2>3, <2>4, <2>5, RequestMoves DEF Dispatch
<1> QED
  BY <1>2, <1>3 DEF Dispatch

(* The number is new, as it is greater than all that were given.           *)
LEMMA NumberKeeps ==
  ASSUME PlaneInv, NEW r \in Requests, TakeSequence(r) PROVE PlaneInv'
<1> DEFINE to == [request[r] EXCEPT !.at = "emitting", !.number = sequence + 1]
<1>1. request[r] \in Handled /\ Sound(r) /\ KeyKept(r) /\ request[r] # Unsent
      /\ request[r].at = "dispatched"
      /\ sequence \in Nat /\ sequence' = sequence + 1
  BY DEF TakeSequence, PlaneInv, PlaneTypes, Unsent, Handled
<1>2. /\ to \in Handled /\ to.at = "emitting" /\ to.session = request[r].session
      /\ to.credential = request[r].credential /\ to.operation = request[r].operation
      /\ to.number = sequence + 1 /\ to.key = request[r].key
  <2>1. sequence + 1 \in Nat
    BY <1>1
  <2> DEFINE n == sequence + 1
  <2> HIDE DEF n
  <2>2. [request[r] EXCEPT !.at = "emitting", !.number = n] \in Handled
    BY <1>1, <2>1 DEF Handled, n
  <2> QED
    BY <1>1, <2>2 DEF Handled, n
<1>3. request'[r] = to /\ (\A q \in Requests : q # r => request'[q] = request[q])
      /\ request' \in [Requests -> {Unsent} \union Handled]
  BY <1>1, <1>2 DEF TakeSequence, Move, PlaneInv, PlaneTypes
<1> HIDE DEF to
<1>4. PlaneTypes' /\ ServesOwner'
  BY <1>1, <1>3 DEF TakeSequence, PlaneInv, PlaneTypes, ServesOwner, remote, auth
<1>5. \A q \in Requests : Accepted(q)' => /\ Accepted(q)
                                          /\ request'[q].session = request[q].session
                                          /\ request'[q].credential = request[q].credential
  BY <1>1, <1>2, <1>3 DEF Accepted
<1>6. TicketsSpent' /\ AcceptedApart'
  BY <1>5 DEF TakeSequence, PlaneInv, TicketsSpent, AcceptedApart, auth
<1>7. \A q \in Requests : Sound(q)' /\ KeyKept(q)'
  <2>1. \A q \in Requests : Sound(q)'
    BY <1>1, <1>2, <1>3 DEF TakeSequence, PlaneInv, Sound
  <2>2. \A q \in Requests : KeyKept(q)'
    BY <1>1, <1>2, <1>3 DEF TakeSequence, PlaneInv, KeyKept, Signed, Accepted, auth
  <2> QED
    BY <2>1, <2>2
<1>8. Numbered'
  <2>1. \A e \in events : e.sequence \in Nat /\ e.sequence <= sequence
    BY DEF PlaneInv, PlaneTypes, Numbered, Emitted
  <2>2. \A q \in Requests : request[q].at = "emitting" =>
          request[q].number \in Nat /\ request[q].number <= sequence
    BY DEF PlaneInv, PlaneTypes, Numbered, Handled, Unsent
  <2> QED
    BY <1>1, <1>2, <1>3, <2>1, <2>2 DEF TakeSequence, PlaneInv, Numbered
<1> QED
  BY <1>4, <1>6, <1>7, <1>8 DEF PlaneInv

LEMMA EmitKeeps ==
  ASSUME PlaneInv, NEW r \in Requests, NEW emitted \in BOOLEAN, EmitEvent(r, emitted)
  PROVE  PlaneInv'
<1> DEFINE to == [request[r] EXCEPT !.at = "answered", !.answer = AnswerAfter(r, emitted)]
<1>1. request[r] \in Handled /\ Sound(r) /\ KeyKept(r) /\ request[r] # Unsent
      /\ request[r].at = "emitting"
  BY DEF EmitEvent, PlaneInv, PlaneTypes, Unsent, Handled
<1>2. AnswerAfter(r, emitted) \in {"ok", "failed"}
  BY DEF AnswerAfter
<1>3. to \in Handled /\ to.at = "answered" /\ to.session = request[r].session
      /\ to.credential = request[r].credential /\ to.operation = request[r].operation
      /\ to.done = request[r].done /\ to.answer = AnswerAfter(r, emitted)
      /\ to.key = request[r].key
  BY <1>1, <1>2 DEF Handled
<1>4. request'[r] = to /\ (\A q \in Requests : q # r => request'[q] = request[q])
      /\ request' \in [Requests -> {Unsent} \union Handled]
  BY <1>3 DEF EmitEvent, Answer, Move, PlaneInv, PlaneTypes
<1> HIDE DEF to
<1>5. /\ EventOf(r) \in Emitted /\ EventOf(r).request = r
      /\ EventOf(r).sequence = request[r].number
      /\ request[r].done => EventOf(r).outcome = "success"
  BY <1>1 DEF EventOf, Emitted, Handled
<1>6. /\ \A e \in events : e \in events'
      /\ \A e \in events' : e \in events \/ e = EventOf(r)
      /\ emitted => EventOf(r) \in events'
  BY DEF EmitEvent
<1>7. PlaneTypes' /\ ServesOwner'
  BY <1>4, <1>5, <1>6 DEF EmitEvent, PlaneInv, PlaneTypes, ServesOwner, remote, auth
<1>8. \A q \in Requests : Accepted(q)' => /\ Accepted(q)
                                          /\ request'[q].session = request[q].session
                                          /\ request'[q].credential = request[q].credential
  BY <1>1, <1>3, <1>4 DEF Accepted
<1>9. TicketsSpent' /\ AcceptedApart'
  BY <1>8 DEF EmitEvent, PlaneInv, TicketsSpent, AcceptedApart, auth
<1>10. Sound(r)'
  <2>1. to.answer = "ok" => emitted /\ request[r].done
    BY <1>3 DEF AnswerAfter
  <2>2. to.answer = "ok" => \E e \in events' : e.request = r /\ e.outcome = "success"
    BY <1>5, <1>6, <2>1
  <2> QED
    BY <1>1, <1>2, <1>3, <1>4, <2>1, <2>2 DEF EmitEvent, Sound
<1>11. \A q \in Requests : Sound(q)' /\ KeyKept(q)'
  <2>1. \A q \in Requests : Sound(q)'
    BY <1>4, <1>6, <1>10 DEF EmitEvent, PlaneInv, Sound
  <2>2. \A q \in Requests : KeyKept(q)'
    BY <1>1, <1>3, <1>4 DEF EmitEvent, PlaneInv, KeyKept, Signed, Accepted, auth
  <2> QED
    BY <2>1, <2>2
<1>12. Numbered'
  <2>1. \A e \in events : e.sequence # request[r].number
    BY <1>1 DEF PlaneInv, Numbered
  <2>2. \A e, f \in events' : e.sequence = f.sequence => e = f
    BY <1>5, <1>6, <2>1 DEF PlaneInv, Numbered
  <2>3. \A e \in events' : e.sequence <= sequence
    BY <1>1, <1>5, <1>6 DEF PlaneInv, Numbered
  <2>4. ASSUME NEW q \in Requests, request'[q].at = "emitting"
        PROVE  /\ q # r /\ request'[q] = request[q] /\ request[q].number <= sequence
               /\ \A e \in events' : e.sequence # request[q].number
    BY <1>1, <1>3, <1>4, <1>5, <1>6, <2>4 DEF PlaneInv, Numbered
  <2> QED
    BY <2>2, <2>3, <2>4 DEF EmitEvent, PlaneInv, Numbered
<1> QED
  BY <1>7, <1>9, <1>11, <1>12 DEF PlaneInv

LEMMA ServeKeeps ==
  ASSUME PlaneInv, NEW a \in Adapters, NEW certificate \in DataCertificates \union AdminCertificates,
         RemoteData(a, certificate)
  PROVE  PlaneInv'
<1>1. ServesOwner'
  BY PlaneAssumption DEF RemoteData, Owns, PlaneInv, PlaneTypes, ServesOwner
<1>2. PlaneTypes'
  BY DEF RemoteData, PlaneInv, PlaneTypes, auth
<1> QED
  BY <1>1, <1>2
  DEF RemoteData, PlaneInv, TicketsSpent, AcceptedApart, Accepted, Sound, KeyKept, Signed,
      Numbered, auth

LEMMA PlaneSteps == PlaneInv /\ [ControlPlaneNext]_controlPlane => PlaneInv'
<1> SUFFICES ASSUME PlaneInv, [ControlPlaneNext]_controlPlane PROVE PlaneInv'
  OBVIOUS
<1>1. CASE \/ UNCHANGED controlPlane \/ BeginClose \/ StopLoop \/ InstantPasses
           \/ StartSession \/ Bind \/ PortIsTaken
  BY <1>1, RestKeeps
  DEF controlPlane, BeginClose, StopLoop, InstantPasses, StartSession, Bind, PortIsTaken, Starting,
      auth, remote, PlaneInv, PlaneTypes
<1>3. ASSUME NEW c \in Tickets, BeginTicket(c) \/ SignTicket(c) PROVE PlaneInv'
  <2>1. ticket[c].at # "issued" /\ ticket = [d \in Tickets |-> ticket[d]]
    BY <1>3 DEF BeginTicket, SignTicket, Blank, PlaneInv, PlaneTypes
  <2>2. PICK to : ticket' = [ticket EXCEPT ![c] = to]
    BY <1>3 DEF BeginTicket, SignTicket
  <2>3. /\ ticket' = [d \in Tickets |-> ticket'[d]]
        /\ \A d \in Tickets : ticket[d].at = "issued" => ticket'[d] = ticket[d]
    BY <2>1, <2>2
  <2> QED
    BY <1>3, <2>3, RestKeeps DEF BeginTicket, SignTicket, auth, remote
<1>2. ASSUME CloseRemote \/ \E bound \in BOOLEAN : StartRemote(bound) PROVE PlaneInv'
  BY <1>2 DEF CloseRemote, StartRemote, PlaneInv, PlaneTypes, ServesOwner, TicketsSpent,
     AcceptedApart, Accepted, Sound, KeyKept, Signed, Numbered, auth
<1> QED
  BY <1>1, <1>2, <1>3, ArriveKeeps, DecideKeeps, ConsumeKeeps, DispatchKeeps, NumberKeeps, EmitKeeps,
     ServeKeeps
  DEF ControlPlaneNext

(* http_control.py, admin_control.py, auth.py and remote_control.py: for   *)
(* any number of handler threads, tickets, restarts and remote callers, a  *)
(* ticket lets in once in a session, and in a later one only a request     *)
(* that was verified before; what is answered is what was done.            *)
THEOREM ControlPlaneIsExactHolds == ControlPlaneSpec => []ControlPlaneIsExact
<1>1. PlaneInv => ServedOnce
  <2> SUFFICES ASSUME PlaneInv, NEW r \in Requests, Accepted(r)
               PROVE  /\ request[r].key = ticket[request[r].credential].key
                      /\ request[r].key <= request[r].session
                      /\ \A q \in Requests :
                           r # q /\ Accepted(q) /\ request[q].credential = request[r].credential
                                 /\ request[q].session <= request[r].session
                             => /\ request[r].key < request[r].session
                                /\ request[q].session # request[r].session
    BY DEF ServedOnce
  <2>1. ASSUME NEW q \in Requests, Accepted(q)
        PROVE  /\ request[q].key = ticket[request[q].credential].key
               /\ request[q].key <= request[q].session
               /\ request[q].key \in Nat /\ request[q].session \in Nat
    BY <2>1 DEF PlaneInv, PlaneTypes, KeyKept, Signed, Accepted, Handled
  <2> QED
    BY <2>1 DEF PlaneInv, AcceptedApart
<1>0. PlaneInv => AnsweredAsDone
  BY DEF PlaneInv, Sound, Numbered, AnsweredAsDone
<1>2. PlaneInv => OneCallerPerAdapter
  <2> SUFFICES ASSUME PlaneInv, NEW a \in Adapters
               PROVE  Cardinality({c \in DataCertificates \union AdminCertificates :
                                     <<a, c>> \in served}) <= 1
    BY DEF OneCallerPerAdapter
  <2> DEFINE callers == {c \in DataCertificates \union AdminCertificates : <<a, c>> \in served}
  <2>1. callers \subseteq {owner[a]}
    BY DEF PlaneInv, ServesOwner
  <2>2. IsFiniteSet({owner[a]}) /\ Cardinality({owner[a]}) = 1
    BY FS_Singleton
  <2>3. Cardinality(callers) <= Cardinality({owner[a]})
    BY <2>1, <2>2, FS_Subset
  <2> QED
    BY <2>2, <2>3
<1>3. PlaneInv => ControlPlaneIsExact
  BY <1>0, <1>1, <1>2 DEF ControlPlaneIsExact
<1> QED
  BY <1>3, PlaneStarts, PlaneSteps, PTL DEF ControlPlaneSpec

-----------------------------------------------------------------------------
(* Execution references (Disclosure).                                      *)
(* A grant is what a load selected for that reference, and a call goes on  *)
(* with what was checked against it.                                       *)
Loaded(ref, session, operation) ==
  \E l \in loads : l.ref = ref /\ operation \in l.operations /\ l.ref.session = session
ApprovedAt(release, session, operation, time) ==
  \E a \in issued : /\ a.purpose = "approval" /\ a.release = release
                    /\ a.session = session /\ a.subject = operation /\ a.expires > time
CallSound(s) ==
  LET call == handling[s] IN
  /\ call.pc \in {"verified", "admitted"} =>
       /\ Active(s, call.ref.release) /\ call.verified < call.ref.expires
       /\ Loaded(call.ref, s, call.operation)
  /\ call.pc = "admitted" /\ call.operation \in Guarded =>
       ApprovedAt(call.ref.release, s, call.operation, call.admitted)
GrantsInv ==
  /\ \A ref \in DOMAIN grants : [ref |-> ref, operations |-> grants[ref]] \in loads
  /\ DOMAIN handling = Sessions
  /\ \A s \in Sessions : CallSound(s)
  /\ ExecutesWhatWasLoaded

LEMMA RunsStay ==
  ASSUME ExecutesWhatWasLoaded, UNCHANGED ran, loads \subseteq loads', issued \subseteq issued'
  PROVE  ExecutesWhatWasLoaded'
  BY DEF ExecutesWhatWasLoaded

LEMMA HandlingStays ==
  ASSUME NEW s, CallSound(s), handling'[s] = handling[s],
         loads \subseteq loads', issued \subseteq issued'
  PROVE  CallSound(s)'
  BY DEF CallSound, Active, Loaded, ApprovedAt

(* A call that ends, or has only been handed its service, claims nothing.  *)
LEMMA HandlingClaimsNothing ==
  ASSUME NEW s, handling'[s].pc \notin {"verified", "admitted"}
  PROVE  CallSound(s)'
  BY DEF CallSound

LEMMA OneCallMoves ==
  ASSUME GrantsInv, NEW s \in Sessions, NEW to, handling' = [handling EXCEPT ![s] = to],
         loads \subseteq loads', issued \subseteq issued', UNCHANGED ran,
         \A ref \in DOMAIN grants' : [ref |-> ref, operations |-> grants'[ref]] \in loads',
         CallSound(s)'
  PROVE  GrantsInv'
<1>1. DOMAIN handling' = Sessions /\ \A q \in Sessions \ {s} : handling'[q] = handling[q]
  BY DEF GrantsInv
<1>2. \A q \in Sessions : CallSound(q)'
  BY <1>1, HandlingStays DEF GrantsInv
<1> QED
  BY <1>1, <1>2, RunsStay DEF GrantsInv

LEMMA OverIsSound ==
  ASSUME GrantsInv, NEW s \in Sessions, CallOver(s)
  PROVE  CallSound(s)'
  BY HandlingClaimsNothing DEF CallOver, GrantsInv, NoCall

LEMMA QuietCall ==
  ASSUME GrantsInv, NEW s \in Sessions, CallOver(s),
         UNCHANGED <<grants, loads, ran>>, issued \subseteq issued'
  PROVE  GrantsInv'
<1>1. CallSound(s)'
  BY OverIsSound
<1>2. \A ref \in DOMAIN grants' : [ref |-> ref, operations |-> grants'[ref]] \in loads'
  BY DEF GrantsInv
<1> QED
  BY <1>1, <1>2, OneCallMoves DEF CallOver

LEMMA ReturnsKeeps ==
  ASSUME GrantsInv, NEW release, NEW session \in Sessions, NEW operations,
         Returns(release, session, operations)
  PROVE  GrantsInv'
<1> DEFINE ref == Reference("execution", release, session, Anything)
<1>1. issued \subseteq issued' /\ UNCHANGED ran /\ CallOver(session)
  BY DEF Returns, NewReference
<1>2. CASE OperationsOf[release] = {}
  BY <1>1, <1>2, QuietCall DEF Returns
<1>3. CASE OperationsOf[release] # {}
  <2>1. /\ grants' = Granted(ref, operations)
        /\ loads' = loads \union {[ref |-> ref, operations |-> operations]}
    BY <1>3 DEF Returns
  <2> HIDE DEF ref
  <2>2. /\ DOMAIN grants' = DOMAIN grants \union {ref}
        /\ \A x \in DOMAIN grants' : grants'[x] = IF x = ref THEN operations ELSE grants[x]
    BY <2>1 DEF Granted
  <2>3. \A x \in DOMAIN grants' : [ref |-> x, operations |-> grants'[x]] \in loads'
    BY <2>1, <2>2 DEF GrantsInv
  <2>4. CallSound(session)'
    BY <1>1, OverIsSound
  <2> QED
    BY <1>1, <2>1, <2>3, <2>4, OneCallMoves DEF CallOver
<1> QED
  BY <1>2, <1>3

LEMMA VerifiedKeeps ==
  ASSUME GrantsInv, NEW s \in Sessions, NEW ref, NEW operation, VerifyExecution(s, ref, operation)
  PROVE  GrantsInv'
<1> DEFINE to == [pc |-> "verified", generation |-> handling[s].generation, ref |-> ref,
                  operation |-> operation, verified |-> second]
           l == [ref |-> ref, operations |-> grants[ref]]
<1>1. /\ Presentable(ref, s, "execution") /\ ref \in DOMAIN grants /\ operation \in grants[ref]
      /\ handling' = [handling EXCEPT ![s] = to] /\ UNCHANGED <<issued, grants, loads, ran>>
  BY DEF VerifyExecution
<1>2. /\ to.generation = handling[s].generation /\ to.ref = ref /\ to.operation = operation
      /\ to.verified = second /\ to.pc = "verified"
  OBVIOUS
<1> HIDE DEF to
<1>3. handling'[s] = to
  BY <1>1 DEF GrantsInv
<1>4. second < ref.expires /\ ref.session = s
      /\ handling[s].generation[CapabilityOf[ref.release]] = ref.release
  BY <1>1 DEF Presentable, Verified, Active
<1>5. l \in loads /\ l.ref = ref /\ l.operations = grants[ref]
  BY <1>1 DEF GrantsInv
<1>6. CallSound(s)'
  BY <1>1, <1>2, <1>3, <1>4, <1>5 DEF CallSound, Active, Loaded
<1> QED
  BY <1>1, <1>6, OneCallMoves DEF GrantsInv

LEMMA AdmittedKeeps ==
  ASSUME GrantsInv, NEW s \in Sessions, Admit(s)
  PROVE  GrantsInv'
<1> DEFINE call == handling[s]
           to == [pc |-> "admitted", generation |-> call.generation, ref |-> call.ref,
                  operation |-> call.operation, verified |-> call.verified, admitted |-> second]
<1>1. /\ call.pc = "verified" /\ handling' = [handling EXCEPT ![s] = to]
      /\ call.operation \in Guarded => Approved(s, call.ref.release, call.operation)
      /\ UNCHANGED <<issued, grants, loads, ran, second>>
  BY DEF Admit
<1>2. /\ to.generation = call.generation /\ to.ref = call.ref /\ to.operation = call.operation
      /\ to.verified = call.verified /\ to.admitted = second /\ to.pc = "admitted"
  OBVIOUS
<1> HIDE DEF to
<1>3. handling'[s] = to
  BY <1>1 DEF GrantsInv
<1>4. call.operation \in Guarded => ApprovedAt(call.ref.release, s, call.operation, second)
  BY <1>1 DEF Approved, Verified, ApprovedAt
<1>5. /\ call.generation[CapabilityOf[call.ref.release]] = call.ref.release
      /\ call.verified < call.ref.expires /\ Loaded(call.ref, s, call.operation)
  BY <1>1 DEF GrantsInv, CallSound, Active
<1>6. CallSound(s)'
  BY <1>1, <1>2, <1>3, <1>4, <1>5 DEF CallSound, Active, Loaded, ApprovedAt
<1> QED
  BY <1>1, <1>6, OneCallMoves DEF GrantsInv

LEMMA CallProviderKeeps ==
  ASSUME GrantsInv, NEW s \in Sessions, CallProvider(s)
  PROVE  GrantsInv'
<1> DEFINE call == handling[s]
           x == [session |-> s, ref |-> call.ref, operation |-> call.operation,
                 release |-> call.generation[CapabilityOf[call.ref.release]],
                 verified |-> call.verified, admitted |-> call.admitted]
<1>1. /\ call.pc = "admitted" /\ ran' = {x} /\ CallOver(s) /\ UNCHANGED <<loads, issued, grants>>
  BY DEF CallProvider
<1>2. /\ x.session = s /\ x.ref = call.ref /\ x.operation = call.operation
      /\ x.release = call.generation[CapabilityOf[call.ref.release]]
      /\ x.verified = call.verified /\ x.admitted = call.admitted
  OBVIOUS
<1> HIDE DEF x
<1>3. /\ x.release = x.ref.release /\ x.verified < x.ref.expires
      /\ Loaded(x.ref, x.session, x.operation)
      /\ x.operation \in Guarded => ApprovedAt(x.release, x.session, x.operation, x.admitted)
  BY <1>1, <1>2 DEF GrantsInv, CallSound, Active
<1>4. ExecutesWhatWasLoaded'
  BY <1>1, <1>3 DEF ExecutesWhatWasLoaded, Loaded, ApprovedAt
<1>5. \A q \in Sessions : CallSound(q)'
  <2>1. \A q \in Sessions \ {s} : handling'[q] = handling[q]
    BY <1>1 DEF CallOver, GrantsInv
  <2> QED
    BY <1>1, <2>1, HandlingStays, OverIsSound DEF GrantsInv
<1> QED
  BY <1>1, <1>4, <1>5 DEF GrantsInv, CallOver

LEMMA DisclosureSteps == GrantsInv /\ [DisclosureNext]_disclosure => GrantsInv'
<1> SUFFICES ASSUME GrantsInv, [DisclosureNext]_disclosure PROVE GrantsInv'
  OBVIOUS
<1>1. ASSUME NEW s \in Sessions, NEW ref \in issued,
             \/ \E operations \in SUBSET OperationsOf[ref.release] : Load(s, ref, operations)
             \/ Rehydrate(s, ref)
      PROVE  GrantsInv'
  BY <1>1, ReturnsKeeps DEF Load, Rehydrate
<1>2. ASSUME NEW s \in Sessions, EndInError(s) \/ Search(s) PROVE GrantsInv'
  BY <1>2, QuietCall DEF EndInError, Search, NewReference
<1>3. ASSUME NEW s \in Sessions, NEW r, NEW o, IssueApproval(s, r, o) PROVE GrantsInv'
  BY <1>3, QuietCall DEF IssueApproval, NewReference
<1>4. ASSUME NEW s \in Sessions, TakeService(s) PROVE GrantsInv'
  <2>1. /\ handling' = [handling EXCEPT ![s] = [pc |-> "serving", generation |-> enabled]]
        /\ UNCHANGED <<issued, grants, loads, ran>>
    BY <1>4 DEF TakeService
  <2>2. handling'[s].pc = "serving"
    BY <2>1 DEF GrantsInv
  <2>3. CallSound(s)'
    BY <2>2, HandlingClaimsNothing
  <2> QED
    BY <2>1, <2>3, OneCallMoves DEF GrantsInv
<1>5. CASE Restart
  <2>1. /\ grants' = <<>> /\ handling' = [s \in Sessions |-> NoCall]
        /\ UNCHANGED <<issued, loads, ran>>
    BY <1>5 DEF Restart
  <2>2. \A s \in Sessions : handling'[s].pc = "idle"
    BY <2>1 DEF NoCall
  <2>3. \A s \in Sessions : CallSound(s)'
    BY <2>2, HandlingClaimsNothing
  <2> QED
    BY <2>1, <2>3, RunsStay DEF GrantsInv
<1>6. ASSUME DisclosureTick \/ UNCHANGED disclosure \/ \E c \in Capabilities, r \in Releases \union {Off} : Fork(c, r)
      PROVE  GrantsInv'
  <2>1. UNCHANGED <<issued, grants, handling, loads, ran>>
    BY <1>6 DEF DisclosureTick, disclosure, Fork
  <2> QED
    BY <2>1, RunsStay, HandlingStays DEF GrantsInv
<1> QED
  BY <1>1, <1>2, <1>3, <1>4, <1>5, <1>6, VerifiedKeeps, AdmittedKeeps, CallProviderKeeps
  DEF DisclosureNext

(* service.py: whatever references are kept, swapped and presented late,   *)
(* and however the catalogue goes on under a call, what the provider is    *)
(* called for is active in the generation the call was handed, was loaded  *)
(* by that session and approved where it must be, when each was checked.   *)
THEOREM ExecutesWhatWasLoadedHolds == DisclosureSpec => []ExecutesWhatWasLoaded
<1>1. DisclosureInit => GrantsInv
  BY DEF DisclosureInit, GrantsInv, ExecutesWhatWasLoaded, CallSound, NoCall
<1>2. GrantsInv => ExecutesWhatWasLoaded
  BY DEF GrantsInv
<1> QED
  BY <1>1, <1>2, DisclosureSteps, PTL DEF DisclosureSpec

-----------------------------------------------------------------------------
(* Reasoning.                                                              *)
HeldTokens == [a \in Askers |-> HeldBy(a)]
TaskStates == [tier : Tiers \union {NoTier}, escalations : 0..MaxEscalations,
               attempts : [Failures -> 0..(MaxEquivalent + 1)]]

Known(q) == q.tiers \subseteq EndpointTiers /\ (q.pc # "idle" => q.op \in Operations)

ReasoningInv ==
  /\ ReasoningTypeOK
  /\ admitted \in [Failures -> Nat]
  /\ \A o \in Failures : admitted[o] <= task.attempts[o] /\ admitted[o] <= MaxEquivalent
  /\ \A a \in Askers : Known(asker[a])
  /\ TokensAreSettled

LEMMA TierFacts ==
  /\ \A t \in Tiers : EstimateOf[t] \in Nat \ {0}
  /\ NoTier \notin Tiers /\ Tiers \subseteq Nat
  /\ EndpointTiers \subseteq Tiers
  /\ MaxEquivalent \in Nat /\ MaxEquivalent > 0 /\ MaxEscalations \in Nat /\ TokenBudget \in Nat
  BY EstimatesAssumption DEF Tiers, NoTier

LEMMA LowestTier ==
  ASSUME NEW tiers \in SUBSET Tiers, tiers # {}
  PROVE  Lowest(tiers) \in tiers /\ \A t \in tiers : Lowest(tiers) <= t
<1>1. \E x \in tiers : \A t \in tiers : x <= t
  <2>1. \A t \in tiers : t = 1 \/ t = 2 \/ t = 3
    BY DEF Tiers
  <2>2. CASE 1 \in tiers
    BY <2>1, <2>2
  <2>3. CASE 1 \notin tiers /\ 2 \in tiers
    BY <2>1, <2>3
  <2>4. CASE 1 \notin tiers /\ 2 \notin tiers
    BY <2>1, <2>4
  <2> QED
    BY <2>2, <2>3, <2>4
<1> QED
  BY <1>1 DEF Lowest, Min

(* What an advice may be.                                                  *)
LEMMA RouteFacts ==
  ASSUME NEW st \in TaskStates, NEW affordable \in SUBSET Tiers, NEW floor \in Tiers,
         NEW failed \in Failures \union {NoFailure},
         Candidates(affordable, floor) # {}
  PROVE  LET advice == Route(st, affordable, floor, failed) IN
         /\ advice.stop \in BOOLEAN
         /\ advice.tier \in Candidates(affordable, floor)
         /\ advice.state \in TaskStates
         /\ advice.state.attempts = Counted(st, failed)
         /\ ~advice.stop /\ failed # NoFailure => st.attempts[failed] < MaxEquivalent
<1> DEFINE candidates == Candidates(affordable, floor)
           current == IF st.tier \in candidates THEN st.tier ELSE Lowest(candidates)
           higher == {t \in candidates : t > current}
           advice == Escalate(st, current, higher, failed)
<1>1. candidates \in SUBSET Tiers
  BY DEF Candidates
<1>2. current \in candidates
  BY <1>1, LowestTier
<1>3. higher # {} => Lowest(higher) \in candidates
  BY <1>1, LowestTier
<1>4. /\ st.tier \in Tiers \union {NoTier} /\ st.escalations \in 0..MaxEscalations
      /\ st.attempts \in [Failures -> 0..(MaxEquivalent + 1)]
  BY DEF TaskStates
<1>5. Counted(st, failed) \in [Failures -> 0..(MaxEquivalent + 1)]
  <2>1. CASE failed = NoFailure
    BY <1>4, <2>1 DEF Counted
  <2>2. CASE failed # NoFailure
    <3> DEFINE once == st.attempts[failed] + 1
               least == Min({once, MaxEquivalent + 1})
    <3>1. once \in Nat /\ MaxEquivalent + 1 \in Nat
      BY <1>4, <2>2, TierFacts
    <3>2. least \in {once, MaxEquivalent + 1} /\ least <= MaxEquivalent + 1
      <4>1. \E x \in {once, MaxEquivalent + 1} : \A y \in {once, MaxEquivalent + 1} : x <= y
        BY <3>1
      <4> QED
        BY <4>1 DEF Min
    <3>3. least \in 0..(MaxEquivalent + 1)
      BY <3>1, <3>2
    <3>4. Counted(st, failed) = [st.attempts EXCEPT ![failed] = least]
      BY <2>2 DEF Counted
    <3> HIDE DEF least
    <3> QED
      BY <1>4, <2>2, <3>3, <3>4
  <2> QED
    BY <2>1, <2>2
<1>6. ASSUME NEW tier \in candidates, NEW more \in {0, 1}, st.escalations + more <= MaxEscalations,
             NEW stop \in BOOLEAN
      PROVE  /\ Advice(st, tier, more, stop, failed).stop = stop
             /\ Advice(st, tier, more, stop, failed).tier \in candidates
             /\ Advice(st, tier, more, stop, failed).state \in TaskStates
             /\ Advice(st, tier, more, stop, failed).state.attempts = Counted(st, failed)
  <2>1. st.escalations + more \in 0..MaxEscalations /\ tier \in Tiers
    BY <1>1, <1>4, <1>6
  <2> HIDE DEF candidates
  <2> QED
    BY <1>5, <2>1 DEF Advice, TaskStates
<1>9. st.escalations + 0 <= MaxEscalations /\ 0 \in {0, 1} /\ 1 \in {0, 1}
  BY <1>4, TierFacts
<1> HIDE DEF candidates, current, higher
<1>7. /\ advice.stop \in BOOLEAN /\ advice.tier \in candidates
      /\ advice.state \in TaskStates /\ advice.state.attempts = Counted(st, failed)
      /\ ~advice.stop /\ failed # NoFailure => st.attempts[failed] < MaxEquivalent
  <2>1. CASE failed = NoFailure
    <3>1. advice = Advice(st, current, 0, FALSE, failed)
      BY <2>1 DEF Escalate
    <3> QED
      BY <1>2, <1>6, <1>9, <2>1, <3>1
  <2>2. CASE failed # NoFailure /\ (Repeated(st, failed) \/ st.escalations >= MaxEscalations \/ higher = {})
    <3>1. advice = Advice(st, current, 0, TRUE, failed)
      BY <2>2 DEF Escalate
    <3> QED
      BY <1>2, <1>6, <1>9, <3>1
  <2>3. CASE failed # NoFailure /\ ~(Repeated(st, failed) \/ st.escalations >= MaxEscalations \/ higher = {})
    <3>1. advice = Advice(st, Lowest(higher), 1, FALSE, failed)
      BY <2>3 DEF Escalate
    <3>2. st.attempts[failed] < MaxEquivalent
      BY <1>4, <2>3, TierFacts DEF Repeated
    <3>3. st.escalations + 1 <= MaxEscalations
      BY <1>4, <2>3, TierFacts
    <3> QED
      BY <1>3, <1>6, <1>9, <2>3, <3>1, <3>2, <3>3
  <2> QED
    BY <2>1, <2>2, <2>3
<1>8. Route(st, affordable, floor, failed) = advice
  BY DEF Route, candidates, current, higher
<1> QED
  BY <1>7, <1>8 DEF candidates

(* Both advisers, in any state of a task.                                  *)
LEMMA AdvisersAgree ==
  ASSUME NEW st, NEW affordable \in SUBSET Tiers, NEW floor \in Tiers,
         NEW failed, Candidates(affordable, floor) # {}
  PROVE  Route(st, affordable, floor, failed) = RecommendPersisted(st, affordable, floor, failed)
<1> DEFINE candidates == Candidates(affordable, floor)
           baseline == Route(NothingSpent, affordable, floor, NoFailure).tier
           safe == {t \in affordable : t >= baseline}
<1>1. candidates \in SUBSET Tiers /\ candidates # {}
  BY DEF Candidates
<1>2. baseline = Lowest(candidates)
  <2>1. NothingSpent.tier \notin candidates
    BY <1>1, TierFacts DEF NothingSpent
  <2> QED
    BY <2>1 DEF Route, Escalate, Advice
<1>3. safe = candidates
  <2>1. baseline \in candidates /\ \A t \in candidates : baseline <= t
    BY <1>1, <1>2, LowestTier
  <2>2. baseline \in Nat /\ floor \in Nat /\ floor <= baseline /\ \A t \in affordable : t \in Nat
    BY <2>1, TierFacts DEF Candidates
  <2> HIDE DEF baseline
  <2>3. \A t \in affordable : t >= baseline <=> t \in candidates
    BY <2>1, <2>2 DEF Candidates
  <2>4. candidates \subseteq affordable
    BY DEF Candidates
  <2> QED
    BY <2>3, <2>4
<1> HIDE DEF baseline
<1>4. RecommendPersisted(st, affordable, floor, failed) =
        Escalate(st, IF st.tier \in safe THEN st.tier ELSE baseline,
                 {t \in safe : t > (IF st.tier \in safe THEN st.tier ELSE baseline)}, failed)
  BY DEF RecommendPersisted, baseline
<1>5. Route(st, affordable, floor, failed) =
        Escalate(st, IF st.tier \in candidates THEN st.tier ELSE Lowest(candidates),
                 {t \in candidates : t > (IF st.tier \in candidates THEN st.tier ELSE Lowest(candidates))},
                 failed)
  BY DEF Route
<1> QED
  BY <1>2, <1>3, <1>4, <1>5

-----------------------------------------------------------------------------
SoundChoice(q) ==
  q.pc \in {"paying", "calling", "running"} => q.tier \in Candidates(q.tiers, q.floor)
WeightOf(q) == IF q.pc = "calling" THEN EstimateOf[q.tier] ELSE 0

LEMMA AskerParts ==
  ASSUME NEW q \in Asking
  PROVE  /\ q.op \in Operations \union {NoOperation} /\ q.floor \in Tiers /\ q.tiers \in SUBSET Tiers
         /\ q.failed \in Failures \union {NoFailure} /\ q.tier \in Tiers \union {NoTier}
  BY DEF Asking

LEMMA WeightIsNat ==
  ASSUME NEW q \in Asking, SoundChoice(q)
  PROVE  WeightOf(q) \in Nat /\ (q.pc = "calling" => q.tier \in Tiers /\ WeightOf(q) = EstimateOf[q.tier])
  BY AskerParts, TierFacts DEF SoundChoice, WeightOf, Candidates

(* A thread that goes on leaves what the others hold.                      *)
LEMMA AskerMoves ==
  ASSUME ReasoningInv, NEW a \in Askers, NEW x \in Asking, SoundChoice(x),
         Known(x), asker' = [asker EXCEPT ![a] = x]
  PROVE  /\ asker' \in [Askers -> Asking]
         /\ \A e \in Askers : Known(asker'[e]) /\ SoundChoice(asker'[e])
         /\ tokens.reserved \in Nat /\ tokens.used \in Nat /\ tokens.used + tokens.reserved <= TokenBudget
         /\ WeightOf(asker[a]) \in Nat /\ WeightOf(asker[a]) <= tokens.reserved
         /\ SumFunction(HeldTokens') = tokens.reserved - WeightOf(asker[a]) + WeightOf(x)
<1>1. asker \in [Askers -> Asking] /\ tokens \in [used : Nat, reserved : Nat]
  BY DEF ReasoningInv, ReasoningTypeOK
<1>2. asker' \in [Askers -> Asking] /\ \A e \in Askers : asker'[e] = IF e = a THEN x ELSE asker[e]
  BY <1>1
<1>3. \A e \in Askers : SoundChoice(asker[e]) /\ Known(asker[e])
  BY DEF ReasoningInv, TokensAreSettled, SoundChoice
<1>4. \A e \in Askers : Known(asker'[e]) /\ SoundChoice(asker'[e])
  BY <1>2, <1>3
<1>5. \A e \in Askers : HeldTokens[e] = WeightOf(asker[e]) /\ HeldTokens'[e] = WeightOf(asker'[e])
  BY DEF HeldTokens, HeldBy, WeightOf
<1>6. \A e \in Askers : HeldTokens[e] \in Nat /\ HeldTokens'[e] \in Nat
  BY <1>1, <1>2, <1>3, <1>4, <1>5, WeightIsNat
<1>7. /\ SumFunction(HeldTokens) = SumFunctionOnSet(HeldTokens, Askers)
      /\ SumFunction(HeldTokens') = SumFunctionOnSet(HeldTokens', Askers)
  BY DEF SumFunction, HeldTokens
<1>8. tokens.reserved = SumFunctionOnSet(HeldTokens, Askers)
  BY <1>7 DEF ReasoningInv, TokensAreSettled, HeldTokens
<1>9. IsFiniteSet(Askers)
  BY EstimatesAssumption
<1>10. HeldTokens[a] <= SumFunctionOnSet(HeldTokens, Askers)
  BY <1>6, <1>9, SumBoundsElement
<1>11. SumFunctionOnSet(HeldTokens', Askers)
         = SumFunctionOnSet(HeldTokens, Askers) - HeldTokens[a] + HeldTokens'[a]
  <2>1. \A e \in Askers \ {a} : HeldTokens[e] = HeldTokens'[e]
    BY <1>2, <1>5
  <2>2. \A e \in Askers : HeldTokens[e] \in Int /\ HeldTokens'[e] \in Int
    BY <1>6
  <2> QED
    BY <1>9, <2>1, <2>2, SumChange
<1>12. tokens.used \in Nat /\ tokens.reserved \in Nat /\ tokens.used + tokens.reserved <= TokenBudget
  BY <1>1 DEF ReasoningInv, TokensAreSettled
<1>13. HeldTokens[a] = WeightOf(asker[a]) /\ HeldTokens'[a] = WeightOf(x)
  BY <1>2, <1>5
<1> QED
  BY <1>2, <1>4, <1>6, <1>7, <1>8, <1>10, <1>11, <1>12, <1>13

(* Where nothing is decided: the tokens follow what the thread holds.      *)
LEMMA AskerStep ==
  ASSUME ReasoningInv, NEW a \in Askers, NEW x \in Asking, SoundChoice(x),
         Known(x), asker' = [asker EXCEPT ![a] = x],
         failure' \in Failures \union {NoFailure},
         UNCHANGED <<task, admitted>>,
         NEW charged \in Nat,
         tokens' = [used |-> tokens.used + charged,
                    reserved |-> tokens.reserved - WeightOf(asker[a]) + WeightOf(x)],
         tokens'.used + tokens'.reserved <= TokenBudget
  PROVE  ReasoningInv'
<1>1. /\ asker' \in [Askers -> Asking]
      /\ \A e \in Askers : Known(asker'[e]) /\ SoundChoice(asker'[e])
      /\ tokens.reserved \in Nat /\ tokens.used \in Nat
      /\ WeightOf(asker[a]) \in Nat /\ WeightOf(asker[a]) <= tokens.reserved
      /\ SumFunction(HeldTokens') = tokens.reserved - WeightOf(asker[a]) + WeightOf(x)
  BY AskerMoves
<1>2. WeightOf(x) \in Nat
  BY WeightIsNat
<1>3. tokens' \in [used : Nat, reserved : Nat] /\ tokens'.reserved = SumFunction(HeldTokens')
  <2>1. tokens.used + charged \in Nat /\ tokens.reserved - WeightOf(asker[a]) + WeightOf(x) \in Nat
    BY <1>1, <1>2
  <2> QED
    BY <1>1, <2>1
<1>4. ReasoningTypeOK'
  BY <1>1, <1>3 DEF ReasoningInv, ReasoningTypeOK
<1>5. TokensAreSettled'
  BY <1>1, <1>3 DEF TokensAreSettled, SoundChoice, HeldTokens, HeldBy
<1> QED
  BY <1>1, <1>4, <1>5 DEF ReasoningInv

LEMMA RestIsSound ==
  NotAsking \in Asking /\ SoundChoice(NotAsking) /\ Known(NotAsking)
  /\ WeightOf(NotAsking) = 0
  BY DEF NotAsking, Asking, SoundChoice, WeightOf, Tiers, Known

LEMMA QuietTokens ==
  ASSUME ReasoningInv, NEW a \in Askers, asker[a].pc # "calling"
  PROVE  /\ WeightOf(asker[a]) = 0
         /\ tokens = [used |-> tokens.used + 0, reserved |-> tokens.reserved - WeightOf(asker[a]) + 0]
         /\ tokens.used + tokens.reserved <= TokenBudget
         /\ asker[a] \in Asking /\ SoundChoice(asker[a]) /\ Known(asker[a])
         /\ failure \in Failures \union {NoFailure}
<1>1. tokens \in [used : Nat, reserved : Nat]
  BY DEF ReasoningInv, ReasoningTypeOK
<1>2. WeightOf(asker[a]) = 0
  BY DEF WeightOf
<1>3. tokens = [used |-> tokens.used, reserved |-> tokens.reserved]
  BY <1>1
<1>4. tokens.used + 0 = tokens.used /\ tokens.reserved - 0 + 0 = tokens.reserved
  BY <1>1
<1>5. tokens = [used |-> tokens.used + 0, reserved |-> tokens.reserved - WeightOf(asker[a]) + 0]
  BY <1>2, <1>3, <1>4
<1> QED
  BY <1>2, <1>5 DEF ReasoningInv, ReasoningTypeOK, TokensAreSettled, SoundChoice

(* A thread moves and holds no tokens before or after.                     *)
LEMMA QuietAskers ==
  ASSUME ReasoningInv, NEW a \in Askers, asker[a].pc # "calling",
         NEW x \in Asking, x.pc # "calling", SoundChoice(x), Known(x),
         asker' = [asker EXCEPT ![a] = x], failure' \in Failures \union {NoFailure},
         UNCHANGED <<task, admitted, tokens>>
  PROVE  ReasoningInv'
<1>1. WeightOf(x) = 0
  BY DEF WeightOf
<1>2. /\ tokens' = [used |-> tokens.used + 0, reserved |-> tokens.reserved - WeightOf(asker[a]) + WeightOf(x)]
      /\ tokens'.used + tokens'.reserved <= TokenBudget
  BY <1>1, QuietTokens
<1> QED
  BY <1>2, AskerStep

LEMMA AskStep ==
  ASSUME ReasoningInv, NEW a \in Askers, NEW op \in Operations, NEW floor \in EndpointTiers,
         NEW eligible \in SUBSET EndpointTiers, Ask(a, op, floor, eligible)
  PROVE  ReasoningInv'
<1> DEFINE x == [pc |-> "budgeting", op |-> op, floor |-> floor,
                 tiers |-> eligible, failed |-> failure, tier |-> NoTier]
<1>1. asker[a].pc = "idle" /\ asker' = [asker EXCEPT ![a] = x]
      /\ UNCHANGED <<task, failure, tokens, admitted>>
  BY DEF Ask
<1>2. x \in Asking /\ SoundChoice(x) /\ Known(x) /\ x.pc # "calling"
  BY QuietTokens, <1>1, TierFacts DEF Asking, SoundChoice, Known
<1> HIDE DEF x
<1> QED
  BY <1>1, <1>2, QuietAskers, QuietTokens

LEMMA SnapshotStep ==
  ASSUME ReasoningInv, NEW a \in Askers, SnapshotBudget(a)
  PROVE  ReasoningInv'
<1> DEFINE fitting == {t \in asker[a].tiers : EstimateOf[t] <= Remaining}
           x == [asker[a] EXCEPT !.pc = "routing", !.tiers = fitting]
<1>1. /\ asker[a].pc = "budgeting"
      /\ asker' = [asker EXCEPT ![a].pc = "routing", ![a].tiers = fitting]
      /\ UNCHANGED <<task, failure, tokens, admitted>>
  BY DEF SnapshotBudget
<1>2. asker[a] \in Asking /\ asker \in [Askers -> Asking]
  BY DEF ReasoningInv, ReasoningTypeOK
<1>3. fitting \subseteq asker[a].tiers /\ fitting \in SUBSET Tiers
  BY <1>2, AskerParts
<1> HIDE DEF fitting
<1>4. asker' = [asker EXCEPT ![a] = x]
  BY <1>1, <1>2
<1>5. x \in Asking /\ x.pc = "routing" /\ x.tiers = fitting /\ x.op = asker[a].op
  BY <1>2, <1>3 DEF Asking
<1> HIDE DEF x
<1>6. SoundChoice(x) /\ Known(x)
  BY <1>1, <1>3, <1>5, QuietTokens DEF SoundChoice, Known
<1> QED
  BY <1>1, <1>4, <1>5, <1>6, QuietAskers, QuietTokens

LEMMA FindNoTierStep ==
  ASSUME ReasoningInv, NEW a \in Askers, FindNoTier(a)
  PROVE  ReasoningInv'
<1>1. asker[a].pc = "routing" /\ asker' = [asker EXCEPT ![a] = NotAsking]
      /\ UNCHANGED <<task, failure, tokens, admitted>>
  BY DEF FindNoTier
<1> QED
  BY <1>1, QuietAskers, QuietTokens, RestIsSound DEF NotAsking

LEMMA SkipModelStep ==
  ASSUME ReasoningInv, NEW a \in Askers, SkipModel(a)
  PROVE  ReasoningInv'
<1> DEFINE x == [asker[a] EXCEPT !.pc = "running"]
<1>1. asker[a].pc = "paying" /\ asker' = [asker EXCEPT ![a] = x]
      /\ UNCHANGED <<task, failure, tokens, admitted>>
  BY DEF SkipModel, ReasoningInv, ReasoningTypeOK
<1>2. asker[a] \in Asking /\ SoundChoice(asker[a]) /\ Known(asker[a])
  BY <1>1, QuietTokens
<1>3. x \in Asking /\ x.pc = "running" /\ x.tiers = asker[a].tiers /\ x.floor = asker[a].floor
      /\ x.tier = asker[a].tier /\ x.op = asker[a].op
  BY <1>2 DEF Asking
<1> HIDE DEF x
<1>4. SoundChoice(x) /\ Known(x)
  BY <1>1, <1>2, <1>3 DEF SoundChoice, Known
<1> QED
  BY <1>1, <1>3, <1>4, QuietAskers, QuietTokens

LEMMA RemainingFacts ==
  ASSUME ReasoningInv, NEW n \in Nat \ {0}, n <= Remaining
  PROVE  tokens.used + tokens.reserved + n <= TokenBudget
<1> DEFINE left == TokenBudget - tokens.used - tokens.reserved
<1>1. tokens.used \in Nat /\ tokens.reserved \in Nat /\ left \in Int
  BY TierFacts DEF ReasoningInv, ReasoningTypeOK
<1>2. \E x \in {0, left} : \A y \in {0, left} : x >= y
  BY <1>1
<1>3. Remaining \in {0, left}
  BY <1>2 DEF Remaining, Max
<1> QED
  BY <1>1, <1>3, TierFacts

LEMMA ReserveEstimateStep ==
  ASSUME ReasoningInv, NEW a \in Askers, ReserveEstimate(a)
  PROVE  ReasoningInv'
<1> DEFINE estimate == EstimateOf[asker[a].tier]
           x == [asker[a] EXCEPT !.pc = "calling"]
<1>1. asker[a].pc = "paying" /\ UNCHANGED <<task, failure, admitted>>
  BY DEF ReserveEstimate
<1>2. asker[a] \in Asking /\ SoundChoice(asker[a]) /\ Known(asker[a])
  BY <1>1, QuietTokens
<1>3. asker[a].tier \in Tiers /\ estimate \in Nat \ {0}
  BY <1>1, <1>2, AskerParts, TierFacts DEF SoundChoice, Candidates
<1>4. CASE estimate <= Remaining
  <2>1. tokens' = [tokens EXCEPT !.reserved = @ + estimate] /\ asker' = [asker EXCEPT ![a] = x]
    BY <1>4 DEF ReserveEstimate, ReasoningInv, ReasoningTypeOK
  <2>2. x \in Asking /\ x.pc = "calling" /\ x.tiers = asker[a].tiers /\ x.floor = asker[a].floor
        /\ x.tier = asker[a].tier /\ x.op = asker[a].op
    BY <1>2 DEF Asking
  <2> HIDE DEF x
  <2>3. SoundChoice(x) /\ Known(x) /\ WeightOf(x) = estimate
    BY <1>1, <1>2, <2>2 DEF SoundChoice, WeightOf, Known
  <2> HIDE DEF estimate
  <2>4. tokens \in [used : Nat, reserved : Nat] /\ WeightOf(asker[a]) = 0
    BY <1>1, QuietTokens DEF ReasoningInv, ReasoningTypeOK
  <2>5. tokens.used + 0 = tokens.used /\ tokens.reserved - 0 + estimate = tokens.reserved + estimate
    BY <1>3, <2>4
  <2>6. tokens' = [used |-> tokens.used, reserved |-> tokens.reserved + estimate]
    BY <2>1, <2>4
  <2>7. tokens' = [used |-> tokens.used + 0,
                   reserved |-> tokens.reserved - WeightOf(asker[a]) + WeightOf(x)]
    BY <2>3, <2>4, <2>5, <2>6
  <2>8. tokens'.used + tokens'.reserved <= TokenBudget
    <3>1. tokens.used + tokens.reserved + estimate <= TokenBudget
      BY <1>3, <1>4, RemainingFacts
    <3>2. tokens.used \in Nat /\ tokens.reserved \in Nat
      BY <2>4
    <3> QED
      BY <1>3, <2>6, <3>1, <3>2
  <2> QED
    BY <1>1, <2>1, <2>2, <2>3, <2>7, <2>8, AskerStep, QuietTokens
<1>5. CASE ~(estimate <= Remaining)
  <2>1. asker' = [asker EXCEPT ![a] = NotAsking] /\ UNCHANGED tokens
    BY <1>5 DEF ReserveEstimate
  <2> QED
    BY <1>1, <2>1, QuietAskers, QuietTokens, RestIsSound DEF NotAsking
<1> QED
  BY <1>4, <1>5

(* A thread in a call holds its estimate.                                  *)
LEMMA CallingFacts ==
  ASSUME ReasoningInv, NEW a \in Askers, asker[a].pc = "calling"
  PROVE  /\ asker[a] \in Asking /\ SoundChoice(asker[a]) /\ Known(asker[a])
         /\ WeightOf(asker[a]) = EstimateOf[asker[a].tier]
         /\ Release(a) = tokens.reserved - WeightOf(asker[a]) /\ Release(a) \in Nat
         /\ tokens.used \in Nat /\ tokens.reserved \in Nat /\ Release(a) <= tokens.reserved
         /\ tokens \in [used : Nat, reserved : Nat] /\ tokens.used + tokens.reserved <= TokenBudget
<1>1. asker[a] \in Asking /\ SoundChoice(asker[a]) /\ Known(asker[a])
      /\ asker \in [Askers -> Asking] /\ tokens \in [used : Nat, reserved : Nat]
  BY DEF ReasoningInv, ReasoningTypeOK, TokensAreSettled, SoundChoice
<1>2. WeightOf(asker[a]) = EstimateOf[asker[a].tier]
  BY DEF WeightOf
<1>3. /\ tokens.reserved \in Nat /\ tokens.used \in Nat /\ tokens.used + tokens.reserved <= TokenBudget
      /\ WeightOf(asker[a]) \in Nat /\ WeightOf(asker[a]) <= tokens.reserved
  <2>1. \A e \in Askers : HeldTokens[e] = WeightOf(asker[e]) /\ WeightOf(asker[e]) \in Nat
    <3> TAKE e \in Askers
    <3>1. asker[e] \in Asking /\ SoundChoice(asker[e])
      BY DEF ReasoningInv, ReasoningTypeOK, TokensAreSettled, SoundChoice
    <3> QED
      BY <3>1, WeightIsNat DEF HeldTokens, HeldBy, WeightOf
  <2>2. tokens.reserved = SumFunctionOnSet(HeldTokens, Askers)
    BY DEF ReasoningInv, TokensAreSettled, HeldTokens, SumFunction
  <2>3. HeldTokens[a] <= SumFunctionOnSet(HeldTokens, Askers)
    BY <2>1, EstimatesAssumption, SumBoundsElement
  <2> QED
    BY <1>1, <2>1, <2>2, <2>3 DEF ReasoningInv, TokensAreSettled
<1>4. Release(a) = tokens.reserved - WeightOf(asker[a])
  BY <1>2 DEF Release
<1> QED
  BY <1>1, <1>2, <1>3, <1>4

(* The model call ends: x is what the thread becomes, and it pays usage or *)
(* nothing.                                                                *)
LEMMA CallEnds ==
  ASSUME ReasoningInv, NEW a \in Askers, asker[a].pc = "calling", NEW usage \in Nat,
         NEW x \in Asking, SoundChoice(x), Known(x), x.pc # "calling",
         asker' = [asker EXCEPT ![a] = x],
         failure' \in Failures \union {NoFailure}, UNCHANGED <<task, admitted>>,
         tokens' = Charge(a, usage), tokens.used + usage + Release(a) <= TokenBudget
  PROVE  ReasoningInv'
<1>1. /\ Release(a) = tokens.reserved - WeightOf(asker[a]) /\ Release(a) \in Nat
      /\ tokens.used \in Nat /\ WeightOf(x) = 0
  BY CallingFacts DEF WeightOf
<1>2. Release(a) = tokens.reserved - WeightOf(asker[a]) + WeightOf(x)
  BY <1>1
<1>3. tokens' = [used |-> tokens.used + usage,
                 reserved |-> tokens.reserved - WeightOf(asker[a]) + WeightOf(x)]
  BY <1>2 DEF Charge
<1>4. tokens'.used = tokens.used + usage /\ tokens'.reserved = Release(a)
  BY <1>2, <1>3
<1> QED
  BY <1>3, <1>4, AskerStep

LEMMA RunningFacts ==
  ASSUME NEW q \in Asking, SoundChoice(q), q.pc = "calling"
  PROVE  LET x == [q EXCEPT !.pc = "running"] IN
         x \in Asking /\ SoundChoice(x) /\ x.tiers = q.tiers /\ x.op = q.op /\ x.pc = "running"
<1> DEFINE x == [q EXCEPT !.pc = "running"]
<1>1. x \in Asking /\ x.pc = "running" /\ x.tiers = q.tiers /\ x.floor = q.floor /\ x.tier = q.tier
      /\ x.op = q.op
  BY DEF Asking
<1> HIDE DEF x
<1>2. x \in Asking /\ SoundChoice(x) /\ x.tiers = q.tiers /\ x.op = q.op /\ x.pc = "running"
  BY <1>1 DEF SoundChoice
<1> QED
  BY <1>2 DEF x

LEMMA PayModelStep ==
  ASSUME ReasoningInv, NEW a \in Askers, NEW usage \in 0..MaxSpent, PayModel(a, usage)
  PROVE  ReasoningInv'
<1> DEFINE x == [asker[a] EXCEPT !.pc = "running"]
<1>1. /\ asker[a].pc = "calling" /\ Charge(a, usage).used + Release(a) <= TokenBudget
      /\ tokens' = Charge(a, usage) /\ UNCHANGED <<task, failure, admitted>>
      /\ asker' = [asker EXCEPT ![a] = x] /\ usage \in Nat
  BY DEF PayModel, ReasoningInv, ReasoningTypeOK
<1>2. x \in Asking /\ SoundChoice(x) /\ Known(x) /\ x.pc # "calling"
  BY <1>1, CallingFacts, RunningFacts DEF Known
<1> HIDE DEF x
<1>3. Charge(a, usage).used = tokens.used + usage /\ failure \in Failures \union {NoFailure}
  BY DEF Charge, ReasoningInv, ReasoningTypeOK
<1> QED
  BY <1>1, <1>2, <1>3, CallEnds

LEMMA FailedAsker ==
  ASSUME ReasoningInv, NEW a \in Askers, asker[a].pc # "idle", Fail(a)
  PROVE  /\ failure' \in Failures \union {NoFailure}
         /\ asker' = [asker EXCEPT ![a] = NotAsking]
<1>1. asker[a].op \in Operations
  BY DEF ReasoningInv, Known
<1> QED
  BY <1>1 DEF Fail, Failures

LEMMA PayOffenderStep ==
  ASSUME ReasoningInv, NEW a \in Askers, NEW usage \in 0..MaxSpent, PayOffender(a, usage)
  PROVE  ReasoningInv'
<1>1. /\ asker[a].pc = "calling" /\ Charge(a, usage).used + Release(a) <= TokenBudget
      /\ tokens' = Charge(a, usage) /\ UNCHANGED <<task, admitted>> /\ Fail(a) /\ usage \in Nat
  BY DEF PayOffender
<1>2. Charge(a, usage).used = tokens.used + usage
  BY DEF Charge
<1>3. NotAsking.pc # "calling"
  BY DEF NotAsking
<1> QED
  BY <1>1, <1>2, <1>3, CallEnds, FailedAsker, RestIsSound

LEMMA LoseModelStep ==
  ASSUME ReasoningInv, NEW a \in Askers, LoseModel(a)
  PROVE  ReasoningInv'
<1>1. /\ asker[a].pc = "calling" /\ tokens' = [tokens EXCEPT !.reserved = Release(a)]
      /\ UNCHANGED <<task, admitted>> /\ Fail(a)
  BY DEF LoseModel
<1>2. /\ Release(a) \in Nat /\ tokens \in [used : Nat, reserved : Nat] /\ Release(a) <= tokens.reserved
      /\ tokens.used \in Nat /\ tokens.reserved \in Nat /\ tokens.used + tokens.reserved <= TokenBudget
  BY <1>1, CallingFacts
<1>3. tokens' = [used |-> tokens.used, reserved |-> Release(a)] /\ tokens.used + 0 = tokens.used
  BY <1>1, <1>2
<1>4. tokens' = Charge(a, 0)
  BY <1>3 DEF Charge
<1>5. tokens.used + 0 + Release(a) <= TokenBudget
  BY <1>2, TierFacts
<1>6. NotAsking.pc # "calling"
  BY DEF NotAsking
<1> QED
  BY <1>1, <1>4, <1>5, <1>6, CallEnds, FailedAsker, RestIsSound

LEMMA SucceedStep ==
  ASSUME ReasoningInv, NEW a \in Askers, Succeed(a) \/ FailOperation(a)
  PROVE  ReasoningInv'
<1>1. asker[a].pc = "running" /\ UNCHANGED <<task, tokens, admitted>>
      /\ asker' = [asker EXCEPT ![a] = NotAsking]
      /\ failure' \in Failures \union {NoFailure}
  BY FailedAsker DEF Succeed, FailOperation
<1>2. NotAsking.pc # "calling"
  BY DEF NotAsking
<1> QED
  BY <1>1, <1>2, QuietAskers, RestIsSound

LEMMA CountedFacts ==
  ASSUME NEW st \in TaskStates, NEW failed \in Failures
  PROVE  LET next == Counted(st, failed) IN
         /\ \A o \in Failures \ {failed} : next[o] = st.attempts[o]
         /\ next[failed] >= st.attempts[failed]
         /\ st.attempts[failed] < MaxEquivalent => next[failed] = st.attempts[failed] + 1
<1> DEFINE once == st.attempts[failed] + 1
           least == Min({once, MaxEquivalent + 1})
<1>1. st.attempts \in [Failures -> 0..(MaxEquivalent + 1)] /\ MaxEquivalent \in Nat
  BY TierFacts DEF TaskStates
<1>2. Counted(st, failed) = [st.attempts EXCEPT ![failed] = least]
  BY EstimatesAssumption DEF Counted, Failures, NoFailure
<1>3. least \in {once, MaxEquivalent + 1} /\ least <= once /\ least <= MaxEquivalent + 1
  <2>1. \E x \in {once, MaxEquivalent + 1} : \A y \in {once, MaxEquivalent + 1} : x <= y
    BY <1>1
  <2> QED
    BY <2>1 DEF Min
<1>4. least >= st.attempts[failed] /\ (st.attempts[failed] < MaxEquivalent => least = once)
  BY <1>1, <1>3
<1> HIDE DEF least
<1> QED
  BY <1>1, <1>2, <1>4

(* A decision: what it admits it has counted.                              *)
LEMMA DecideStep ==
  ASSUME ReasoningInv, NEW a \in Askers, Decide(a)
  PROVE  ReasoningInv'
<1> DEFINE q == asker[a]
           advice == Route(task, q.tiers, q.floor, q.failed)
           paying == [pc |-> "paying", op |-> q.op, floor |-> q.floor, tiers |-> q.tiers,
                      tier |-> advice.tier, failed |-> NoFailure]
           x == IF advice.stop THEN NotAsking ELSE paying
<1>1. /\ q.pc = "routing" /\ Candidates(q.tiers, q.floor) # {}
      /\ task' = advice.state /\ asker' = [asker EXCEPT ![a] = x]
      /\ admitted' = IF advice.stop \/ q.failed = NoFailure THEN admitted
                     ELSE [admitted EXCEPT ![q.failed] = Min({@ + 1, MaxEquivalent + 1})]
      /\ UNCHANGED <<failure, tokens>>
  BY DEF Decide
<1>2. /\ q \in Asking /\ Known(q) /\ task \in TaskStates
      /\ q.op \in Operations \union {NoOperation} /\ q.floor \in Tiers /\ q.tiers \in SUBSET Tiers
      /\ q.failed \in Failures \union {NoFailure}
  <2>1. q \in Asking
    BY DEF ReasoningInv, ReasoningTypeOK
  <2> HIDE DEF q
  <2>2. q.op \in Operations \union {NoOperation} /\ q.floor \in Tiers /\ q.tiers \in SUBSET Tiers
        /\ q.failed \in Failures \union {NoFailure}
    BY <2>1, AskerParts
  <2> QED
    BY <2>1, <2>2 DEF ReasoningInv, ReasoningTypeOK, TaskStates, q
<1> HIDE DEF q
<1>3. /\ advice.stop \in BOOLEAN /\ advice.tier \in Candidates(q.tiers, q.floor)
      /\ advice.state \in TaskStates /\ advice.state.attempts = Counted(task, q.failed)
      /\ ~advice.stop /\ q.failed # NoFailure => task.attempts[q.failed] < MaxEquivalent
  BY <1>1, <1>2, RouteFacts
<1> HIDE DEF advice
<1>4. advice.tier \in Tiers
  BY <1>2, <1>3 DEF Candidates
<1>5. paying \in Asking /\ SoundChoice(paying) /\ Known(paying) /\ paying.pc = "paying"
  <2>1. paying \in Asking
    BY <1>2, <1>4 DEF Asking
  <2> QED
    BY <1>1, <1>2, <1>3, <2>1 DEF SoundChoice, Known
<1>6. x \in Asking /\ SoundChoice(x) /\ Known(x) /\ x.pc # "calling"
  <2>1. NotAsking.pc # "calling"
    BY DEF NotAsking
  <2> HIDE DEF paying
  <2> QED
    BY <1>5, <2>1, RestIsSound
<1> HIDE DEF x, paying
<1>7. WeightOf(x) = 0 /\ WeightOf(asker[a]) = 0
  BY <1>1, <1>6 DEF WeightOf, q
<1>8. /\ asker' \in [Askers -> Asking]
      /\ \A e \in Askers : Known(asker'[e]) /\ SoundChoice(asker'[e])
      /\ tokens.reserved \in Nat /\ tokens.used \in Nat /\ tokens.used + tokens.reserved <= TokenBudget
      /\ SumFunction(HeldTokens') = tokens.reserved - WeightOf(asker[a]) + WeightOf(x)
  BY <1>1, <1>6, AskerMoves
<1>9. tokens.reserved - 0 + 0 = tokens.reserved
  BY <1>8
<1>10. TokensAreSettled'
  BY <1>1, <1>7, <1>8, <1>9 DEF TokensAreSettled, SoundChoice, HeldTokens, HeldBy
<1>11. ReasoningTypeOK'
  BY <1>1, <1>3, <1>8 DEF ReasoningInv, ReasoningTypeOK, TaskStates
<1>12. task'.attempts = Counted(task, q.failed)
  BY <1>1, <1>3
<1>13. /\ admitted \in [Failures -> Nat]
       /\ \A o \in Failures : admitted[o] <= task.attempts[o] /\ admitted[o] <= MaxEquivalent
                                /\ task.attempts[o] \in Nat
  <2>1. task.attempts \in [Failures -> 0..(MaxEquivalent + 1)]
    BY <1>2 DEF TaskStates
  <2> QED
    BY <2>1 DEF ReasoningInv
<1>14. /\ admitted' \in [Failures -> Nat]
       /\ \A o \in Failures : admitted'[o] <= task'.attempts[o] /\ admitted'[o] <= MaxEquivalent
  <2>1. CASE q.failed = NoFailure
    <3>1. task'.attempts = task.attempts /\ admitted' = admitted
      BY <1>1, <1>12, <2>1 DEF Counted
    <3> QED
      BY <1>13, <3>1
  <2>2. CASE q.failed # NoFailure
    <3>1. q.failed \in Failures
      BY <1>2, <2>2
    <3>2. /\ \A o \in Failures \ {q.failed} : task'.attempts[o] = task.attempts[o]
          /\ task'.attempts[q.failed] >= task.attempts[q.failed]
          /\ task.attempts[q.failed] < MaxEquivalent => task'.attempts[q.failed] = task.attempts[q.failed] + 1
      BY <1>2, <1>12, <3>1, CountedFacts
    <3>3. CASE advice.stop
      <4>1. admitted' = admitted
        BY <1>1, <3>3
      <4>2. task'.attempts \in [Failures -> 0..(MaxEquivalent + 1)]
        BY <1>1, <1>3 DEF TaskStates
      <4> QED
        BY <1>13, <3>1, <3>2, <4>1, <4>2
    <3>4. CASE ~advice.stop
      <4> DEFINE once == admitted[q.failed] + 1
                 least == Min({once, MaxEquivalent + 1})
      <4>1. admitted' = [admitted EXCEPT ![q.failed] = least]
        BY <1>1, <2>2, <3>4
      <4>2. task.attempts[q.failed] < MaxEquivalent
        BY <1>3, <2>2, <3>4
      <4>3. least \in {once, MaxEquivalent + 1} /\ least <= once
        <5>1. once \in Nat /\ MaxEquivalent + 1 \in Nat
          BY <1>13, <3>1, TierFacts
        <5>2. \E y \in {once, MaxEquivalent + 1} : \A z \in {once, MaxEquivalent + 1} : y <= z
          BY <5>1
        <5> QED
          BY <5>2 DEF Min
      <4>4. /\ admitted[q.failed] \in Nat /\ admitted[q.failed] <= task.attempts[q.failed]
            /\ task.attempts[q.failed] \in Nat /\ MaxEquivalent \in Nat
        BY <1>13, <3>1, TierFacts
      <4>5. least \in Nat /\ least <= task.attempts[q.failed] + 1 /\ least <= MaxEquivalent
        BY <4>2, <4>3, <4>4
      <4> HIDE DEF least
      <4> QED
        BY <1>13, <3>1, <3>2, <4>1, <4>2, <4>5
    <3> QED
      BY <1>3, <3>3, <3>4
  <2> QED
    BY <2>1, <2>2
<1> QED
  BY <1>8, <1>10, <1>11, <1>14 DEF ReasoningInv

LEMMA ReasoningInitInv == ReasoningInit => ReasoningInv
<1> SUFFICES ASSUME ReasoningInit PROVE ReasoningInv
  OBVIOUS
<1>1. /\ \A a \in Askers : asker[a] = NotAsking
      /\ asker \in [Askers -> Asking] /\ tokens = [used |-> 0, reserved |-> 0]
  BY RestIsSound DEF ReasoningInit
<1>2. NothingSpent \in TaskStates /\ \A o \in Failures : NothingSpent.attempts[o] = 0
  <2>1. [o \in Failures |-> 0] \in [Failures -> 0..(MaxEquivalent + 1)]
    BY TierFacts
  <2> QED
    BY <2>1, TierFacts DEF NothingSpent, TaskStates
<1>3. ReasoningTypeOK
  BY <1>1, <1>2 DEF ReasoningInit, ReasoningTypeOK, TaskStates
<1>4. \A a \in Askers : HeldTokens[a] = 0
  BY <1>1 DEF HeldTokens, HeldBy, NotAsking
<1>5. SumFunction(HeldTokens) = 0
  <2>1. SumFunctionOnSet(HeldTokens, Askers) = 0
    BY <1>4, EstimatesAssumption, SumZero
  <2> QED
    BY <2>1 DEF SumFunction, HeldTokens
<1>6. \A a \in Askers : asker[a].pc = "idle" /\ asker[a].tiers = {}
  BY <1>1 DEF NotAsking
<1>7. TokensAreSettled
  BY <1>1, <1>5, <1>6, TierFacts DEF TokensAreSettled, HeldTokens
<1>8. admitted \in [Failures -> Nat] /\ \A o \in Failures : admitted[o] = 0
  BY DEF ReasoningInit
<1> QED
  BY <1>2, <1>3, <1>6, <1>7, <1>8, TierFacts DEF ReasoningInit, ReasoningInv, Known

LEMMA ReasoningNextInv == ReasoningInv /\ [ReasoningNext]_reasoning => ReasoningInv'
<1> SUFFICES ASSUME ReasoningInv, [ReasoningNext]_reasoning PROVE ReasoningInv'
  OBVIOUS
<1>1. CASE ReasoningNext
  <2>1. PICK a \in Askers :
          \/ \E op \in Operations, floor \in EndpointTiers, eligible \in SUBSET EndpointTiers :
               Ask(a, op, floor, eligible)
          \/ SnapshotBudget(a) \/ FindNoTier(a) \/ Decide(a)
          \/ SkipModel(a) \/ ReserveEstimate(a)
          \/ \E usage \in 0..MaxSpent : PayModel(a, usage) \/ PayOffender(a, usage)
          \/ LoseModel(a) \/ Succeed(a) \/ FailOperation(a)
    BY <1>1 DEF ReasoningNext
  <2> QED
    BY <2>1, AskStep, SnapshotStep, FindNoTierStep, DecideStep, SkipModelStep, ReserveEstimateStep,
       PayModelStep, PayOffenderStep, LoseModelStep, SucceedStep
<1>2. CASE UNCHANGED reasoning
  BY <1>2 DEF reasoning, ReasoningInv, ReasoningTypeOK, TokensAreSettled, HeldBy
<1> QED
  BY <1>1, <1>2

(* reasoning.py, orchestration.py: decisions on one failure and rises of   *)
(* the tier are bounded, tokens held and spent stay within the budget, and *)
(* both advisers give the same advice, for any threads, operations,        *)
(* estimates and limits.                                                   *)
THEOREM ReasoningIsBoundedHolds == ReasoningSpec => []ReasoningIsBounded
<1>1. ReasoningInv => ReasoningIsBounded
  <2> SUFFICES ASSUME ReasoningInv PROVE ReasoningIsBounded
    OBVIOUS
  <2>1. RetriesAreBounded
    BY TierFacts DEF ReasoningInv, ReasoningTypeOK, RetriesAreBounded
  <2>2. StoresAgree
    BY TierFacts, AdvisersAgree DEF StoresAgree
  <2> QED
    BY <2>1, <2>2 DEF ReasoningInv, ReasoningIsBounded
<1> QED
  BY ReasoningInitInv, ReasoningNextInv, <1>1, PTL DEF ReasoningSpec

-----------------------------------------------------------------------------
(* The chain of a scope holds the scope and the chain of its parent.       *)
LEMMA ChainFacts ==
  ASSUME NEW s \in Scopes
  PROVE  /\ s \in Chain[s] /\ Chain[s] \subseteq Scopes
         /\ ClosedUpward(Chain[s])
         /\ \A S \in SUBSET Scopes : s \in S /\ ClosedUpward(S) => Chain[s] \subseteq S
         /\ IsFiniteSet(Chain[s])
<1>1. s \in Chain[s] /\ Chain[s] \subseteq Scopes
  BY DEF Chain
<1>2. ClosedUpward(Chain[s])
  BY ParentAssumption DEF Chain, ClosedUpward
<1>3. \A S \in SUBSET Scopes : s \in S /\ ClosedUpward(S) => Chain[s] \subseteq S
  BY DEF Chain
<1>4. IsFiniteSet(Chain[s])
  BY <1>1, LedgerAssumption, FS_Subset
<1> QED
  BY <1>1, <1>2, <1>3, <1>4

LEMMA ChainOfMember ==
  ASSUME NEW s \in Scopes, NEW a \in Chain[s]
  PROVE  a \in Scopes /\ Chain[a] \subseteq Chain[s]
<1>1. a \in Scopes
  BY ChainFacts
<1> QED
  BY <1>1, ChainFacts

LEMMA ChainOfParent ==
  ASSUME NEW s \in Scopes, NEW a \in Chain[s], a # s
  PROVE  Parent[s] \in Scopes /\ a \in Chain[Parent[s]]
<1>1. CASE Parent[s] = NoScope
  <2>1. ClosedUpward({s})
    BY <1>1 DEF ClosedUpward
  <2> QED
    BY <2>1, ChainFacts
<1>2. CASE Parent[s] # NoScope
  <2>1. Parent[s] \in Scopes
    BY <1>2, ParentAssumption
  <2> DEFINE S == {s} \cup Chain[Parent[s]]
  <2>2. S \in SUBSET Scopes /\ ClosedUpward(S)
    BY <2>1, ChainFacts DEF ClosedUpward
  <2>3. Chain[s] \subseteq S
    BY <2>2, ChainFacts
  <2> QED
    BY <2>1, <2>3
<1> QED
  BY <1>1, <1>2

(* Two scopes of a chain are one above the other.                          *)
LEMMA ChainIsLine ==
  ASSUME NEW s \in Scopes, NEW a \in Chain[s], NEW d \in Chain[s]
  PROVE  a \in Chain[d] \/ d \in Chain[a]
<1>1. a \in Scopes /\ d \in Scopes
  BY ChainOfMember
<1> DEFINE T == {x \in Scopes : a \in Chain[x] \/ x \in Chain[a]}
<1>2. ClosedUpward(T)
  <2> SUFFICES ASSUME NEW x \in T, Parent[x] # NoScope PROVE Parent[x] \in T
    BY DEF ClosedUpward
  <2>1. Parent[x] \in Scopes
    BY ParentAssumption
  <2>2. CASE x \in Chain[a]
    BY <1>1, <2>1, <2>2, ChainFacts DEF ClosedUpward
  <2>3. CASE a \in Chain[x] /\ a # x
    BY <2>1, <2>3, ChainOfParent
  <2> QED
    BY <1>1, <2>2, <2>3, ChainFacts
<1>3. s \in T
  OBVIOUS
<1>4. Chain[s] \subseteq T
  BY <1>2, <1>3, ChainFacts
<1> QED
  BY <1>4

(* A scope is less deep than the scopes it is above.                       *)
LEMMA AboveIsLessDeep ==
  ASSUME NEW s \in Scopes, NEW a \in Chain[s], a # s
  PROVE  Depth(a) < Depth(s)
<1>1. Parent[s] \in Scopes /\ a \in Chain[Parent[s]] /\ a \in Scopes
  BY ChainOfParent, ChainOfMember
<1>2. Chain[a] \subseteq Chain[Parent[s]] /\ Chain[a] \subseteq Chain[s]
  BY <1>1, ChainOfMember
<1>3. s \notin Chain[Parent[s]] /\ s \in Chain[s]
  BY <1>1, LedgerAssumption, ParentAssumption, ChainFacts
<1>4. IsFiniteSet(Chain[s]) /\ Chain[a] # Chain[s]
  BY <1>2, <1>3, ChainFacts
<1>5. IsFiniteSet(Chain[a]) /\ Cardinality(Chain[a]) <= Cardinality(Chain[s])
      /\ Cardinality(Chain[s]) # Cardinality(Chain[a])
  BY <1>2, <1>4, FS_Subset
<1>6. Cardinality(Chain[s]) \in Nat /\ Cardinality(Chain[a]) \in Nat
  BY <1>4, <1>5, FS_CardinalityType
<1> QED
  BY <1>5, <1>6 DEF Depth

LEMMA DepthType ==
  ASSUME NEW s \in Scopes
  PROVE  Depth(s) \in Nat /\ Depth(s) < Cardinality(Scopes) /\ Cardinality(Scopes) \in Nat
<1>1. /\ IsFiniteSet(Chain[s]) /\ s \in Chain[s]
      /\ Cardinality(Chain[s]) <= Cardinality(Scopes) /\ Cardinality(Scopes) \in Nat
  BY ChainFacts, LedgerAssumption, FS_Subset, FS_CardinalityType
<1>2. Cardinality(Chain[s]) \in Nat /\ Cardinality(Chain[s]) # 0
  BY <1>1, FS_CardinalityType, FS_EmptySet
<1> QED
  BY <1>1, <1>2 DEF Depth

LEMMA DepthsDiffer ==
  ASSUME NEW s \in Scopes, NEW a \in Chain[s], NEW d \in Chain[s], a # d
  PROVE  Depth(a) < Depth(d) \/ Depth(d) < Depth(a)
  BY ChainIsLine, ChainOfMember, AboveIsLessDeep

(* The locks a call takes are those of its chain, or that of the database. *)
LEMMA LocksType ==
  ASSUME NEW s \in Scopes
  PROVE  /\ s \in DurableScopes => LocksOf(s) = {Database}
         /\ s \notin DurableScopes => LocksOf(s) = Chain[s] /\ Chain[s] \subseteq Scopes
         /\ LocksOf(s) \subseteq Lockable
         /\ Database \notin Scopes
<1>1. s \in DurableScopes => LocksOf(s) = {Database}
  BY DEF LocksOf
<1>2. s \notin DurableScopes => LocksOf(s) = Chain[s] /\ Chain[s] \subseteq Scopes
  BY ChainFacts DEF LocksOf
<1>3. ASSUME s \notin DurableScopes PROVE Chain[s] \subseteq Scopes \ DurableScopes
  <2>1. ClosedUpward(Scopes \ DurableScopes)
    BY ParentAssumption, DurableAssumption DEF ClosedUpward, Children
  <2> QED
    BY <1>3, <2>1, ChainFacts
<1> QED
  BY <1>1, <1>2, <1>3, LedgerAssumption DEF Lockable

-----------------------------------------------------------------------------
LedgerCall == [pc : {"locking"}, call : LedgerCalls, rid : Rids \union {Database},
               scope : Scopes, amounts : Limits]
Booking == [scope : Scopes \union {NoScope}, status : Contract!Status,
            held : Amounts, charged : Amounts]

LedgerTypes ==
  /\ caps \in [Scopes -> Limits]
  /\ used \in [Scopes -> Amounts] /\ reserved \in [Scopes -> Amounts]
  /\ booked \in [Rids -> Booking]
  /\ thread \in [LedgerThreads -> {Free} \union LedgerCall]
  /\ holder \in [Lockable -> LedgerThreads \union {NoThread}]

(* Finitely many reservations were made, each in a scope.                  *)
Bookings ==
  /\ IsFiniteSet({r \in Rids : booked[r].status # "absent"})
  /\ \A r \in Rids : booked[r].status # "absent" => booked[r].scope \in Scopes

(* A call makes a reservation no other call is about, or is about one that *)
(* was made, or about the limits of a durable scope.                       *)
CallIsSound(t) ==
  LET q == thread[t] IN
  q # Free =>
    /\ q.call # "configure" => q.rid \in Rids /\ q.amounts \in Amounts
    /\ q.call = "reserve" =>
         /\ booked[q.rid].status = "absent"
         /\ \A u \in LedgerThreads \ {t} :
              thread[u] # Free /\ thread[u].call # "configure" => thread[u].rid # q.rid
    /\ q.call \in {"reconcile", "cancel"} =>
         booked[q.rid].status # "absent" /\ q.scope = booked[q.rid].scope

MissingOf(u, threads, holders) == {l \in LocksOf(threads[u].scope) : holders[l] # u}

(* A lock is held by a call that takes it, and whose locks that are still  *)
(* missing lie deeper.                                                     *)
LocksHeld ==
  \A l \in Lockable : holder[l] # NoThread =>
    /\ thread[holder[l]] # Free /\ l \in LocksOf(thread[holder[l]].scope)
    /\ l # Database => \A m \in MissingOf(holder[l], thread, holder) : Depth(l) < Depth(m)

WithinCaps ==
  \A s \in Scopes, c \in Counters : caps[s][c] # Unlimited => used[s][c] + reserved[s][c] <= caps[s][c]

LedgerInv ==
  /\ LedgerTypes /\ Bookings
  /\ \A t \in LedgerThreads : CallIsSound(t)
  /\ LocksHeld /\ WithinCaps /\ LedgerIsExact

LEMMA ThreadFacts ==
  /\ NoThread \notin LedgerThreads /\ \A q \in LedgerCall : q # Free /\ q.pc = "locking"
  BY LedgerAssumption DEF NoThread, LedgerCall, Free

-----------------------------------------------------------------------------
(* The locks.  A call that starts holds none.                              *)
LEMMA StartKeepsLocks ==
  ASSUME LedgerTypes, LocksHeld, NEW t \in LedgerThreads, NEW q,
         thread[t] = Free, thread' = [thread EXCEPT ![t] = q], UNCHANGED holder
  PROVE  LocksHeld'
<1> SUFFICES ASSUME NEW l \in Lockable, holder[l] # NoThread
             PROVE  /\ thread'[holder[l]] # Free /\ l \in LocksOf(thread'[holder[l]].scope)
                    /\ l # Database => \A m \in MissingOf(holder[l], thread', holder) : Depth(l) < Depth(m)
  BY DEF LocksHeld
<1>1. holder[l] # t /\ holder[l] \in LedgerThreads
  BY DEF LocksHeld, LedgerTypes
<1>2. thread'[holder[l]] = thread[holder[l]]
  BY <1>1 DEF LedgerTypes
<1>3. MissingOf(holder[l], thread', holder) = MissingOf(holder[l], thread, holder)
  BY <1>2 DEF MissingOf
<1> QED
  BY <1>2, <1>3 DEF LocksHeld

(* The lock that is taken next is the least deep of the missing ones.      *)
LEMMA TakeKeepsLocks ==
  ASSUME LedgerTypes, LocksHeld, NEW t \in LedgerThreads, TakeLock(t)
  PROVE  LocksHeld' /\ holder' \in [Lockable -> LedgerThreads \union {NoThread}]
<1>1. PICK k \in Lockable : /\ NextLock(t, k) /\ holder[k] = NoThread
                            /\ holder' = [holder EXCEPT ![k] = t]
  BY DEF TakeLock
<1>2. /\ thread' = thread /\ thread[t] \in LedgerCall
      /\ thread[t] # Free /\ thread[t].scope \in Scopes
  <2>1. thread[t] \in LedgerCall
    BY DEF TakeLock, LedgerTypes, Free
  <2>2. thread[t].scope \in Scopes
    BY <2>1 DEF LedgerCall
  <2> QED
    BY <2>1, <2>2, ThreadFacts DEF TakeLock
<1>3. holder' \in [Lockable -> LedgerThreads \union {NoThread}]
  BY <1>1 DEF LedgerTypes
<1>4. ASSUME NEW l \in Lockable, holder'[l] # NoThread
      PROVE  /\ thread'[holder'[l]] # Free /\ l \in LocksOf(thread'[holder'[l]].scope)
             /\ l # Database => \A m \in MissingOf(holder'[l], thread', holder') : Depth(l) < Depth(m)
  <2>1. \A u \in LedgerThreads : MissingOf(u, thread', holder') = {m \in LocksOf(thread[u].scope) : holder'[m] # u}
    BY <1>2 DEF MissingOf
  <2>2. CASE l = k
    <3>1. holder'[l] = t /\ l \in LocksOf(thread[t].scope)
      BY <1>1, <2>2 DEF LedgerTypes, NextLock, MissingLocks
    <3>2. ASSUME l # Database, NEW m \in MissingOf(t, thread', holder') PROVE Depth(l) < Depth(m)
      <4>1. m \in LocksOf(thread[t].scope) /\ holder'[m] # t
        BY <2>1, <3>2
      <4>2. LocksOf(thread[t].scope) = Chain[thread[t].scope] /\ Chain[thread[t].scope] \subseteq Scopes
            /\ Database \notin Scopes
        BY <1>2, <3>1, <3>2, LocksType
      <4>3. m \in Lockable /\ m # k
        BY <1>2, <2>2, <3>1, <4>1, LocksType
      <4>4. m \in MissingLocks(t) \ {Database}
        BY <1>1, <4>1, <4>2, <4>3 DEF MissingLocks, LedgerTypes
      <4>5. Depth(k) <= Depth(m)
        BY <1>1, <4>4 DEF NextLock
      <4>6. Depth(k) < Depth(m) \/ Depth(m) < Depth(k)
        BY <1>2, <2>2, <3>1, <4>1, <4>2, <4>3, DepthsDiffer
      <4>7. Depth(k) \in Nat /\ Depth(m) \in Nat
        BY <2>2, <3>1, <4>1, <4>2, DepthType
      <4> QED
        BY <2>2, <4>5, <4>6, <4>7
    <3> QED
      BY <1>2, <3>1, <3>2
  <2>3. CASE l # k
    <3>1. holder'[l] = holder[l] /\ holder[l] \in LedgerThreads
      BY <1>1, <1>4, <2>3 DEF LedgerTypes
    <3>2. MissingOf(holder[l], thread', holder') \subseteq MissingOf(holder[l], thread, holder)
      <4> SUFFICES ASSUME NEW m \in LocksOf(thread[holder[l]].scope), holder[m] = holder[l]
                   PROVE  holder'[m] = holder[l]
        BY <2>1, <3>1 DEF MissingOf
      <4>1. thread[holder[l]] \in LedgerCall
        BY <1>4, <3>1 DEF LocksHeld, LedgerTypes
      <4>2. thread[holder[l]].scope \in Scopes
        BY <4>1 DEF LedgerCall
      <4>3. m \in Lockable /\ m # k
        BY <1>1, <1>4, <3>1, <4>2, LocksType
      <4> QED
        BY <1>1, <4>3 DEF LedgerTypes
    <3> QED
      BY <1>2, <1>4, <3>1, <3>2 DEF LocksHeld
  <2> QED
    BY <2>2, <2>3
<1> QED
  BY <1>3, <1>4 DEF LocksHeld

(* A call that ends gives back its locks, and no other's.                  *)
LEMMA UnlockKeepsLocks ==
  ASSUME LedgerTypes, LocksHeld, NEW t \in LedgerThreads, Unlock(t)
  PROVE  LocksHeld' /\ holder' \in [Lockable -> LedgerThreads \union {NoThread}]
<1>1. /\ thread' = [thread EXCEPT ![t] = Free]
      /\ holder' = [l \in Lockable |-> IF holder[l] = t THEN NoThread ELSE holder[l]]
  BY DEF Unlock
<1>2. holder' \in [Lockable -> LedgerThreads \union {NoThread}]
  BY <1>1 DEF LedgerTypes
<1>3. ASSUME NEW l \in Lockable, holder'[l] # NoThread
      PROVE  /\ thread'[holder'[l]] # Free /\ l \in LocksOf(thread'[holder'[l]].scope)
             /\ l # Database => \A m \in MissingOf(holder'[l], thread', holder') : Depth(l) < Depth(m)
  <2>1. holder'[l] = holder[l] /\ holder[l] \in LedgerThreads /\ holder[l] # t
    BY <1>1, <1>3 DEF LedgerTypes
  <2>2. thread'[holder[l]] = thread[holder[l]]
    BY <1>1, <2>1 DEF LedgerTypes
  <2>3. thread[holder[l]] \in LedgerCall
    BY <1>3, <2>1 DEF LocksHeld, LedgerTypes
  <2>4. thread[holder[l]].scope \in Scopes
    BY <2>3 DEF LedgerCall
  <2>5. \A m \in LocksOf(thread[holder[l]].scope) : holder'[m] # holder[l] => holder[m] # holder[l]
    BY <1>1, <2>1, <2>4, LocksType
  <2>6. MissingOf(holder[l], thread', holder') \subseteq MissingOf(holder[l], thread, holder)
    BY <2>1, <2>2, <2>5 DEF MissingOf
  <2> QED
    BY <1>3, <2>1, <2>2, <2>6 DEF LocksHeld
<1> QED
  BY <1>2, <1>3 DEF LocksHeld

(* A call that misses locks has a next one.                                *)
LEMMA NextLockExists ==
  ASSUME LedgerTypes, NEW t \in LedgerThreads, thread[t] # Free, MissingLocks(t) # {}
  PROVE  /\ \E l \in Lockable : NextLock(t, l)
         /\ thread[t] \in LedgerCall /\ thread[t].scope \in Scopes
<1>1. thread[t] \in LedgerCall
  BY DEF LedgerTypes
<1>2. thread[t].scope \in Scopes
  BY <1>1 DEF LedgerCall
<1>3. MissingLocks(t) \subseteq LocksOf(thread[t].scope)
  BY DEF MissingLocks
<1>4. CASE thread[t].scope \in DurableScopes
  <2>1. MissingLocks(t) = {Database} /\ Database \in Lockable
    BY <1>2, <1>3, <1>4, LocksType DEF Lockable
  <2>2. NextLock(t, Database)
    BY <2>1 DEF NextLock
  <2> QED
    BY <1>1, <1>2, <2>1, <2>2
<1>5. CASE thread[t].scope \notin DurableScopes
  <2>1. MissingLocks(t) \subseteq Scopes /\ MissingLocks(t) \subseteq Lockable
    BY <1>2, <1>3, <1>5, LocksType
  <2> DEFINE D == {n \in Nat : \E l \in MissingLocks(t) : n = Depth(l)}
  <2>2. \A l \in MissingLocks(t) : Depth(l) \in D
    BY <2>1, DepthType
  <2>3. D \in SUBSET Nat /\ D # {}
    BY <2>2
  <2>4. PICK n \in D : \A k \in D : <<k, n>> \notin OpToRel(<, Nat)
    BY <2>3, NatLessThanWellFounded, WFMin, Zenon
  <2>5. PICK l \in MissingLocks(t) : n = Depth(l)
    OBVIOUS
  <2>6. \A k \in D : n <= k
    <3> HIDE DEF D
    <3>1. \A k \in D : ~(k < n)
      BY <2>3, <2>4 DEF OpToRel
    <3> QED
      BY <2>3, <3>1
  <2>7. \A m \in MissingLocks(t) : Depth(l) <= Depth(m)
    BY <2>2, <2>5, <2>6
  <2> QED
    BY <1>1, <1>2, <2>1, <2>7 DEF NextLock
<1> QED
  BY <1>1, <1>2, <1>4, <1>5

(* The call that waits for the deepest lock waits for one that can go on.  *)
LEMMA SomeoneCanGoOn ==
  ASSUME LedgerInv
  PROVE  LedgerNeverStuck
<1> SUFFICES ASSUME NEW t \in LedgerThreads, thread[t] # Free,
                    \A u \in LedgerThreads : ~CanGoOn(u)
             PROVE  FALSE
  BY DEF LedgerNeverStuck
<1>1. LedgerTypes /\ LocksHeld
  BY DEF LedgerInv
<1>2. ASSUME NEW u \in LedgerThreads, thread[u] # Free
      PROVE  /\ MissingLocks(u) # {} /\ thread[u] \in LedgerCall /\ thread[u].scope \in Scopes
             /\ \E l \in Lockable : NextLock(u, l)
             /\ \A l \in Lockable : NextLock(u, l) =>
                  /\ holder[l] # NoThread /\ holder[l] \in LedgerThreads /\ holder[l] # u
                  /\ l \in LocksOf(thread[u].scope)
  <2>1. thread[u] \in LedgerCall
    BY <1>1, <1>2 DEF LedgerTypes
  <2>2. thread[u].call \in LedgerCalls /\ thread[u].pc = "locking"
    BY <2>1 DEF LedgerCall
  <2>3. MissingLocks(u) # {}
    BY <2>2 DEF CanGoOn, Locked
  <2>4. \A l \in Lockable : NextLock(u, l) => holder[l] # NoThread
    BY <2>2 DEF CanGoOn
  <2>5. \A l \in Lockable : holder[l] \in LedgerThreads \union {NoThread}
    BY <1>1 DEF LedgerTypes
  <2> QED
    BY <1>1, <1>2, <2>3, <2>4, <2>5, NextLockExists DEF NextLock, MissingLocks
<1>3. ASSUME NEW u \in LedgerThreads, thread[u] # Free, NEW l \in Lockable, NextLock(u, l)
      PROVE  /\ l # Database
             /\ \E w \in LedgerThreads, m \in Lockable :
                  thread[w] # Free /\ NextLock(w, m) /\ Depth(l) < Depth(m)
  <2>1. /\ holder[l] # NoThread /\ holder[l] \in LedgerThreads
    BY <1>2, <1>3
  <2>2. thread[holder[l]] # Free /\ l \in LocksOf(thread[holder[l]].scope)
    BY <1>1, <2>1 DEF LocksHeld
  <2>3. /\ MissingLocks(holder[l]) # {} /\ thread[holder[l]].scope \in Scopes
        /\ \E m \in Lockable : NextLock(holder[l], m)
    BY <1>2, <2>1, <2>2
  <2>4. l # Database
    <3> SUFFICES ASSUME l = Database PROVE FALSE
      OBVIOUS
    <3>1. LocksOf(thread[holder[l]].scope) = {l}
      BY <2>2, <2>3, LocksType
    <3> QED
      BY <2>3, <3>1 DEF MissingLocks
  <2>5. PICK m \in Lockable : NextLock(holder[l], m)
    BY <2>3
  <2>6. Depth(l) < Depth(m)
    BY <1>1, <2>1, <2>4, <2>5 DEF LocksHeld, NextLock, MissingOf, MissingLocks
  <2> QED
    BY <2>1, <2>2, <2>4, <2>5, <2>6
<1> DEFINE D == {n \in Nat : \E u \in LedgerThreads, l \in Lockable :
                               thread[u] # Free /\ NextLock(u, l) /\ n = Depth(l)}
<1>4. \A u \in LedgerThreads, l \in Lockable :
        thread[u] # Free /\ NextLock(u, l) => Depth(l) \in D /\ Depth(l) <= Cardinality(Scopes)
  <2> TAKE u \in LedgerThreads, l \in Lockable
  <2> HAVE thread[u] # Free /\ NextLock(u, l)
  <2>1. l \in Scopes
    BY <1>3 DEF Lockable
  <2> QED
    BY <2>1, DepthType
<1>5. D # {}
  BY <1>2, <1>4
<1>6. D \in SUBSET Nat /\ Cardinality(Scopes) \in Nat /\ \A n \in D : n <= Cardinality(Scopes)
  BY <1>4, LedgerAssumption, FS_CardinalityType
<1>7. \A n \in D : \E m \in D : n < m
  BY <1>3, <1>4
<1> HIDE DEF D
<1>8. Max(D) \in D /\ \A n \in D : n <= Max(D)
  BY <1>5, <1>6, LargestOf
<1>9. PICK m \in D : Max(D) < m
  BY <1>7, <1>8
<1>10. m <= Max(D) /\ m \in Nat /\ Max(D) \in Nat
  BY <1>6, <1>8
<1> QED
  BY <1>9, <1>10

-----------------------------------------------------------------------------
(* The sums of the contract.                                               *)
LEMMA SameForest == Contract!Chain = Chain /\ Contract!Zero = Zero
  BY DEF Contract!Chain, Chain, Contract!ClosedUpward, ClosedUpward, Contract!Zero, Zero

LEMMA SameSum ==
  ASSUME NEW f, NEW S
  PROVE  Contract!SumFunctionOnSet(f, S) = SumFunctionOnSet(f, S)
  BY Zenon DEF Contract!SumFunctionOnSet, Contract!FoldFunctionOnSet, Contract!MapThenFoldSet,
               SumFunctionOnSet, FoldFunctionOnSet, MapThenFoldSet

HeldOf(book, c)    == [r \in Rids |-> Contract!Held(book, r, c)]
ChargedOf(book, c) == [r \in Rids |-> Contract!Charged(book, r, c)]

LEMMA SummedType ==
  ASSUME LedgerTypes, Bookings, NEW c \in Counters
  PROVE  /\ \A r \in Rids : HeldOf(booked, c)[r] \in Nat /\ ChargedOf(booked, c)[r] \in Nat
         /\ \A x \in Scopes : IsFiniteSet(Contract!Below(booked, x))
<1>1. \A r \in Rids : booked[r].held[c] \in Nat /\ booked[r].charged[c] \in Nat
  <2> TAKE r \in Rids
  <2>1. booked[r] \in Booking
    BY DEF LedgerTypes
  <2> QED
    BY <2>1 DEF Booking, Amounts
<1>2. \A x \in Scopes : Contract!Below(booked, x) \subseteq {r \in Rids : booked[r].status # "absent"}
  BY DEF Contract!Below
<1> QED
  BY <1>1, <1>2, SubsetFinite DEF Bookings, HeldOf, ChargedOf, Contract!Held, Contract!Charged

(* A reservation that is granted adds what it holds to the sums of its     *)
(* chain.                                                                  *)
LEMMA ReserveSums ==
  ASSUME LedgerTypes, Bookings, NEW r \in Rids, NEW s \in Scopes, NEW amounts \in Amounts,
         booked[r].status = "absent",
         booked' = [booked EXCEPT ![r] = Contract!Reservation(s, "active", amounts, Zero)],
         NEW x \in Scopes, NEW c \in Counters
  PROVE  /\ Contract!TotalHeld(booked', x, c)
              = Contract!TotalHeld(booked, x, c) + (IF x \in Chain[s] THEN amounts[c] ELSE 0)
         /\ Contract!TotalCharged(booked', x, c) = Contract!TotalCharged(booked, x, c)
<1> DEFINE below  == Contract!Below(booked, x)
           hold   == HeldOf(booked, c)
           charge == ChargedOf(booked, c)
           hold2   == HeldOf(booked', c)
           charge2 == ChargedOf(booked', c)
<1>1. /\ IsFiniteSet(below)
      /\ \A q \in Rids : hold[q] \in Nat /\ charge[q] \in Nat
  BY SummedType
<1>2. /\ below \subseteq Rids
      /\ r \notin below
      /\ Contract!Below(booked', x) = IF x \in Chain[s] THEN below \cup {r} ELSE below
  BY SameForest DEF Contract!Below, LedgerTypes, Contract!Reservation
<1>3. /\ hold2[r] = amounts[c]
      /\ charge2[r] = 0
      /\ \A q \in Rids \ {r} : hold2[q] = hold[q] /\ charge2[q] = charge[q]
  BY DEF HeldOf, ChargedOf, Contract!Held, Contract!Charged, LedgerTypes, Contract!Reservation
<1>4. amounts[c] \in Nat
  BY DEF Amounts
<1>5. /\ Contract!TotalHeld(booked, x, c) = SumFunctionOnSet(hold, below)
      /\ Contract!TotalCharged(booked, x, c) = SumFunctionOnSet(charge, below)
      /\ Contract!TotalHeld(booked', x, c) = SumFunctionOnSet(hold2, Contract!Below(booked', x))
      /\ Contract!TotalCharged(booked', x, c) = SumFunctionOnSet(charge2, Contract!Below(booked', x))
  BY SameSum, Zenon DEF HeldOf, ChargedOf, Contract!TotalHeld, Contract!TotalCharged
<1> HIDE DEF below, hold, charge, hold2, charge2
<1> DEFINE after == Contract!Below(booked', x)
<1>6. /\ \A q \in below : /\ hold[q] \in Nat /\ hold2[q] = hold[q]
                          /\ charge[q] \in Nat /\ charge2[q] = charge[q]
      /\ after \in {below, below \cup {r}}
      /\ r \in after <=> x \in Chain[s]
  BY <1>1, <1>2, <1>3
<1>7. SumFunctionOnSet(hold2, after)
        = SumFunctionOnSet(hold, below) + (IF r \in after THEN hold2[r] ELSE 0)
  BY <1>1, <1>2, <1>3, <1>4, <1>6, SumJoined
<1>8. /\ SumFunctionOnSet(charge, below) \in Nat
      /\ SumFunctionOnSet(charge2, after)
           = SumFunctionOnSet(charge, below) + (IF r \in after THEN charge2[r] ELSE 0)
  BY <1>1, <1>2, <1>3, <1>4, <1>6, SumJoined
<1> QED
  BY <1>3, <1>5, <1>6, <1>7, <1>8

(* A reservation that ends: what it is charged, and what it becomes.       *)
Settled(r, final, done) ==
  /\ booked[r].status = "active"
  /\ done.status \in {"reconciled", "cancelled"}
  /\ done.scope = booked[r].scope
  /\ \A c \in Counters : final[c] = IF done.status = "reconciled" THEN done.charged[c] ELSE 0
  /\ booked' = [booked EXCEPT ![r] = done]

LEMMA FinishSums ==
  ASSUME LedgerTypes, Bookings, NEW r \in Rids, NEW final \in Amounts, NEW done,
         Settled(r, final, done), NEW x \in Scopes, NEW c \in Counters
  PROVE  /\ Contract!TotalHeld(booked', x, c)
              = Contract!TotalHeld(booked, x, c)
                  - (IF x \in Chain[booked[r].scope] THEN booked[r].held[c] ELSE 0)
         /\ Contract!TotalCharged(booked', x, c)
              = Contract!TotalCharged(booked, x, c)
                  + (IF x \in Chain[booked[r].scope] THEN final[c] ELSE 0)
         /\ Contract!TotalHeld(booked', x, c) \in Nat
<1> DEFINE below  == Contract!Below(booked, x)
           hold   == HeldOf(booked, c)
           charge == ChargedOf(booked, c)
           hold2   == HeldOf(booked', c)
           charge2 == ChargedOf(booked', c)
<1>1. /\ IsFiniteSet(below)
      /\ \A q \in Rids : hold[q] \in Nat /\ charge[q] \in Nat
  BY SummedType
<1>2. /\ below \subseteq Rids
      /\ r \in below <=> x \in Chain[booked[r].scope]
      /\ Contract!Below(booked', x) = below
  BY SameForest DEF Contract!Below, LedgerTypes, Settled
<1>3. /\ hold[r] = booked[r].held[c] /\ hold2[r] = 0
      /\ charge[r] = 0 /\ charge2[r] = final[c]
      /\ \A q \in Rids \ {r} : hold2[q] = hold[q] /\ charge2[q] = charge[q]
  BY DEF HeldOf, ChargedOf, Contract!Held, Contract!Charged, LedgerTypes, Settled
<1>4. final[c] \in Nat
  BY DEF Amounts
<1>5. /\ Contract!TotalHeld(booked, x, c) = SumFunctionOnSet(hold, below)
      /\ Contract!TotalCharged(booked, x, c) = SumFunctionOnSet(charge, below)
      /\ Contract!TotalHeld(booked', x, c) = SumFunctionOnSet(hold2, Contract!Below(booked', x))
      /\ Contract!TotalCharged(booked', x, c) = SumFunctionOnSet(charge2, Contract!Below(booked', x))
  BY SameSum, Zenon DEF HeldOf, ChargedOf, Contract!TotalHeld, Contract!TotalCharged
<1> HIDE DEF below, hold, charge, hold2, charge2
<1>6. /\ \A q \in below : /\ hold[q] \in Nat /\ hold2[q] \in Nat
                          /\ charge[q] \in Nat /\ charge2[q] \in Nat
      /\ \A q \in below \ {r} : hold2[q] = hold[q] /\ charge2[q] = charge[q]
  BY <1>1, <1>2, <1>3, <1>4
<1>7. /\ SumFunctionOnSet(hold, below) \in Nat
      /\ SumFunctionOnSet(hold2, below)
           = SumFunctionOnSet(hold, below) + (IF r \in below THEN hold2[r] - hold[r] ELSE 0)
  <2>1. \A y \in below : hold[y] \in Nat /\ hold2[y] \in Nat
    BY <1>6
  <2>2. \A y \in below \ {r} : hold[y] = hold2[y]
    BY <1>6
  <2>3. IsFiniteSet(below)
    BY <1>1
  <2>4. SumFunctionOnSet(hold, below) \in Nat
    BY <2>1, <2>3, SumNat
  <2>5. ASSUME r \in below
        PROVE  SumFunctionOnSet(hold2, below) = SumFunctionOnSet(hold, below) - hold[r] + hold2[r]
    <3>1. \A y \in below : hold[y] \in Int /\ hold2[y] \in Int
      BY <2>1
    <3>2. \A f, g : /\ \A y \in below : f[y] \in Int /\ g[y] \in Int
                    /\ \A y \in below \ {r} : f[y] = g[y]
                    => SumFunctionOnSet(g, below) = SumFunctionOnSet(f, below) - f[r] + g[r]
      BY <2>3, <2>5, SumChange
    <3> QED
      BY <2>2, <3>1, <3>2, Zenon
  <2>6. ASSUME r \notin below
        PROVE  SumFunctionOnSet(hold2, below) = SumFunctionOnSet(hold, below)
    <3>1. \A y \in below : hold2[y] = hold[y]
      BY <2>2, <2>6
    <3> QED
      BY <2>3, <3>1, SumSame
  <2> QED
    BY <2>1, <2>4, <2>5, <2>6
<1>8. /\ SumFunctionOnSet(charge, below) \in Nat
      /\ SumFunctionOnSet(charge2, below)
           = SumFunctionOnSet(charge, below) + (IF r \in below THEN charge2[r] - charge[r] ELSE 0)
  <2>1. \A y \in below : charge[y] \in Nat /\ charge2[y] \in Nat
    BY <1>6
  <2>2. \A y \in below \ {r} : charge[y] = charge2[y]
    BY <1>6
  <2>3. IsFiniteSet(below)
    BY <1>1
  <2>4. SumFunctionOnSet(charge, below) \in Nat
    BY <2>1, <2>3, SumNat
  <2>5. ASSUME r \in below
        PROVE  SumFunctionOnSet(charge2, below) = SumFunctionOnSet(charge, below) - charge[r] + charge2[r]
    <3>1. \A y \in below : charge[y] \in Int /\ charge2[y] \in Int
      BY <2>1
    <3>2. \A f, g : /\ \A y \in below : f[y] \in Int /\ g[y] \in Int
                    /\ \A y \in below \ {r} : f[y] = g[y]
                    => SumFunctionOnSet(g, below) = SumFunctionOnSet(f, below) - f[r] + g[r]
      BY <2>3, <2>5, SumChange
    <3> QED
      BY <2>2, <3>1, <3>2, Zenon
  <2>6. ASSUME r \notin below
        PROVE  SumFunctionOnSet(charge2, below) = SumFunctionOnSet(charge, below)
    <3>1. \A y \in below : charge2[y] = charge[y]
      BY <2>2, <2>6
    <3> QED
      BY <2>3, <3>1, SumSame
  <2> QED
    BY <2>1, <2>4, <2>5, <2>6
<1>9. SumFunctionOnSet(hold2, below) \in Nat
  BY <1>1, <1>6, SumNat
<1>10. hold[r] \in Nat
  BY <1>1
<1> QED
  BY <1>2, <1>3, <1>4, <1>5, <1>7, <1>8, <1>9, <1>10

-----------------------------------------------------------------------------
(* What the calls do under their locks.                                    *)
LEMMA CallFacts ==
  ASSUME LedgerInv, NEW t \in LedgerThreads, NEW call \in LedgerCalls, Locked(t, call)
  PROVE  /\ thread[t] # Free /\ thread[t].call = call
         /\ thread[t].scope \in Scopes /\ thread[t].amounts \in Limits
         /\ call # "configure" => thread[t].amounts \in Amounts
         /\ CallIsSound(t)
<1>1. thread[t] # Free
  BY DEF Locked, Free
<1>2. thread[t] \in LedgerCall
  BY <1>1 DEF LedgerInv, LedgerTypes
<1> QED
  BY <1>1, <1>2 DEF LedgerCall, LedgerInv, Locked, CallIsSound

(* What a call that ends leaves of the others, if it is about the          *)
(* reservation r at most.                                                  *)
LEMMA OthersStaySound ==
  ASSUME LedgerInv, NEW t \in LedgerThreads, Unlock(t), booked' \in [Rids -> Booking],
         \A r \in Rids : booked'[r] # booked[r] =>
           /\ booked'[r].scope = booked[r].scope \/ booked[r].status = "absent"
           /\ booked'[r].status # "absent"
           /\ \A u \in LedgerThreads \ {t} :
                thread[u] # Free /\ thread[u].call = "reserve" => thread[u].rid # r
  PROVE  \A u \in LedgerThreads : CallIsSound(u)'
<1> SUFFICES ASSUME NEW u \in LedgerThreads, thread'[u] # Free PROVE CallIsSound(u)'
  BY DEF CallIsSound
<1>1. /\ thread' = [thread EXCEPT ![t] = Free] /\ thread \in [LedgerThreads -> {Free} \union LedgerCall]
      /\ CallIsSound(u)
  BY DEF Unlock, LedgerInv, LedgerTypes
<1>2. u # t /\ thread'[u] = thread[u] /\ thread[u] \in LedgerCall
  BY <1>1
<1>3. \A w \in LedgerThreads : thread'[w] # Free => thread'[w] = thread[w]
  BY <1>1
<1>4. thread[u].call \in LedgerCalls
  BY <1>2 DEF LedgerCall
<1>5. CASE thread[u].call = "reserve"
  BY <1>1, <1>2, <1>3, <1>5 DEF CallIsSound
<1>6. CASE thread[u].call \in {"reconcile", "cancel"}
  BY <1>1, <1>2, <1>6 DEF CallIsSound
<1>7. CASE thread[u].call = "configure"
  BY <1>2, <1>7 DEF CallIsSound
<1> QED
  BY <1>4, <1>5, <1>6, <1>7 DEF LedgerCalls

LEMMA BookingType ==
  ASSUME LedgerTypes, NEW r \in Rids
  PROVE  /\ booked[r] \in Booking /\ booked[r].scope \in Scopes \union {NoScope}
         /\ booked[r].status \in Contract!Status
         /\ booked[r].held \in Amounts /\ booked[r].charged \in Amounts
<1>1. booked[r] \in Booking
  BY DEF LedgerTypes
<1> QED
  BY <1>1 DEF Booking

LEMMA LedgerStarts == LedgerInit => LedgerInv
<1> SUFFICES ASSUME LedgerInit PROVE LedgerInv
  OBVIOUS
<1>1. Zero \in Amounts
  BY DEF Zero, Amounts
<1>2. Contract!NoReservation \in Booking /\ Contract!NoReservation.status = "absent"
  BY <1>1, SameForest DEF Contract!NoReservation, Contract!Reservation, Contract!Status, Booking
<1>3. caps \in [Scopes -> Limits]
  BY LedgerAssumption DEF LedgerInit
<1>4. LedgerTypes
  BY <1>1, <1>2, <1>3 DEF LedgerInit, LedgerTypes
<1>5. \A r \in Rids : booked[r].status = "absent"
  BY <1>2 DEF LedgerInit
<1>6. {r \in Rids : booked[r].status # "absent"} = {}
  BY <1>5
<1>7. Bookings
  BY <1>5, <1>6, FS_EmptySet DEF Bookings
<1>8. (\A t \in LedgerThreads : CallIsSound(t)) /\ LocksHeld
  BY DEF LedgerInit, CallIsSound, LocksHeld
<1>9. WithinCaps
  BY <1>3 DEF LedgerInit, WithinCaps, Zero, Limits, Unlimited
<1>10. LedgerIsExact
  <2> SUFFICES ASSUME NEW s \in Scopes, NEW c \in Counters
               PROVE  /\ used[s][c] = Contract!TotalCharged(booked, s, c)
                      /\ reserved[s][c] = Contract!TotalHeld(booked, s, c)
    BY DEF LedgerIsExact
  <2>1. Contract!Below(booked, s) = {}
    BY <1>5 DEF Contract!Below
  <2>2. Contract!TotalHeld(booked, s, c) = 0 /\ Contract!TotalCharged(booked, s, c) = 0
    BY <2>1, SameSum, SumEmpty DEF Contract!TotalHeld, Contract!TotalCharged
  <2> QED
    BY <2>2 DEF LedgerInit, Zero
<1> QED
  BY <1>4, <1>7, <1>8, <1>9, <1>10 DEF LedgerInv

(* A call that starts.                                                     *)
LEMMA CallStarts ==
  ASSUME LedgerInv, NEW t \in LedgerThreads, NEW call \in LedgerCalls, NEW r, NEW s \in Scopes,
         NEW amounts \in Limits, StartCall(t, call, r, s, amounts),
         call = "configure" => r = Database, call # "configure" => r \in Rids /\ amounts \in Amounts,
         call = "reserve" =>
           /\ booked[r].status = "absent"
           /\ \A u \in LedgerThreads : thread[u] # Free => thread[u].rid # r,
         call \in {"reconcile", "cancel"} => booked[r].status # "absent" /\ s = booked[r].scope
  PROVE  LedgerInv'
<1> DEFINE q == [pc |-> "locking", call |-> call, rid |-> r, scope |-> s, amounts |-> amounts]
<1>1. /\ thread[t] = Free /\ thread' = [thread EXCEPT ![t] = q]
      /\ UNCHANGED <<caps, used, reserved, booked, holder>>
  BY DEF StartCall
<1>2. q \in LedgerCall /\ q.call = call /\ q.rid = r /\ q.scope = s /\ q.amounts = amounts
  BY DEF LedgerCall
<1> HIDE DEF q
<1>3. LedgerTypes /\ Bookings /\ (\A u \in LedgerThreads : CallIsSound(u)) /\ LocksHeld
      /\ WithinCaps /\ LedgerIsExact
  BY DEF LedgerInv
<1>4. LedgerTypes'
  BY <1>1, <1>2, <1>3 DEF LedgerTypes
<1>5. Bookings' /\ WithinCaps' /\ LedgerIsExact'
  BY <1>1, <1>3 DEF Bookings, WithinCaps, LedgerIsExact
<1>6. LocksHeld'
  BY <1>1, <1>3, StartKeepsLocks
<1>7. thread'[t] = q /\ \A u \in LedgerThreads \ {t} : thread'[u] = thread[u]
  BY <1>1, <1>3 DEF LedgerTypes
<1>8. CallIsSound(t)'
  BY <1>1, <1>2, <1>7 DEF CallIsSound
<1>9. ASSUME NEW u \in LedgerThreads \ {t} PROVE CallIsSound(u)'
  <2> SUFFICES ASSUME thread[u] # Free PROVE CallIsSound(u)'
    BY <1>7 DEF CallIsSound
  <2>1. CallIsSound(u)
    BY <1>3
  <2>2. ASSUME thread[u].call = "reserve", call # "configure" PROVE r # thread[u].rid
    <3>1. CASE call = "reserve"
      BY <3>1
    <3>2. CASE call \in {"reconcile", "cancel"}
      BY <2>1, <2>2, <3>2 DEF CallIsSound
    <3> QED
      BY <2>2, <3>1, <3>2 DEF LedgerCalls
  <2>3. thread[u].call = "reserve" =>
          \A w \in LedgerThreads \ {u} :
            thread'[w] # Free /\ thread'[w].call # "configure" => thread'[w].rid # thread[u].rid
    BY <1>2, <1>7, <2>1, <2>2 DEF CallIsSound
  <2> QED
    BY <1>1, <1>7, <2>1, <2>3 DEF CallIsSound
<1> QED
  BY <1>4, <1>5, <1>6, <1>8, <1>9 DEF LedgerInv

LEMMA VectorType == Vectors \subseteq Amounts /\ Amounts \subseteq Limits /\ Ceilings \subseteq Limits
  BY DEF Vectors, Ceilings, Amounts, Limits

LEMMA StartReserveStep ==
  ASSUME LedgerInv, NEW t \in LedgerThreads, NEW r \in Rids, NEW s \in Scopes,
         NEW amounts \in Vectors, StartReserve(t, r, s, amounts)
  PROVE  LedgerInv'
<1>1. "reserve" \in LedgerCalls /\ amounts \in Amounts /\ amounts \in Limits
  BY VectorType DEF LedgerCalls
<1> QED
  BY <1>1, CallStarts DEF StartReserve

LEMMA StartFinishStep ==
  ASSUME LedgerInv, NEW t \in LedgerThreads, NEW call \in {"reconcile", "cancel"},
         NEW r \in Rids, NEW amounts \in Vectors, StartFinish(t, call, r, amounts)
  PROVE  LedgerInv'
<1>1. /\ call \in LedgerCalls /\ amounts \in Amounts /\ amounts \in Limits
      /\ call # "reserve" /\ call # "configure"
  BY VectorType DEF LedgerCalls
<1>2. booked[r].status # "absent" /\ booked[r].scope \in Scopes
  BY DEF StartFinish, LedgerInv, Bookings
<1>3. StartCall(t, call, r, booked[r].scope, amounts)
  BY DEF StartFinish
<1> QED
  BY <1>1, <1>2, <1>3, CallStarts

LEMMA StartConfigureStep ==
  ASSUME LedgerInv, NEW t \in LedgerThreads, NEW s \in Scopes, NEW ceilings \in Ceilings,
         StartConfigure(t, s, ceilings)
  PROVE  LedgerInv'
<1>1. "configure" \in LedgerCalls /\ ceilings \in Limits
  BY VectorType DEF LedgerCalls
<1> QED
  BY <1>1, CallStarts DEF StartConfigure

LEMMA TakeLockStep ==
  ASSUME LedgerInv, NEW t \in LedgerThreads, TakeLock(t)
  PROVE  LedgerInv'
<1>1. UNCHANGED <<caps, used, reserved, booked, thread>>
  BY DEF TakeLock
<1>2. LocksHeld' /\ holder' \in [Lockable -> LedgerThreads \union {NoThread}]
  BY TakeKeepsLocks DEF LedgerInv
<1>3. LedgerTypes' /\ Bookings' /\ WithinCaps' /\ LedgerIsExact'
  BY <1>1, <1>2 DEF LedgerInv, LedgerTypes, Bookings, WithinCaps, LedgerIsExact
<1>4. \A u \in LedgerThreads : CallIsSound(u)'
  BY <1>1 DEF LedgerInv, CallIsSound
<1> QED
  BY <1>2, <1>3, <1>4 DEF LedgerInv

(* What the end of a call leaves, for the parts it does not change.        *)
LEMMA LedgerCallEnds ==
  ASSUME LedgerInv, NEW t \in LedgerThreads, Unlock(t)
  PROVE  /\ LocksHeld'
         /\ holder' \in [Lockable -> LedgerThreads \union {NoThread}]
         /\ thread' \in [LedgerThreads -> {Free} \union LedgerCall]
         /\ UNCHANGED booked => \A u \in LedgerThreads : CallIsSound(u)'
<1>1. LocksHeld' /\ holder' \in [Lockable -> LedgerThreads \union {NoThread}]
  BY UnlockKeepsLocks DEF LedgerInv
<1>2. thread' \in [LedgerThreads -> {Free} \union LedgerCall]
  BY DEF Unlock, LedgerInv, LedgerTypes
<1>3. UNCHANGED booked => \A u \in LedgerThreads : CallIsSound(u)'
  <2> SUFFICES ASSUME UNCHANGED booked PROVE \A u \in LedgerThreads : CallIsSound(u)'
    OBVIOUS
  <2>1. booked' \in [Rids -> Booking]
    BY DEF LedgerInv, LedgerTypes
  <2> QED
    BY <2>1, OthersStaySound
<1> QED
  BY <1>1, <1>2, <1>3

(* A call that changes nothing.                                            *)
LEMMA CallRefused ==
  ASSUME LedgerInv, NEW t \in LedgerThreads, Unlock(t), UNCHANGED <<caps, used, reserved, booked>>
  PROVE  LedgerInv'
<1>1. LedgerTypes' /\ Bookings' /\ WithinCaps' /\ LedgerIsExact'
  BY LedgerCallEnds DEF LedgerInv, LedgerTypes, Bookings, WithinCaps, LedgerIsExact
<1> QED
  BY <1>1, LedgerCallEnds DEF LedgerInv

(* A reservation that fits keeps every limit of its chain, and leaves the  *)
(* scopes off its chain alone.                                             *)
LEMMA LedgerReserves ==
  ASSUME LedgerInv, NEW t \in LedgerThreads, Reserve(t)
  PROVE  LedgerInv'
<1> DEFINE q == thread[t]
<1>1. Locked(t, "reserve") /\ Unlock(t) /\ UNCHANGED <<caps, used>> /\ "reserve" \in LedgerCalls
  BY DEF Reserve, LedgerCalls
<1>2. /\ q # Free /\ q.scope \in Scopes /\ q.amounts \in Amounts /\ q.call = "reserve"
      /\ q.rid \in Rids /\ booked[q.rid].status = "absent"
      /\ \A u \in LedgerThreads \ {t} :
           thread[u] # Free /\ thread[u].call # "configure" => thread[u].rid # q.rid
  <2>1. CallIsSound(t)
    BY <1>1, CallFacts
  <2> QED
    BY <1>1, <2>1, CallFacts DEF CallIsSound
<1>3. CASE ~Fits(q.scope, q.amounts, Zero)
  <2>1. UNCHANGED <<reserved, booked>>
    BY <1>3 DEF Reserve
  <2> QED
    BY <1>1, <2>1, CallRefused
<1>4. CASE Fits(q.scope, q.amounts, Zero)
  <2> DEFINE s == q.scope
             r == q.rid
             amounts == q.amounts
             new == Contract!Reservation(s, "active", amounts, Zero)
  <2>1. reserved' = Raised(reserved, s, amounts) /\ booked' = [booked EXCEPT ![r] = new]
    BY <1>4 DEF Reserve
  <2>2. /\ s \in Scopes /\ amounts \in Amounts /\ r \in Rids /\ booked[r].status = "absent"
        /\ Fits(s, amounts, Zero)
        /\ \A u \in LedgerThreads \ {t} :
             thread[u] # Free /\ thread[u].call = "reserve" => thread[u].rid # r
    BY <1>2, <1>4
  <2>3. new \in Booking /\ new.status = "active" /\ new.scope = s
    <3>1. Zero \in Amounts
      BY DEF Zero, Amounts
    <3> QED
      BY <2>2, <3>1 DEF Contract!Reservation, Contract!Status, Booking
  <2> HIDE DEF q, s, r, amounts
  <2>4. LedgerTypes /\ Bookings /\ WithinCaps /\ LedgerIsExact
    BY DEF LedgerInv
  <2>5. booked' \in [Rids -> Booking] /\ booked'[r] = new /\ \A p \in Rids \ {r} : booked'[p] = booked[p]
    BY <2>1, <2>2, <2>3, <2>4 DEF LedgerTypes
  <2>6. \A x \in Scopes : reserved'[x] \in Amounts /\ \A c \in Counters :
          reserved'[x][c] = reserved[x][c] + (IF x \in Chain[s] THEN amounts[c] ELSE 0)
    BY <2>1, <2>2, <2>4 DEF Raised, Plus, LedgerTypes, Amounts
  <2>7. LedgerTypes'
    <3>1. reserved' \in [Scopes -> Amounts]
      BY <2>1, <2>6 DEF Raised
    <3> QED
      BY <1>1, <2>4, <2>5, <3>1, LedgerCallEnds DEF LedgerTypes
  <2>8. Bookings'
    <3>1. {p \in Rids : booked'[p].status # "absent"}
            = {p \in Rids : booked[p].status # "absent"} \cup {r}
      BY <2>2, <2>3, <2>5
    <3>2. \A p \in Rids : booked'[p].status # "absent" => booked'[p].scope \in Scopes
      BY <2>2, <2>3, <2>4, <2>5 DEF Bookings
    <3> QED
      BY <2>4, <3>1, <3>2, FS_AddElement DEF Bookings
  <2>9. \A u \in LedgerThreads : CallIsSound(u)'
    <3>1. \A p \in Rids : booked'[p] # booked[p] => p = r
      BY <2>5
    <3> QED
      BY <1>1, <2>2, <2>3, <2>5, <3>1, OthersStaySound
  <2>10. LedgerIsExact'
    <3> SUFFICES ASSUME NEW x \in Scopes, NEW c \in Counters
                 PROVE  /\ used'[x][c] = Contract!TotalCharged(booked', x, c)
                        /\ reserved'[x][c] = Contract!TotalHeld(booked', x, c)
      BY DEF LedgerIsExact
    <3>1. /\ used[x][c] = Contract!TotalCharged(booked, x, c)
          /\ reserved[x][c] = Contract!TotalHeld(booked, x, c)
      BY <2>4 DEF LedgerIsExact
    <3>2. /\ Contract!TotalHeld(booked', x, c)
              = Contract!TotalHeld(booked, x, c) + (IF x \in Chain[s] THEN amounts[c] ELSE 0)
          /\ Contract!TotalCharged(booked', x, c) = Contract!TotalCharged(booked, x, c)
      BY <2>1, <2>2, <2>4, ReserveSums
    <3> QED
      BY <1>1, <2>6, <3>1, <3>2
  <2>11. WithinCaps'
    <3> SUFFICES ASSUME NEW x \in Scopes, NEW c \in Counters, caps[x][c] # Unlimited
                 PROVE  used[x][c] + reserved'[x][c] <= caps[x][c]
      BY <1>1 DEF WithinCaps
    <3>1. /\ used[x][c] + reserved[x][c] <= caps[x][c]
          /\ used[x][c] \in Nat /\ reserved[x][c] \in Nat /\ amounts[c] \in Nat /\ caps[x][c] \in Int
      BY <2>2, <2>4 DEF LedgerTypes, WithinCaps, Amounts, Limits, Unlimited
    <3>2. ASSUME x \in Chain[s], amounts[c] # 0
          PROVE  used[x][c] + reserved[x][c] - Zero[c] + amounts[c] <= caps[x][c]
      BY <2>2, <3>2 DEF Fits, Named
    <3>3. Zero[c] = 0
      BY DEF Zero
    <3> QED
      BY <2>6, <3>1, <3>2, <3>3
  <2> QED
    BY <1>1, <2>7, <2>8, <2>9, <2>10, <2>11, LedgerCallEnds DEF LedgerInv
<1> QED
  BY <1>3, <1>4

(* A settlement takes what was held off the chain and puts the charge on   *)
(* it: where it is charged it fits, and elsewhere the sum only goes down.  *)
LEMMA LedgerSettles ==
  ASSUME LedgerInv, NEW t \in LedgerThreads, Unlock(t), NEW r \in Rids, NEW final \in Amounts,
         NEW done \in Booking, Settled(r, final, done), Fits(booked[r].scope, final, booked[r].held),
         reserved' = Lowered(reserved, booked[r].scope, booked[r].held),
         used' = Raised(used, booked[r].scope, final), UNCHANGED caps
  PROVE  LedgerInv'
<1> DEFINE s == booked[r].scope
           held == booked[r].held
<1>1. LedgerTypes /\ Bookings /\ WithinCaps /\ LedgerIsExact
  BY DEF LedgerInv
<1>2. /\ booked[r].status = "active" /\ done.status \in {"reconciled", "cancelled"}
      /\ done.scope = s /\ booked' = [booked EXCEPT ![r] = done]
  BY DEF Settled
<1>3. s \in Scopes /\ held \in Amounts
  BY <1>1, <1>2, BookingType DEF Bookings
<1>4. /\ Fits(s, final, held) /\ reserved' = Lowered(reserved, s, held)
      /\ used' = Raised(used, s, final)
  OBVIOUS
<1>5. booked' \in [Rids -> Booking] /\ booked'[r] = done /\ \A p \in Rids \ {r} : booked'[p] = booked[p]
  BY <1>1, <1>2 DEF LedgerTypes
<1>6. ASSUME NEW x \in Scopes, NEW c \in Counters
      PROVE  /\ Contract!TotalHeld(booked', x, c)
                  = Contract!TotalHeld(booked, x, c) - (IF x \in Chain[s] THEN held[c] ELSE 0)
             /\ Contract!TotalCharged(booked', x, c)
                  = Contract!TotalCharged(booked, x, c) + (IF x \in Chain[s] THEN final[c] ELSE 0)
             /\ Contract!TotalHeld(booked', x, c) \in Nat
  BY <1>1, FinishSums
<1> HIDE DEF s, held
<1>7. ASSUME NEW x \in Scopes, NEW c \in Counters
      PROVE  /\ used[x][c] \in Nat /\ reserved[x][c] \in Nat /\ held[c] \in Nat /\ final[c] \in Nat
             /\ used'[x][c] = used[x][c] + (IF x \in Chain[s] THEN final[c] ELSE 0)
             /\ reserved'[x][c] = reserved[x][c] - (IF x \in Chain[s] THEN held[c] ELSE 0)
  <2>1. used[x][c] \in Nat /\ reserved[x][c] \in Nat /\ held[c] \in Nat /\ final[c] \in Nat
    BY <1>1, <1>3 DEF LedgerTypes, Amounts
  <2> QED
    BY <1>4, <2>1 DEF Raised, Lowered, Plus, Less
<1>8. LedgerIsExact'
  BY <1>1, <1>6, <1>7 DEF LedgerIsExact
<1>9. ASSUME NEW x \in Scopes, NEW c \in Counters
      PROVE  reserved'[x][c] \in Nat /\ used'[x][c] \in Nat
  BY <1>6, <1>7, <1>8 DEF LedgerIsExact
<1>10. LedgerTypes'
  <2>1. \A x \in Scopes : used'[x] \in Amounts /\ reserved'[x] \in Amounts
    <3> TAKE x \in Scopes
    <3>1. /\ used'[x] = [c \in Counters |-> used'[x][c]]
          /\ reserved'[x] = [c \in Counters |-> reserved'[x][c]]
      BY <1>1, <1>4 DEF Raised, Lowered, Plus, Less, LedgerTypes, Amounts
    <3> QED
      BY <1>9, <3>1 DEF Amounts
  <2>2. used' \in [Scopes -> Amounts] /\ reserved' \in [Scopes -> Amounts]
    BY <1>4, <2>1 DEF Raised, Lowered
  <2> QED
    BY <1>1, <1>5, <2>2, LedgerCallEnds DEF LedgerTypes
<1>11. Bookings'
  <2>1. {p \in Rids : booked'[p].status # "absent"} = {p \in Rids : booked[p].status # "absent"}
    BY <1>2, <1>5
  <2>2. \A p \in Rids : booked'[p].status # "absent" => booked'[p].scope \in Scopes
    BY <1>1, <1>2, <1>3, <1>5 DEF Bookings
  <2> QED
    BY <1>1, <2>1, <2>2 DEF Bookings
<1>12. \A u \in LedgerThreads : CallIsSound(u)'
  <2>1. \A p \in Rids : booked'[p] # booked[p] => p = r
    BY <1>5
  <2>2. \A u \in LedgerThreads : thread[u] # Free /\ thread[u].call = "reserve" => thread[u].rid # r
    BY <1>2 DEF LedgerInv, CallIsSound
  <2>3. done.scope = booked[r].scope /\ done.status # "absent"
    BY <1>2 DEF s
  <2> QED
    BY <1>5, <2>1, <2>2, <2>3, OthersStaySound
<1>13. WithinCaps'
  <2> SUFFICES ASSUME NEW x \in Scopes, NEW c \in Counters, caps[x][c] # Unlimited
               PROVE  used'[x][c] + reserved'[x][c] <= caps[x][c]
    BY DEF WithinCaps
  <2>1. used[x][c] + reserved[x][c] <= caps[x][c] /\ caps[x][c] \in Int
    BY <1>1 DEF LedgerTypes, WithinCaps, Limits, Unlimited
  <2>2. ASSUME x \in Chain[s], final[c] # 0
        PROVE  used[x][c] + reserved[x][c] - held[c] + final[c] <= caps[x][c]
    BY <1>4, <2>2 DEF Fits, Named
  <2> QED
    BY <1>7, <2>1, <2>2
<1> QED
  BY <1>8, <1>10, <1>11, <1>12, <1>13, LedgerCallEnds DEF LedgerInv

LEMMA FinishFacts ==
  ASSUME LedgerInv, NEW t \in LedgerThreads, NEW call \in {"reconcile", "cancel"}, Locked(t, call)
  PROVE  /\ thread[t].rid \in Rids /\ thread[t].amounts \in Amounts
         /\ thread[t].scope = booked[thread[t].rid].scope
<1>1. call \in LedgerCalls
  BY DEF LedgerCalls
<1> QED
  BY <1>1, CallFacts DEF CallIsSound

LEMMA LedgerReconciles ==
  ASSUME LedgerInv, NEW t \in LedgerThreads, Reconcile(t)
  PROVE  /\ LedgerInv'
         /\ Contract!WithinLimits(caps', booked') => Contract!Next \/ UNCHANGED <<caps, booked>>
<1> DEFINE r == thread[t].rid
           final == thread[t].amounts
           was == booked[r]
           done == [was EXCEPT !.status = "reconciled", !.charged = final]
<1>1. Locked(t, "reconcile") /\ Unlock(t) /\ UNCHANGED caps
  BY DEF Reconcile
<1>2. r \in Rids /\ final \in Amounts /\ thread[t].scope = was.scope
  BY <1>1, FinishFacts
<1>3. CASE ~(was.status = "active" /\ Fits(was.scope, final, was.held))
  <2>1. UNCHANGED <<used, reserved, booked>>
    BY <1>2, <1>3 DEF Reconcile
  <2> QED
    BY <1>1, <2>1, CallRefused
<1>4. CASE was.status = "active" /\ Fits(was.scope, final, was.held)
  <2>1. /\ reserved' = Lowered(reserved, was.scope, was.held)
        /\ used' = Raised(used, was.scope, final)
        /\ booked' = [booked EXCEPT ![r].status = "reconciled", ![r].charged = final]
    BY <1>2, <1>4 DEF Reconcile
  <2>2. LedgerTypes
    BY DEF LedgerInv
  <2>3. was \in Booking
    BY <1>2, <2>2, BookingType
  <2>4. /\ done \in Booking /\ done.scope = was.scope /\ done.status = "reconciled"
        /\ done.charged = final
    BY <1>2, <2>3 DEF Booking, Contract!Status
  <2>5. booked' = [booked EXCEPT ![r] = done]
    BY <1>2, <2>1, <2>2, <2>3 DEF LedgerTypes
  <2> HIDE DEF done
  <2>6. Settled(r, final, done)
    BY <1>4, <2>4, <2>5 DEF Settled
  <2>7. LedgerInv'
    BY <1>1, <1>2, <1>4, <2>1, <2>4, <2>6, LedgerSettles
  <2>8. ASSUME Contract!WithinLimits(caps', booked') PROVE Contract!Next
    <3>1. booked'[r].charged = final
      BY <1>2, <2>2, <2>4, <2>5 DEF LedgerTypes
    <3>2. Contract!WithinLimits(caps, booked')
      BY <1>1, <2>8
    <3>3. Contract!Reconcile(r, final)
      BY <1>1, <1>4, <2>1, <3>2 DEF Contract!Reconcile
    <3> QED
      BY <1>2, <3>1, <3>3 DEF Contract!Next
  <2> QED
    BY <2>7, <2>8
<1> QED
  BY <1>3, <1>4

LEMMA LedgerCancels ==
  ASSUME LedgerInv, NEW t \in LedgerThreads, CancelHeld(t)
  PROVE  LedgerInv' /\ (Contract!Next \/ UNCHANGED <<caps, booked>>)
<1> DEFINE r == thread[t].rid
           was == booked[r]
           done == [was EXCEPT !.status = "cancelled"]
<1>1. Locked(t, "cancel") /\ Unlock(t) /\ UNCHANGED <<caps, used>>
  BY DEF CancelHeld
<1>2. r \in Rids /\ thread[t].scope = was.scope
  BY <1>1, FinishFacts
<1>3. CASE was.status # "active"
  <2>1. UNCHANGED <<reserved, booked>>
    BY <1>3 DEF CancelHeld
  <2> QED
    BY <1>1, <2>1, CallRefused
<1>4. CASE was.status = "active"
  <2>1. /\ reserved' = Lowered(reserved, was.scope, was.held)
        /\ booked' = [booked EXCEPT ![r].status = "cancelled"]
    BY <1>2, <1>4 DEF CancelHeld
  <2>2. LedgerTypes
    BY DEF LedgerInv
  <2>3. was \in Booking
    BY <1>2, <2>2, BookingType
  <2>4. done \in Booking /\ done.scope = was.scope /\ done.status = "cancelled"
    BY <2>3 DEF Booking, Contract!Status
  <2>5. booked' = [booked EXCEPT ![r] = done]
    BY <1>2, <2>1, <2>2, <2>3 DEF LedgerTypes
  <2> HIDE DEF done
  <2>6. Zero \in Amounts /\ Settled(r, Zero, done)
    BY <1>4, <2>4, <2>5 DEF Settled, Zero, Amounts
  <2>7. Fits(was.scope, Zero, was.held)
    BY DEF Fits, Named, Zero
  <2>8. used' = Raised(used, was.scope, Zero)
    <3>1. \A x \in Scopes : Plus(used[x], Zero) = used[x]
      <4> TAKE x \in Scopes
      <4>1. used[x] \in [Counters -> Nat]
        BY <2>2 DEF LedgerTypes, Amounts
      <4> QED
        BY <4>1 DEF Plus, Zero
    <3>2. Raised(used, was.scope, Zero) = [x \in Scopes |-> used[x]]
      BY <3>1 DEF Raised
    <3> QED
      BY <1>1, <2>2, <3>2 DEF LedgerTypes
  <2>9. LedgerInv'
    BY <1>1, <1>2, <2>1, <2>4, <2>6, <2>7, <2>8, LedgerSettles
  <2>10. Contract!Cancel(r)
    BY <1>1, <1>4, <2>1 DEF Contract!Cancel
  <2> QED
    BY <1>2, <2>9, <2>10 DEF Contract!Next
<1> QED
  BY <1>3, <1>4

(* The limits of a durable scope change to what is held and charged fits.  *)
LEMMA LedgerConfigures ==
  ASSUME LedgerInv, NEW t \in LedgerThreads, Configure(t)
  PROVE  /\ LedgerInv'
         /\ Contract!WithinLimits(caps', booked') => Contract!Next \/ UNCHANGED <<caps, booked>>
<1> DEFINE s == thread[t].scope
           asked == thread[t].amounts
           new == Merge(caps[s], asked)
           fit == \A c \in Limited(asked) : used[s][c] + reserved[s][c] <= asked[c]
<1>1. /\ Locked(t, "configure") /\ Unlock(t) /\ "configure" \in LedgerCalls
      /\ UNCHANGED <<used, reserved, booked>>
  BY DEF Configure, LedgerCalls
<1>2. s \in Scopes /\ asked \in Limits
  BY <1>1, CallFacts
<1>3. CASE ~fit
  <2>1. caps' = caps
    BY <1>3 DEF Configure
  <2> QED
    BY <1>1, <2>1, CallRefused
<1>4. CASE fit
  <2>1. LedgerTypes /\ Bookings /\ WithinCaps /\ LedgerIsExact
    BY DEF LedgerInv
  <2>2. caps' = [caps EXCEPT ![s] = new]
    BY <1>4 DEF Configure
  <2>3. new \in Limits /\ caps[s] \in Limits
    <3>1. caps[s] \in [Counters -> Nat \cup {Unlimited}]
      BY <1>2, <2>1 DEF LedgerTypes, Limits
    <3> QED
      BY <1>2, <3>1 DEF Limits, Merge
  <2>4. \A c \in Counters : new[c] = IF c \in Limited(asked) THEN asked[c] ELSE caps[s][c]
    BY DEF Merge, Limited
  <2>5. \A c \in Limited(asked) : used[s][c] + reserved[s][c] <= asked[c]
    BY <1>4
  <2> HIDE DEF new, fit, s, asked
  <2>6. /\ caps' \in [Scopes -> Limits] /\ caps'[s] = new
        /\ \A x \in Scopes \ {s} : caps'[x] = caps[x]
    BY <1>2, <2>1, <2>2, <2>3 DEF LedgerTypes
  <2>7. LedgerTypes' /\ Bookings' /\ LedgerIsExact'
    BY <1>1, <2>1, <2>6, LedgerCallEnds DEF LedgerTypes, Bookings, LedgerIsExact
  <2>8. WithinCaps'
    <3> SUFFICES ASSUME NEW x \in Scopes, NEW c \in Counters, caps'[x][c] # Unlimited
                 PROVE  used[x][c] + reserved[x][c] <= caps'[x][c]
      BY <1>1 DEF WithinCaps
    <3>1. CASE x = s
      BY <2>1, <2>4, <2>5, <2>6, <3>1 DEF WithinCaps
    <3>2. CASE x # s
      BY <2>1, <2>6, <3>2 DEF WithinCaps
    <3> QED
      BY <3>1, <3>2
  <2>9. LedgerInv'
    BY <1>1, <2>7, <2>8, LedgerCallEnds DEF LedgerInv
  <2>10. ASSUME Contract!WithinLimits(caps', booked'), caps' # caps PROVE Contract!Next
    <3>1. new # caps[s]
      BY <2>1, <2>2, <2>10 DEF LedgerTypes
    <3>2. \E c \in Counters : caps'[s][c] # caps[s][c]
      BY <2>3, <2>6, <3>1 DEF Limits
    <3>3. Contract!SetLimits(s)
      BY <1>1, <2>6, <2>10, <3>2 DEF Contract!SetLimits
    <3> QED
      BY <1>2, <3>3 DEF Contract!Next
  <2> QED
    BY <1>1, <2>9, <2>10
<1> QED
  BY <1>3, <1>4

(* The counters being exact, the caps are those of the contract.           *)
LEMMA CapIsContract == LedgerInv => Contract!WithinLimits(caps, booked)
<1> SUFFICES ASSUME LedgerInv, NEW x \in Scopes, NEW c \in Counters, caps[x][c] # Unlimited
             PROVE  Contract!Usage(booked, x, c) <= caps[x][c]
  BY DEF Contract!WithinLimits, Contract!Unlimited, Unlimited
<1>1. used[x][c] \in Nat /\ reserved[x][c] \in Nat
  BY DEF LedgerInv, LedgerTypes, Amounts
<1> QED
  BY <1>1 DEF LedgerInv, LedgerIsExact, WithinCaps, Contract!Usage

LEMMA LedgerSteps ==
  ASSUME LedgerInv, [LedgerNext]_ledgerVars
  PROVE  /\ LedgerInv'
         /\ Contract!WithinLimits(caps', booked') => Contract!Next \/ UNCHANGED <<caps, booked>>
<1> DEFINE Promise == Contract!WithinLimits(caps', booked')
                        => Contract!Next \/ UNCHANGED <<caps, booked>>
<1>1. CASE UNCHANGED ledgerVars
  <2>1. UNCHANGED <<caps, used, reserved, booked, thread, holder>>
    BY <1>1 DEF ledgerVars
  <2>2. /\ LedgerTypes' /\ Bookings' /\ LocksHeld' /\ WithinCaps' /\ LedgerIsExact'
        /\ \A t \in LedgerThreads : CallIsSound(t)'
    BY <2>1 DEF LedgerInv, LedgerTypes, Bookings, LocksHeld, WithinCaps, LedgerIsExact, CallIsSound
  <2> QED
    BY <2>1, <2>2 DEF LedgerInv
<1>2. ASSUME NEW t \in LedgerThreads, NEW r \in Rids, NEW amounts \in Vectors, NEW s \in Scopes,
             StartReserve(t, r, s, amounts)
      PROVE  LedgerInv' /\ Promise
  BY <1>2, StartReserveStep DEF StartReserve, StartCall
<1>3. ASSUME NEW t \in LedgerThreads, NEW r \in Rids, NEW amounts \in Vectors,
             NEW call \in {"reconcile", "cancel"}, StartFinish(t, call, r, amounts)
      PROVE  LedgerInv' /\ Promise
  BY <1>3, StartFinishStep DEF StartFinish, StartCall
<1>4. ASSUME NEW t \in LedgerThreads, NEW s \in Scopes, NEW ceilings \in Ceilings,
             StartConfigure(t, s, ceilings)
      PROVE  LedgerInv' /\ Promise
  BY <1>4, StartConfigureStep DEF StartConfigure, StartCall
<1>5. ASSUME NEW t \in LedgerThreads, TakeLock(t)
      PROVE  LedgerInv' /\ Promise
  BY <1>5, TakeLockStep DEF TakeLock
<1>6. ASSUME NEW t \in LedgerThreads, Reserve(t)
      PROVE  LedgerInv' /\ Promise
  <2>1. LedgerInv'
    BY <1>6, LedgerReserves
  <2>2. ASSUME Contract!WithinLimits(caps', booked'), booked' # booked PROVE Contract!Next
    <3> DEFINE q == thread[t]
               new == Contract!Reservation(q.scope, "active", q.amounts, Zero)
    <3>1. booked' = [booked EXCEPT ![q.rid] = new] /\ caps' = caps
      BY <1>6, <2>2 DEF Reserve
    <3>2. CallIsSound(t) /\ q # Free /\ q.call = "reserve" /\ "reserve" \in LedgerCalls
      BY <1>6, CallFacts DEF Reserve, LedgerCalls
    <3>3. q.rid \in Rids /\ booked[q.rid].status = "absent"
      BY <3>2 DEF CallIsSound
    <3>4. booked'[q.rid] = new
      BY <3>1, <3>3 DEF LedgerInv, LedgerTypes
    <3>5. booked'[q.rid].scope = q.scope /\ booked'[q.rid].held = q.amounts
      BY <3>4 DEF Contract!Reservation
    <3>6. Contract!WithinLimits(caps, booked')
      BY <2>2, <3>1
    <3>7. Contract!Reserve(q.rid, q.scope, q.amounts)
      BY <3>1, <3>3, <3>6, SameForest DEF Contract!Reserve
    <3> QED
      BY <3>3, <3>5, <3>7 DEF Contract!Next
  <2> QED
    BY <1>6, <2>1, <2>2 DEF Reserve
<1>7. ASSUME NEW t \in LedgerThreads, Reconcile(t)
      PROVE  LedgerInv' /\ Promise
  BY <1>7, LedgerReconciles
<1>8. ASSUME NEW t \in LedgerThreads, CancelHeld(t)
      PROVE  LedgerInv' /\ Promise
  BY <1>8, LedgerCancels
<1>9. ASSUME NEW t \in LedgerThreads, Configure(t)
      PROVE  LedgerInv' /\ Promise
  BY <1>9, LedgerConfigures
<1> HIDE DEF Promise
<1>10. LedgerInv' /\ Promise
  BY <1>1, <1>2, <1>3, <1>4, <1>5, <1>6, <1>7, <1>8, <1>9 DEF LedgerNext, Promise
<1> QED
  BY <1>10 DEF Promise

(* budget.py, for any forest of ledgers, any number of threads and of      *)
(* reservations: the counters of every ledger are what its reservations    *)
(* hold and were charged, its limits are the contract's, and the threads   *)
(* that wait for locks never all wait for each other.                      *)
THEOREM LedgerHoldsAlways == LedgerSpec => LedgerHolds
<1>1. LedgerInv => LedgerIsExact /\ LedgerNeverStuck
  BY SomeoneCanGoOn DEF LedgerInv
<1>2. LedgerInv => Contract!WithinLimits(caps, booked)
  BY CapIsContract
<1>3. LedgerInv /\ [LedgerNext]_ledgerVars => LedgerInv'
  BY LedgerSteps
<1>4. LedgerInv /\ LedgerInv' /\ [LedgerNext]_ledgerVars => [Contract!Next]_(Contract!vars)
  <2> SUFFICES ASSUME LedgerInv, LedgerInv', [LedgerNext]_ledgerVars
               PROVE  Contract!Next \/ UNCHANGED Contract!vars
    OBVIOUS
  <2>1. Contract!WithinLimits(caps', booked')
    <3>1. Contract!WithinLimits(caps, booked)'
      BY <1>2, PTL
    <3> QED
      BY <3>1, Zenon
  <2>2. Contract!Next \/ UNCHANGED <<caps, booked>>
    BY <2>1, LedgerSteps
  <2> QED
    BY <2>2 DEF Contract!vars
<1>5. LedgerInit => Contract!Init
  BY LedgerStarts DEF LedgerInit, LedgerInv, LedgerTypes, Contract!Init, Contract!Limits, Limits,
                      Contract!Unlimited, Unlimited
<1> QED
  BY <1>1, <1>3, <1>4, <1>5, LedgerStarts, PTL
     DEF LedgerSpec, LedgerHolds, LedgerContract, Contract!Spec

-----------------------------------------------------------------------------
(* Registry.  An activation is a coordinate with one of its revisions, and *)
(* a coordinate is activated once.                                         *)
Activations == Coordinates \X Manifests
ActiveSound(act) ==
  /\ act \in Seq(Activations)
  /\ \A i \in DOMAIN act : act[i][1] = CoordinateOf[act[i][2]]
  /\ \A i, j \in DOMAIN act : act[i][1] = act[j][1] => i = j

CoordinatesIn(act) == {act[i][1] : i \in DOMAIN act}
RevisionsIn(act) == {act[i][2] : i \in DOMAIN act}

LockSound(l) ==
  l.taken => l.entries = Export(l.of) /\ l.of \in [DOMAIN l.of -> Manifests]
RegistryInv == ActiveSound(active) /\ ActiveIsClosed /\ LockSound(lock)

LEMMA SelectedFacts ==
  ASSUME NEW act, ActiveSound(act)
  PROVE  /\ DOMAIN Selected(act) = CoordinatesIn(act)
         /\ \A i \in DOMAIN act : Selected(act)[act[i][1]] = act[i][2]
         /\ ManifestsIn(Selected(act)) = RevisionsIn(act)
         /\ Selected(act) \in [DOMAIN Selected(act) -> Manifests]
<1>1. DOMAIN Selected(act) = {act[i][1] : i \in DOMAIN act}
  BY DEF Selected
<1>2. ASSUME NEW i \in DOMAIN act PROVE Selected(act)[act[i][1]] = act[i][2]
  <2> DEFINE chosen == CHOOSE e \in ToSet(act) : e[1] = act[i][1]
  <2>1. act[i] \in ToSet(act) /\ ToSet(act) = {act[j] : j \in DOMAIN act}
    BY DEF ToSet
  <2>2. chosen \in ToSet(act) /\ chosen[1] = act[i][1]
    BY <2>1
  <2>3. PICK j \in DOMAIN act : chosen = act[j]
    BY <2>1, <2>2
  <2>4. j = i
    BY <2>2, <2>3 DEF ActiveSound
  <2>5. Selected(act)[act[i][1]] = chosen[2]
    BY DEF Selected
  <2> QED
    BY <2>3, <2>4, <2>5
<1>3. \A i \in DOMAIN act : act[i][2] \in Manifests
  BY DEF ActiveSound, Activations
<1>4. ManifestsIn(Selected(act)) = {act[i][2] : i \in DOMAIN act}
  BY <1>1, <1>2 DEF ManifestsIn
<1>5. Selected(act) \in [DOMAIN Selected(act) -> Manifests]
  <2>1. \A c \in DOMAIN Selected(act) : Selected(act)[c] \in Manifests
    BY <1>1, <1>2, <1>3
  <2>2. Selected(act) = [c \in DOMAIN Selected(act) |-> Selected(act)[c]]
    BY DEF Selected
  <2> QED
    BY <2>1, <2>2
<1> QED
  BY <1>1, <1>2, <1>4, <1>5 DEF CoordinatesIn, RevisionsIn

LEMMA PutFacts ==
  ASSUME NEW act, ActiveSound(act), NEW m \in Manifests,
         NEW after, after = Put(act, CoordinateOf[m], m)
  PROVE  /\ ActiveSound(after)
         /\ CoordinatesIn(after) = CoordinatesIn(act) \union {CoordinateOf[m]}
         /\ RevisionsIn(after) \subseteq RevisionsIn(act) \union {m}
<1> DEFINE c == CoordinateOf[m]
<1>1. c \in Coordinates
  BY ManifestAssumption
<1>2. <<c, m>> \in Activations /\ <<c, m>>[1] = c /\ <<c, m>>[2] = m
  BY <1>1 DEF Activations
<1>3. act \in Seq(Activations)
  BY DEF ActiveSound
<1>4. CASE \E i \in DOMAIN act : act[i][1] = c
  <2>1. after = [i \in DOMAIN act |-> IF act[i][1] = c THEN <<c, m>> ELSE act[i]]
    BY <1>4 DEF Put
  <2>2. DOMAIN act = 1..Len(act) /\ Len(act) \in Nat /\ \A i \in DOMAIN act : act[i] \in Activations
    BY <1>3
  <2>3. after \in [1..Len(act) -> Activations]
    BY <1>2, <2>1, <2>2
  <2>4. after \in Seq(Activations)
    BY <2>2, <2>3
  <2>5. \A i \in DOMAIN act : after[i][1] = act[i][1] /\ after[i][2] \in {act[i][2], m}
                             /\ after[i][1] = CoordinateOf[after[i][2]]
    BY <1>2, <2>1 DEF ActiveSound
  <2>6. DOMAIN after = DOMAIN act
    BY <2>1
  <2> QED
    BY <1>4, <2>4, <2>5, <2>6 DEF ActiveSound, CoordinatesIn, RevisionsIn
<1>5. CASE ~\E i \in DOMAIN act : act[i][1] = c
  <2>1. after = Append(act, <<c, m>>)
    BY <1>5 DEF Put
  <2>2. /\ after \in Seq(Activations) /\ DOMAIN after = DOMAIN act \union {Len(act) + 1}
        /\ Len(act) + 1 \notin DOMAIN act
        /\ after[Len(act) + 1] = <<c, m>> /\ \A i \in DOMAIN act : after[i] = act[i]
    BY <1>2, <1>3, <2>1
  <2>3. \A i \in DOMAIN after : after[i][1] = CoordinateOf[after[i][2]]
    BY <1>2, <2>2 DEF ActiveSound
  <2>4. \A i, j \in DOMAIN after : after[i][1] = after[j][1] => i = j
    BY <1>2, <1>5, <2>2 DEF ActiveSound
  <2>5. {after[i][1] : i \in DOMAIN after} = {act[i][1] : i \in DOMAIN act} \union {c}
    BY <1>2, <2>2
  <2>6. {after[i][2] : i \in DOMAIN after} \subseteq {act[i][2] : i \in DOMAIN act} \union {m}
    BY <1>2, <2>2
  <2> QED
    BY <2>2, <2>3, <2>4, <2>5, <2>6 DEF ActiveSound, CoordinatesIn, RevisionsIn
<1> QED
  BY <1>4, <1>5

LEMMA AppendFacts ==
  ASSUME NEW act, ActiveSound(act), NEW e \in Activations,
         e[1] = CoordinateOf[e[2]], e[1] \notin CoordinatesIn(act),
         NEW after, after = Append(act, e)
  PROVE  /\ ActiveSound(after)
         /\ CoordinatesIn(after) = CoordinatesIn(act) \union {e[1]}
         /\ RevisionsIn(after) = RevisionsIn(act) \union {e[2]}
<1>1. act \in Seq(Activations)
  BY DEF ActiveSound
<1>2. /\ after \in Seq(Activations) /\ DOMAIN after = DOMAIN act \union {Len(act) + 1}
      /\ Len(act) + 1 \notin DOMAIN act
      /\ after[Len(act) + 1] = e /\ \A i \in DOMAIN act : after[i] = act[i]
  BY <1>1
<1>3. \A i \in DOMAIN after : after[i][1] = CoordinateOf[after[i][2]]
  BY <1>2 DEF ActiveSound
<1>4. \A i, j \in DOMAIN after : after[i][1] = after[j][1] => i = j
  BY <1>2 DEF ActiveSound, CoordinatesIn
<1>5. CoordinatesIn(after) = CoordinatesIn(act) \union {e[1]}
  BY <1>2 DEF CoordinatesIn
<1>6. RevisionsIn(after) = RevisionsIn(act) \union {e[2]}
  BY <1>2 DEF RevisionsIn
<1> QED
  BY <1>2, <1>3, <1>4, <1>5, <1>6 DEF ActiveSound

(* What is left of a dictionary without some coordinates.                  *)
LEMMA WithoutFacts ==
  ASSUME NEW act, ActiveSound(act), NEW cs, NEW after, after = Without(act, cs)
  PROVE  /\ ActiveSound(after)
         /\ CoordinatesIn(after) = CoordinatesIn(act) \ cs
         /\ RevisionsIn(after) \subseteq RevisionsIn(act)
<1> DEFINE N == Len(act)
           V == Seq(Activations)
           step == [x \in (1..N) \X V |->
                      IF act[x[1]][1] \in cs THEN x[2] ELSE Append(x[2], act[x[1]])]
           KeptOf(kept) ==
             kept = [n \in 0..N |->
                       IF n = 0 THEN <<>>
                       ELSE IF act[n][1] \in cs THEN kept[n - 1] ELSE Append(kept[n - 1], act[n])]
<1>1. /\ act \in Seq(Activations) /\ N \in Nat /\ DOMAIN act = 1..N
      /\ \A i \in 1..N : act[i] \in Activations
  BY DEF ActiveSound
<1>2. \E kept : KeptOf(kept)
  <2>1. step \in [(1..N) \X V -> V]
    <3>1. \A x \in (1..N) \X V :
            (IF act[x[1]][1] \in cs THEN x[2] ELSE Append(x[2], act[x[1]])) \in V
      BY <1>1
    <3> QED
      BY <3>1, Zenon
  <2>2. <<>> \in V
    OBVIOUS
  <2>3. \A n \in 1..N, s \in V : step[n, s] = IF act[n][1] \in cs THEN s ELSE Append(s, act[n])
    OBVIOUS
  <2> HIDE DEF step, V
  <2>4. PICK f : IsRecursion(f, <<>>, step, N, V)
    <3>1. IsStep(step, N, V)
      BY <2>1 DEF IsStep
    <3>2. N \in Nat
      BY <1>1
    <3> HIDE DEF N
    <3> QED
      BY <2>2, <3>1, <3>2, StepsExist
  <2>5. \A n \in 0..N : f[n] = IF n = 0 THEN <<>>
                               ELSE IF act[n][1] \in cs THEN f[n - 1] ELSE Append(f[n - 1], act[n])
    <3> SUFFICES ASSUME NEW n \in 0..N, n # 0
                 PROVE f[n] = IF act[n][1] \in cs THEN f[n - 1] ELSE Append(f[n - 1], act[n])
      BY <2>4 DEF IsRecursion
    <3>1. n \in 1..N /\ n - 1 \in 0..N
      BY <1>1
    <3>2. f[n - 1] \in V
      BY <2>4, <3>1 DEF IsRecursion
    <3> QED
      BY <2>3, <2>4, <3>1, <3>2 DEF IsRecursion
  <2>6. KeptOf(f)
    BY <2>4, <2>5 DEF IsRecursion
  <2> QED
    BY <2>6
<1> DEFINE kept == CHOOSE k : KeptOf(k)
<1>3. KeptOf(kept) /\ after = kept[N]
  <2>1. after = kept[N]
    BY DEF Without
  <2> QED
    BY <1>2, <2>1
<1> HIDE DEF kept
<1>4. /\ kept[0] = <<>>
      /\ \A n \in 1..N : kept[n] = IF act[n][1] \in cs THEN kept[n - 1]
                                   ELSE Append(kept[n - 1], act[n])
  <2>1. \A n \in 0..N : kept[n] = IF n = 0 THEN <<>>
                                  ELSE IF act[n][1] \in cs THEN kept[n - 1]
                                  ELSE Append(kept[n - 1], act[n])
    BY <1>3, Zenon
  <2> HIDE DEF N
  <2>2. 0 \in 0..N /\ \A n \in 1..N : n \in 0..N /\ n # 0
    BY <1>1
  <2> QED
    BY <2>1, <2>2, Zenon
<1> DEFINE Good == [n \in 0..N |->
                      {s \in V : /\ ActiveSound(s)
                                 /\ CoordinatesIn(s) = {act[i][1] : i \in 1..n} \ cs
                                 /\ RevisionsIn(s) \subseteq {act[i][2] : i \in 1..n}}]
<1>5. kept[0] \in Good[0]
  <2>1. <<>> \in V /\ DOMAIN <<>> = {} /\ 1..0 = {} /\ 0 \in 0..N
    BY <1>1
  <2>2. ActiveSound(<<>>) /\ CoordinatesIn(<<>>) = {} /\ RevisionsIn(<<>>) = {}
    BY <2>1 DEF ActiveSound, CoordinatesIn, RevisionsIn
  <2> QED
    BY <1>4, <2>1, <2>2
<1>6. ASSUME NEW n \in 1..N, kept[n - 1] \in Good[n - 1] PROVE kept[n] \in Good[n]
  <2> DEFINE s == kept[n - 1]
  <2>1. n - 1 \in 0..N /\ n \in 0..N /\ 1..n = 1..(n - 1) \union {n} /\ n \notin 1..(n - 1)
        /\ 1..n \subseteq 1..N
    BY <1>1
  <2>2. /\ ActiveSound(s) /\ CoordinatesIn(s) = {act[i][1] : i \in 1..(n - 1)} \ cs
        /\ RevisionsIn(s) \subseteq {act[i][2] : i \in 1..(n - 1)}
    BY <1>6, <2>1
  <2>3. ActiveSound(s) => s \in V
    BY DEF ActiveSound
  <2>4. act[n] \in Activations /\ act[n][1] = CoordinateOf[act[n][2]]
    BY <1>1 DEF ActiveSound
  <2>5. act[n][1] \notin {act[i][1] : i \in 1..(n - 1)}
    BY <1>1, <2>1 DEF ActiveSound
  <2> HIDE DEF s, Good
  <2>6. /\ ActiveSound(kept[n])
        /\ CoordinatesIn(kept[n]) = {act[i][1] : i \in 1..n} \ cs
        /\ RevisionsIn(kept[n]) \subseteq {act[i][2] : i \in 1..n}
    <3>1. CASE act[n][1] \in cs
      <4>1. kept[n] = s
        BY <1>4, <3>1 DEF s
      <4> QED
        BY <2>1, <2>2, <3>1, <4>1
    <3>2. CASE act[n][1] \notin cs
      <4>1. kept[n] = Append(s, act[n])
        BY <1>4, <3>2 DEF s
      <4>2. act[n][1] \notin CoordinatesIn(s)
        BY <2>2, <2>5
      <4>3. /\ ActiveSound(kept[n])
            /\ CoordinatesIn(kept[n]) = CoordinatesIn(s) \union {act[n][1]}
            /\ RevisionsIn(kept[n]) = RevisionsIn(s) \union {act[n][2]}
        BY <2>2, <2>4, <4>1, <4>2, AppendFacts
      <4> QED
        BY <2>1, <2>2, <3>2, <4>3
    <3> QED
      BY <3>1, <3>2
  <2>7. kept[n] \in V
    BY <2>6 DEF ActiveSound
  <2> QED
    BY <2>1, <2>6, <2>7 DEF Good
<1>7. kept[N] \in Good[N]
  <2> HIDE DEF Good
  <2>1. \A n \in 0..N : kept[n] \in Good[n]
    BY <1>1, <1>5, <1>6, StepsKeep
  <2> QED
    BY <1>1, <2>1
<1>8. N \in 0..N
  BY <1>1
<1>9. /\ ActiveSound(after)
      /\ CoordinatesIn(after) = {act[i][1] : i \in 1..N} \ cs
      /\ RevisionsIn(after) \subseteq {act[i][2] : i \in 1..N}
  <2> HIDE DEF N, V
  <2> QED
    BY <1>3, <1>7, <1>8
<1> QED
  BY <1>1, <1>9 DEF CoordinatesIn, RevisionsIn

(* The activations repeated in their order: each is there, and the last    *)
(* step was admissible when all of them were.                              *)
LEMMA ReplayFacts ==
  ASSUME NEW order \in Seq(Manifests), Len(order) > 0, NEW outcome, outcome = Replay(order)
  PROVE  /\ ActiveSound(outcome.seq)
         /\ CoordinatesIn(outcome.seq) = {CoordinateOf[order[i]] : i \in 1..Len(order)}
         /\ RevisionsIn(outcome.seq) \subseteq {order[i] : i \in 1..Len(order)}
         /\ outcome.ok => Admissible(Selected(outcome.seq), Isolate)
<1> DEFINE N == Len(order)
           V == [ok : BOOLEAN, seq : {act \in Seq(Activations) : ActiveSound(act)}]
           step == [x \in (1..N) \X V |-> LockReplayed(x[2], order[x[1]])]
           start == [ok |-> TRUE, seq |-> <<>>]
           DoneOf(done) ==
             done = [n \in 0..N |-> IF n = 0 THEN [ok |-> TRUE, seq |-> <<>>]
                                    ELSE LockReplayed(done[n - 1], order[n])]
<1>1. N \in Nat /\ \A n \in 1..N : order[n] \in Manifests
  OBVIOUS
<1>2. ASSUME NEW o \in V, NEW m \in Manifests, NEW next, next = LockReplayed(o, m)
      PROVE  /\ next \in V
             /\ CoordinatesIn(next.seq) = CoordinatesIn(o.seq) \union {CoordinateOf[m]}
             /\ RevisionsIn(next.seq) \subseteq RevisionsIn(o.seq) \union {m}
             /\ next.ok => Admissible(Selected(next.seq), Isolate)
  <2> DEFINE put == Put(o.seq, CoordinateOf[m], m)
             fine == o.ok /\ Admissible(Selected(put), Isolate)
  <2>1. next = [ok |-> fine, seq |-> put]
    BY <1>2, Zenon DEF LockReplayed
  <2>2. ActiveSound(o.seq)
    OBVIOUS
  <2>3. /\ ActiveSound(put)
        /\ CoordinatesIn(put) = CoordinatesIn(o.seq) \union {CoordinateOf[m]}
        /\ RevisionsIn(put) \subseteq RevisionsIn(o.seq) \union {m}
    <3>1. put = Put(o.seq, CoordinateOf[m], m)
      OBVIOUS
    <3> HIDE DEF V, put
    <3> QED
      BY <2>2, <3>1, PutFacts
  <2>4. fine \in BOOLEAN
    <3> HIDE DEF put
    <3> QED
      OBVIOUS
  <2>5. put \in Seq(Activations)
    <3> HIDE DEF put
    <3> QED
      BY <2>3 DEF ActiveSound
  <2>6. fine => Admissible(Selected(put), Isolate)
    OBVIOUS
  <2> HIDE DEF put, fine
  <2>7. next.seq = put /\ next.ok = fine
    BY <2>1
  <2>8. next \in V
    BY <2>1, <2>3, <2>4, <2>5
  <2>9. next.ok => Admissible(Selected(next.seq), Isolate)
    BY <2>6, <2>7, Zenon
  <2> QED
    BY <2>3, <2>7, <2>8, <2>9, Zenon
<1>3. \A n \in 1..N, o \in V : step[n, o] = LockReplayed(o, order[n])
  <2> HIDE DEF V
  <2> QED
    OBVIOUS
<1>4. start \in V
  <2>1. <<>> \in Seq(Activations) /\ DOMAIN <<>> = {}
    OBVIOUS
  <2>2. ActiveSound(<<>>)
    BY <2>1 DEF ActiveSound
  <2> QED
    BY <2>1, <2>2
<1>5. IsStep(step, N, V)
  <2> HIDE DEF V
  <2>1. \A x \in (1..N) \X V : LockReplayed(x[2], order[x[1]]) \in V
    BY <1>1, <1>2
  <2>2. step \in [(1..N) \X V -> V]
    BY <2>1, Zenon
  <2> QED
    BY <2>2 DEF IsStep
<1> HIDE DEF step
<1>6. \E done : DoneOf(done)
  <2>1. PICK f : IsRecursion(f, start, step, N, V)
    <3> HIDE DEF N, V, start
    <3> QED
      BY <1>1, <1>4, <1>5, StepsExist
  <2> HIDE DEF V
  <2>2. \A n \in 0..N : f[n] = IF n = 0 THEN start ELSE LockReplayed(f[n - 1], order[n])
    <3> HIDE DEF start
    <3> SUFFICES ASSUME NEW n \in 0..N, n # 0 PROVE f[n] = LockReplayed(f[n - 1], order[n])
      BY <2>1 DEF IsRecursion
    <3>1. n \in 1..N /\ n - 1 \in 0..N
      BY <1>1
    <3>2. f[n - 1] \in V
      BY <2>1, <3>1 DEF IsRecursion
    <3> QED
      BY <1>3, <2>1, <3>1, <3>2 DEF IsRecursion
  <2>3. f = [n \in 0..N |-> f[n]]
    BY <2>1 DEF IsRecursion
  <2>4. DoneOf(f)
    BY <2>2, <2>3, Zenon
  <2> QED
    BY <2>4
<1> DEFINE done == CHOOSE d : DoneOf(d)
<1>7. DoneOf(done) /\ outcome = done[N]
  <2>1. outcome = done[N]
    BY Zenon DEF Replay
  <2> QED
    BY <1>6, <2>1, Zenon
<1> HIDE DEF done
<1>8. done[0] = start /\ \A n \in 1..N : done[n] = LockReplayed(done[n - 1], order[n])
  <2>1. \A n \in 0..N : done[n] = IF n = 0 THEN start ELSE LockReplayed(done[n - 1], order[n])
    BY <1>7, Zenon
  <2> HIDE DEF N, start
  <2>2. 0 \in 0..N /\ \A n \in 1..N : n \in 0..N /\ n # 0
    BY <1>1
  <2> QED
    BY <2>1, <2>2, Zenon
<1> DEFINE Good == [n \in 0..N |->
                      {o \in V : /\ CoordinatesIn(o.seq) = {CoordinateOf[order[i]] : i \in 1..n}
                                 /\ RevisionsIn(o.seq) \subseteq {order[i] : i \in 1..n}
                                 /\ n > 0 /\ o.ok => Admissible(Selected(o.seq), Isolate)}]
<1>9. done[0] \in Good[0]
  <2>1. DOMAIN <<>> = {} /\ 1..0 = {} /\ 0 \in 0..N
    BY <1>1
  <2>2. CoordinatesIn(<<>>) = {} /\ RevisionsIn(<<>>) = {}
    BY <2>1 DEF CoordinatesIn, RevisionsIn
  <2>3. start.seq = <<>>
    OBVIOUS
  <2> HIDE DEF V, start, N
  <2> QED
    BY <1>4, <1>8, <2>1, <2>2, <2>3
<1>10. ASSUME NEW n \in 1..N, done[n - 1] \in Good[n - 1] PROVE done[n] \in Good[n]
  <2> DEFINE o == done[n - 1]
  <2> HIDE DEF V
  <2>1. n - 1 \in 0..N /\ n \in 0..N /\ 1..n = 1..(n - 1) \union {n}
    BY <1>1
  <2>2. /\ o \in V /\ CoordinatesIn(o.seq) = {CoordinateOf[order[i]] : i \in 1..(n - 1)}
        /\ RevisionsIn(o.seq) \subseteq {order[i] : i \in 1..(n - 1)}
    BY <1>10, <2>1
  <2> HIDE DEF N
  <2>3. order[n] \in Manifests /\ done[n] = LockReplayed(o, order[n])
    BY <1>1, <1>8
  <2> HIDE DEF o
  <2>4. /\ done[n] \in V
        /\ CoordinatesIn(done[n].seq) = CoordinatesIn(o.seq) \union {CoordinateOf[order[n]]}
        /\ RevisionsIn(done[n].seq) \subseteq RevisionsIn(o.seq) \union {order[n]}
        /\ done[n].ok => Admissible(Selected(done[n].seq), Isolate)
    BY <1>2, <2>2, <2>3
  <2>5. /\ CoordinatesIn(done[n].seq) = {CoordinateOf[order[i]] : i \in 1..n}
        /\ RevisionsIn(done[n].seq) \subseteq {order[i] : i \in 1..n}
    BY <2>1, <2>2, <2>4
  <2> QED
    BY <2>1, <2>4, <2>5
<1>11. done[N] \in Good[N]
  <2> HIDE DEF Good, N
  <2>1. \A n \in 0..N : done[n] \in Good[n]
    BY <1>1, <1>9, <1>10, StepsKeep
  <2> QED
    BY <1>1, <2>1
<1>12. /\ outcome \in V
       /\ CoordinatesIn(outcome.seq) = {CoordinateOf[order[i]] : i \in 1..N}
       /\ RevisionsIn(outcome.seq) \subseteq {order[i] : i \in 1..N}
       /\ outcome.ok => Admissible(Selected(outcome.seq), Isolate)
  <2>1. N > 0 /\ N \in 0..N
    BY <1>1
  <2> HIDE DEF V, N
  <2> QED
    BY <1>7, <1>11, <2>1
<1>13. ActiveSound(outcome.seq)
  BY <1>12
<1> QED
  BY <1>12, <1>13

(* An export names the revision of every coordinate, so it says of which   *)
(* selection it is.                                                        *)
LEMMA LockFacts ==
  ASSUME ActiveSound(active), LockSound(lock)
  PROVE  LockIsExact
<1> SUFFICES ASSUME lock.taken PROVE LockMatches <=> lock.of = Selected(active)
  BY DEF LockIsExact
<1> DEFINE sel == Selected(active)
<1>1. sel \in [DOMAIN sel -> Manifests]
  BY SelectedFacts
<1>2. lock.entries = Export(lock.of) /\ lock.of \in [DOMAIN lock.of -> Manifests]
  BY DEF LockSound
<1> HIDE DEF sel
<1>3. \A s : DOMAIN Export(s) = DOMAIN s /\ \A c \in DOMAIN s : Export(s)[c].revision = s[c]
  BY DEF Export, LockEntry
<1>4. ASSUME LockMatches PROVE lock.of = sel
  <2>1. DOMAIN lock.of = DOMAIN sel
    BY <1>2, <1>3, <1>4 DEF LockMatches, sel
  <2>2. \A c \in DOMAIN sel : Export(lock.of)[c] = Export(sel)[c]
    BY <1>2, <1>3, <1>4 DEF LockMatches, sel
  <2>3. \A c \in DOMAIN sel : lock.of[c] = sel[c]
    BY <1>3, <2>1, <2>2
  <2> QED
    BY <1>1, <1>2, <2>1, <2>3
<1>5. ASSUME lock.of = sel PROVE LockMatches
  BY <1>2, <1>5 DEF LockMatches, sel
<1> QED
  BY <1>4, <1>5 DEF sel

LEMMA RegistryStarts ==
  ASSUME RegistryInit
  PROVE  RegistryInv
<1>1. active = <<>> /\ lock = NoLock /\ policy \in Policies
  BY DEF RegistryInit
<1>2. ActiveSound(active) /\ CoordinatesIn(active) = {} /\ RevisionsIn(active) = {}
  <2>1. DOMAIN <<>> = {} /\ <<>> \in Seq(Activations)
    OBVIOUS
  <2> QED
    BY <1>1, <2>1 DEF ActiveSound, CoordinatesIn, RevisionsIn
<1> DEFINE sel == Selected(active)
<1>3. DOMAIN sel = {} /\ ManifestsIn(sel) = {}
  BY <1>2, SelectedFacts
<1> HIDE DEF sel
<1>4. Complete(sel) /\ Acyclic(sel) /\ Exclusively(sel)
  <2>1. Complete(sel)
    BY <1>3 DEF Complete
  <2>2. (SUBSET DOMAIN sel) \ {{}} = {}
    <3>1. \A ring : ring \subseteq {} => ring = {}
      OBVIOUS
    <3>2. \A ring \in SUBSET (DOMAIN sel) : ring = {}
      BY <1>3, <3>1
    <3> QED
      BY <3>2, Zenon
  <2>3. Acyclic(sel)
    BY <2>2, Zenon DEF Acyclic
  <2>4. Exclusively(sel)
    BY <1>3 DEF Exclusively
  <2> QED
    BY <2>1, <2>3, <2>4
<1>5. Contested(sel) = {}
  BY <1>3 DEF Contested
<1>6. Projectable(sel, policy)
  <2>1. policy.strategy \in {"deny", "namespace", "isolate", "select-one"}
    BY <1>1 DEF Policies
  <2> QED
    BY <1>5, <2>1 DEF Projectable
<1>7. ActiveIsClosed
  BY <1>3, <1>4, <1>6 DEF ActiveIsClosed, Admissible, sel
<1>8. LockSound(lock)
  BY <1>1 DEF LockSound, NoLock
<1> QED
  BY <1>2, <1>7, <1>8 DEF RegistryInv

LEMMA RegistryInductive ==
  ASSUME RegistryInv, [RegistryNext]_registryVars
  PROVE  /\ RegistryInv'
         /\ \A c \in DOMAIN Selected(active) :
              c \in DOMAIN Selected(active)' \/ c \in excluded \/ Deactivate(c)
<1> DEFINE Persist == \A c \in DOMAIN Selected(active) :
              c \in DOMAIN Selected(active)' \/ c \in excluded \/ Deactivate(c)
<1>0. /\ ActiveSound(active) /\ LockSound(lock) /\ Admissible(Selected(active), policy)
      /\ DOMAIN Selected(active) = CoordinatesIn(active)
      /\ RevisionsIn(active) \subseteq revisions
      /\ ManifestsIn(Selected(active)) = RevisionsIn(active)
  BY SelectedFacts DEF RegistryInv, ActiveIsClosed
<1>1. CASE UNCHANGED registryVars
  BY <1>1 DEF registryVars, RegistryInv, ActiveIsClosed
<1>2. ASSUME NEW batch \in Batches, RegisterMany(batch) PROVE RegistryInv' /\ Persist
  <2>1. revisions \subseteq revisions' /\ UNCHANGED <<active, policy, lock>>
    BY <1>2 DEF RegisterMany
  <2> QED
    BY <1>0, <2>1 DEF RegistryInv, ActiveIsClosed
<1>3. ASSUME NEW m \in Manifests, Activate(m) PROVE RegistryInv' /\ Persist
  <2> DEFINE put == Put(active, CoordinateOf[m], m)
  <2>1. put = Put(active, CoordinateOf[m], m)
    OBVIOUS
  <2> HIDE DEF put
  <2>2. /\ m \in revisions /\ active' = Without(put, excluded)
        /\ Admissible(Selected(active'), policy) /\ UNCHANGED <<revisions, excluded, policy, lock>>
    BY <1>3, <2>1, Zenon DEF Activate, Candidate
  <2>3. /\ ActiveSound(put) /\ CoordinatesIn(active) \subseteq CoordinatesIn(put)
        /\ RevisionsIn(put) \subseteq RevisionsIn(active) \union {m}
    BY <1>0, <2>1, PutFacts
  <2>4. /\ ActiveSound(active') /\ CoordinatesIn(active') = CoordinatesIn(put) \ excluded
        /\ RevisionsIn(active') \subseteq RevisionsIn(put)
    BY <2>2, <2>3, WithoutFacts
  <2>5. DOMAIN Selected(active') = CoordinatesIn(active')
        /\ ManifestsIn(Selected(active')) = RevisionsIn(active')
    BY <2>4, SelectedFacts
  <2> QED
    BY <1>0, <2>2, <2>3, <2>4, <2>5 DEF RegistryInv, ActiveIsClosed
<1>4. ASSUME NEW e \in Coordinates, Deactivate(e) PROVE RegistryInv' /\ Persist
  <2>1. /\ active' = Without(active, {e}) /\ Admissible(Selected(active'), policy)
        /\ UNCHANGED <<revisions, excluded, policy, lock>>
    BY <1>4, Zenon DEF Deactivate
  <2>2. /\ ActiveSound(active') /\ CoordinatesIn(active') = CoordinatesIn(active) \ {e}
        /\ RevisionsIn(active') \subseteq RevisionsIn(active)
    BY <1>0, <2>1, WithoutFacts
  <2>3. DOMAIN Selected(active') = CoordinatesIn(active')
        /\ ManifestsIn(Selected(active')) = RevisionsIn(active')
    BY <2>2, SelectedFacts
  <2>4. Persist
    BY <1>0, <1>4, <2>2, <2>3
  <2> QED
    BY <1>0, <2>1, <2>2, <2>3, <2>4 DEF RegistryInv, ActiveIsClosed
<1>5. ASSUME NEW batch \in Batches, NEW m \in Manifests, Install(batch, m)
      PROVE RegistryInv' /\ Persist
  <2> DEFINE N == Len(active)
             order == [i \in DOMAIN active |-> active[i][2]] \o <<m>>
  <2>1. /\ active \in Seq(Activations) /\ N \in Nat /\ DOMAIN active = 1..N
        /\ \A i \in 1..N : active[i] \in Activations /\ active[i][1] = CoordinateOf[active[i][2]]
    BY <1>0 DEF ActiveSound
  <2>2. [i \in DOMAIN active |-> active[i][2]] \in Seq(Manifests)
        /\ Len([i \in DOMAIN active |-> active[i][2]]) = N
    <3>1. \A i \in 1..N : active[i][2] \in Manifests
      BY <2>1 DEF Activations
    <3>2. [i \in DOMAIN active |-> active[i][2]] \in [1..N -> Manifests]
      BY <2>1, <3>1
    <3> QED
      BY <2>1, <3>2
  <2>3. /\ order \in Seq(Manifests) /\ Len(order) = N + 1 /\ order[N + 1] = m
        /\ \A i \in 1..N : order[i] = active[i][2]
    BY <2>1, <2>2
  <2> HIDE DEF order, N
  <2>4. PICK outcome : /\ outcome = Replay(order) /\ m \in revisions \union batch
                       /\ outcome.ok /\ revisions' = revisions \union batch
                       /\ active' = outcome.seq /\ policy' = Isolate /\ UNCHANGED lock
    BY <1>5, Zenon DEF Install, order
  <2>5. /\ ActiveSound(active')
        /\ CoordinatesIn(active') = {CoordinateOf[order[i]] : i \in 1..Len(order)}
        /\ RevisionsIn(active') \subseteq {order[i] : i \in 1..Len(order)}
        /\ Admissible(Selected(active'), Isolate)
    <3>1. Len(order) > 0
      BY <2>1, <2>3
    <3> QED
      BY <2>3, <2>4, <3>1, ReplayFacts
  <2>6. RevisionsIn(active') \subseteq RevisionsIn(active) \union {m}
    <3>1. \A i \in 1..Len(order) : i \in 1..N \/ i = N + 1
      BY <2>1, <2>3
    <3>2. \A i \in 1..N : active[i][2] \in RevisionsIn(active)
      BY <2>1 DEF RevisionsIn
    <3> QED
      BY <2>3, <2>5, <3>1, <3>2
  <2>7. CoordinatesIn(active) \subseteq CoordinatesIn(active')
    <3>1. \A i \in 1..N : i \in 1..Len(order) /\ CoordinateOf[order[i]] = active[i][1]
      BY <2>1, <2>3
    <3>2. \A i \in 1..N : active[i][1] \in CoordinatesIn(active')
      BY <2>5, <3>1
    <3>3. CoordinatesIn(active) = {active[i][1] : i \in 1..N}
      BY <2>1 DEF CoordinatesIn
    <3> QED
      BY <3>2, <3>3
  <2>8. DOMAIN Selected(active') = CoordinatesIn(active')
        /\ ManifestsIn(Selected(active')) = RevisionsIn(active')
    BY <2>5, SelectedFacts
  <2>9. Persist
    BY <1>0, <2>7, <2>8
  <2> QED
    BY <1>0, <2>4, <2>5, <2>6, <2>8, <2>9 DEF RegistryInv, ActiveIsClosed
<1>6. ASSUME ExportLock PROVE RegistryInv' /\ Persist
  <2>1. /\ lock' = [taken |-> TRUE, entries |-> Export(Selected(active)), of |-> Selected(active)]
        /\ UNCHANGED <<revisions, active, excluded, policy>>
    BY <1>6 DEF ExportLock
  <2>2. Selected(active) \in [DOMAIN Selected(active) -> Manifests]
    BY <1>0, SelectedFacts
  <2>3. LockSound(lock')
    BY <2>1, <2>2 DEF LockSound
  <2> QED
    BY <1>0, <2>1, <2>3 DEF RegistryInv, ActiveIsClosed
<1> HIDE DEF Persist
<1>7. RegistryInv' /\ Persist
  BY <1>1, <1>2, <1>3, <1>4, <1>5, <1>6 DEF RegistryNext, Persist
<1> QED
  BY <1>7 DEF Persist

(* The activated capabilities are closed under their dependencies, without *)
(* cycle or collision, after every call, an exported lock is accepted      *)
(* exactly for what it was exported from, and an activation is only lost   *)
(* by deactivation or exclusion (registry.py, admission.py,                *)
(* activation_lock.py).                                                    *)
THEOREM RegistryIsExactHolds == RegistrySpec => RegistryIsExact
<1> DEFINE Persist == \A c \in DOMAIN Selected(active) :
              c \in DOMAIN Selected(active)' \/ c \in excluded \/ Deactivate(c)
<1>1. RegistryInit => RegistryInv
  BY RegistryStarts
<1>2. RegistryInv /\ [RegistryNext]_registryVars => RegistryInv'
  BY RegistryInductive
<1>3. RegistryInv /\ [RegistryNext]_registryVars => [Persist]_registryVars
  BY RegistryInductive
<1>4. RegistryInv => ActiveIsClosed /\ LockIsExact
  BY LockFacts DEF RegistryInv
<1> HIDE DEF Persist
<1>5. RegistrySpec => [](ActiveIsClosed /\ LockIsExact) /\ [][Persist]_registryVars
  BY <1>1, <1>2, <1>3, <1>4, PTL DEF RegistrySpec
<1> QED
  BY <1>5 DEF RegistryIsExact, ActivationsPersist, Persist

-----------------------------------------------------------------------------
(* The catalogue and its monitor.                                          *)

(* A selection gives some coordinates one of the manifests each.           *)
Selections == UNION {[D -> Manifests] : D \in SUBSET Coordinates}

LEMMA WithFacts ==
  ASSUME NEW act \in Selections, NEW m \in Manifests, NEW next, next = With(act, m)
  PROVE  /\ next \in Selections
         /\ DOMAIN next = DOMAIN act \union {CoordinateOf[m]}
         /\ ManifestsIn(next) \subseteq ManifestsIn(act) \union {m}
<1>1. PICK D \in SUBSET Coordinates : act \in [D -> Manifests]
  BY DEF Selections
<1>2. CoordinateOf[m] \in Coordinates
  BY ManifestAssumption
<1>3. DOMAIN act = D /\ \A c \in D : act[c] \in Manifests
  BY <1>1
<1>4. /\ DOMAIN next = D \union {CoordinateOf[m]}
      /\ \A c \in DOMAIN next : next[c] = IF c = CoordinateOf[m] THEN m ELSE act[c]
  BY <1>3 DEF With
<1>5. next \in [D \union {CoordinateOf[m]} -> Manifests]
  <2>1. next = [c \in D \union {CoordinateOf[m]} |-> IF c = CoordinateOf[m] THEN m ELSE act[c]]
    BY <1>3 DEF With
  <2> QED
    BY <1>3, <2>1
<1>6. next \in Selections
  <2>1. D \union {CoordinateOf[m]} \in SUBSET Coordinates
    BY <1>2
  <2> QED
    BY <1>5, <2>1 DEF Selections
<1>7. ManifestsIn(next) \subseteq ManifestsIn(act) \union {m}
  BY <1>3, <1>4 DEF ManifestsIn
<1> QED
  BY <1>3, <1>4, <1>6, <1>7

(* What is wanted is wanted, whatever the order.                           *)
LEMMA WantedFacts ==
  ASSUME NEW found, NEW off, NEW pointers, NEW order, order = Wanted(found, off, pointers)
  PROVE  order \in Seq(Manifests \cap found)
<1> DEFINE N == Len(DiscoveryOrder)
           V == Seq(Manifests \cap found)
           Next1(s, n) == IF IsWanted(DiscoveryOrder[n], found, off, pointers)
                          THEN Append(s, DiscoveryOrder[n]) ELSE s
           step == [x \in (1..N) \X V |-> Next1(x[2], x[1])]
           KeptOf(f) == f = [n \in 0..N |-> IF n = 0 THEN <<>>
                               ELSE IF IsWanted(DiscoveryOrder[n], found, off, pointers)
                               THEN Append(f[n - 1], DiscoveryOrder[n]) ELSE f[n - 1]]
<1>1. N \in Nat /\ \A n \in 1..N : DiscoveryOrder[n] \in Manifests
  BY DiscoveryAssumption
<1>2. ASSUME NEW s \in V, NEW n \in 1..N PROVE Next1(s, n) \in V
  <2>1. DiscoveryOrder[n] \in Manifests
    BY <1>1
  <2>2. IsWanted(DiscoveryOrder[n], found, off, pointers) => DiscoveryOrder[n] \in found
    BY DEF IsWanted
  <2> QED
    BY <2>1, <2>2
<1>3. <<>> \in V
  OBVIOUS
<1>4. \A s, n : Next1(s, n) = IF IsWanted(DiscoveryOrder[n], found, off, pointers)
                              THEN Append(s, DiscoveryOrder[n]) ELSE s
  OBVIOUS
<1> HIDE DEF Next1, V, N
<1>5. IsStep(step, N, V)
  <2>1. \A x \in (1..N) \X V : Next1(x[2], x[1]) \in V
    BY <1>2
  <2>2. step \in [(1..N) \X V -> V]
    BY <2>1, Zenon
  <2> QED
    BY <2>2 DEF IsStep
<1>6. \A n \in 1..N, s \in V : step[n, s] = Next1(s, n)
  OBVIOUS
<1> HIDE DEF step
<1>7. \E f : KeptOf(f)
  <2>1. PICK f : IsRecursion(f, <<>>, step, N, V)
    BY <1>1, <1>3, <1>5, StepsExist
  <2>2. \A n \in 0..N : f[n] = IF n = 0 THEN <<>>
                               ELSE IF IsWanted(DiscoveryOrder[n], found, off, pointers)
                               THEN Append(f[n - 1], DiscoveryOrder[n]) ELSE f[n - 1]
    <3> SUFFICES ASSUME NEW n \in 0..N, n # 0 PROVE f[n] = Next1(f[n - 1], n)
      BY <1>4, <2>1 DEF IsRecursion
    <3>1. n \in 1..N /\ n - 1 \in 0..N
      BY <1>1
    <3>2. f[n - 1] \in V
      BY <2>1, <3>1 DEF IsRecursion
    <3> QED
      BY <1>6, <2>1, <3>1, <3>2 DEF IsRecursion
  <2>3. f = [n \in 0..N |-> f[n]]
    BY <2>1 DEF IsRecursion
  <2>4. KeptOf(f)
    BY <2>2, <2>3, Zenon
  <2> QED
    BY <2>4
<1> DEFINE kept == CHOOSE f : KeptOf(f)
<1>8. KeptOf(kept) /\ order = kept[N]
  <2>1. order = kept[N]
    BY Zenon DEF Wanted, N
  <2> QED
    BY <1>7, <2>1, Zenon
<1> HIDE DEF kept
<1>9. kept[0] = <<>> /\ \A n \in 1..N : kept[n] = Next1(kept[n - 1], n)
  <2>1. \A n \in 0..N : kept[n] = IF n = 0 THEN <<>> ELSE Next1(kept[n - 1], n)
    BY <1>4, <1>8, Zenon
  <2>2. 0 \in 0..N /\ \A n \in 1..N : n \in 0..N /\ n # 0
    BY <1>1
  <2> QED
    BY <2>1, <2>2, Zenon
<1> DEFINE Good == [n \in 0..N |-> V]
<1>10. kept[0] \in Good[0] /\ N \in 0..N
  BY <1>1, <1>3, <1>9
<1>11. \A n \in 1..N : kept[n - 1] \in Good[n - 1] => kept[n] \in Good[n]
  <2> SUFFICES ASSUME NEW n \in 1..N, kept[n - 1] \in Good[n - 1] PROVE kept[n] \in Good[n]
    OBVIOUS
  <2>1. n - 1 \in 0..N /\ n \in 0..N
    BY <1>1
  <2> QED
    BY <1>2, <1>9, <2>1
<1>12. kept[N] \in Good[N]
  <2> HIDE DEF Good
  <2> QED
    BY <1>1, <1>10, <1>11, StepsKeep
<1> QED
  BY <1>8, <1>10, <1>12 DEF V

Rounds(found) == [active : Selections, left : Seq(Manifests \cap found)]
IsIn(m, s) == \E j \in DOMAIN s : s[j] = m
Fine(o, found) == /\ o \in Rounds(found) /\ ManifestsIn(o.active) \subseteq found
                  /\ Admissible(o.active, Isolate)

(* After the first n attempts of a round: what was left over was tried,    *)
(* and nothing was activated exactly if nothing could be.                  *)
Tried(act, pending, found, n, o) ==
  /\ Fine(o, found) /\ DOMAIN act \subseteq DOMAIN o.active /\ Len(o.left) <= n
  /\ \A i \in 1..n : CoordinateOf[pending[i]] \in DOMAIN o.active \/ IsIn(pending[i], o.left)
  /\ Len(o.left) = n => o.active = act /\ \A i \in 1..n : o.left[i] = pending[i]
  /\ Len(o.left) = n <=> \A i \in 1..n : ~Admissible(With(act, pending[i]), Isolate)

LEMMA AttemptFacts ==
  ASSUME NEW found, NEW act \in Selections, NEW pending \in Seq(Manifests \cap found),
         NEW n \in 1..Len(pending), NEW o, Tried(act, pending, found, n - 1, o),
         NEW next, next = Attempt(o, pending[n])
  PROVE  Tried(act, pending, found, n, next)
<1> DEFINE m == pending[n]
<1>1. /\ m \in Manifests /\ m \in found /\ n \in Nat
      /\ \A i \in 1..n : i \in 1..(n - 1) \/ i = n
  OBVIOUS
<1> HIDE DEF m
<1>2. /\ o \in Rounds(found) /\ ManifestsIn(o.active) \subseteq found /\ Admissible(o.active, Isolate)
      /\ DOMAIN act \subseteq DOMAIN o.active /\ Len(o.left) <= n - 1
      /\ \A i \in 1..(n - 1) : CoordinateOf[pending[i]] \in DOMAIN o.active \/ IsIn(pending[i], o.left)
      /\ Len(o.left) = n - 1 => o.active = act /\ \A i \in 1..(n - 1) : o.left[i] = pending[i]
      /\ Len(o.left) = n - 1 <=> \A i \in 1..(n - 1) : ~Admissible(With(act, pending[i]), Isolate)
  BY DEF Tried, Fine
<1>3. o.active \in Selections /\ o.left \in Seq(Manifests \cap found) /\ Len(o.left) \in Nat
  BY <1>2 DEF Rounds
<1>4. next = IF Admissible(With(o.active, m), Isolate)
             THEN [active |-> With(o.active, m), left |-> o.left]
             ELSE [active |-> o.active, left |-> Append(o.left, m)]
  BY DEF Attempt, m
<1>5. CASE Admissible(With(o.active, m), Isolate)
  <2>1. PICK w : w = With(o.active, m)
    OBVIOUS
  <2>2. next = [active |-> w, left |-> o.left] /\ Admissible(w, Isolate)
    BY <1>4, <1>5, <2>1
  <2>3. /\ w \in Selections /\ DOMAIN w = DOMAIN o.active \union {CoordinateOf[m]}
        /\ ManifestsIn(w) \subseteq ManifestsIn(o.active) \union {m}
    BY <1>1, <1>3, <2>1, WithFacts
  <2>4. next.active = w /\ next.left = o.left /\ next \in Rounds(found)
    BY <1>3, <2>2, <2>3 DEF Rounds
  <2>5. Fine(next, found)
    BY <1>1, <1>2, <2>2, <2>3, <2>4 DEF Fine
  <2>6. Len(next.left) < n
    BY <1>1, <1>2, <1>3, <2>4
  <2>7. ~\A i \in 1..n : ~Admissible(With(act, pending[i]), Isolate)
    <3> SUFFICES ASSUME \A i \in 1..n : ~Admissible(With(act, pending[i]), Isolate) PROVE FALSE
      OBVIOUS
    <3>1. \A i \in 1..(n - 1) : i \in 1..n
      BY <1>1
    <3>2. o.active = act
      BY <1>2, <3>1
    <3>3. n \in 1..n
      BY <1>1
    <3> QED
      BY <1>5, <3>2, <3>3 DEF m
  <2>8. \A i \in 1..n : CoordinateOf[pending[i]] \in DOMAIN next.active \/ IsIn(pending[i], next.left)
    BY <1>1, <1>2, <2>3, <2>4 DEF m
  <2>9. DOMAIN act \subseteq DOMAIN next.active
    BY <1>2, <2>3, <2>4
  <2>10. Len(next.left) \in Nat /\ Len(next.left) # n /\ Len(next.left) <= n
    BY <1>1, <1>3, <2>4, <2>6
  <2> QED
    BY <2>5, <2>7, <2>8, <2>9, <2>10 DEF Tried
<1>6. CASE ~Admissible(With(o.active, m), Isolate)
  <2>1. next = [active |-> o.active, left |-> Append(o.left, m)]
    BY <1>4, <1>6
  <2>2. PICK l : l = Append(o.left, m)
    OBVIOUS
  <2>3. /\ l \in Seq(Manifests \cap found) /\ Len(l) = Len(o.left) + 1
        /\ DOMAIN l = DOMAIN o.left \union {Len(l)} /\ l[Len(l)] = m
        /\ \A i \in DOMAIN o.left : l[i] = o.left[i]
    BY <1>1, <1>3, <2>2
  <2>4. next.active = o.active /\ next.left = l /\ next \in Rounds(found)
    BY <1>3, <2>1, <2>2, <2>3 DEF Rounds
  <2>5. Fine(next, found)
    BY <1>2, <2>4 DEF Fine
  <2>6. \A i \in 1..n : CoordinateOf[pending[i]] \in DOMAIN next.active \/ IsIn(pending[i], next.left)
    <3>1. \A x : IsIn(x, o.left) => IsIn(x, l)
      BY <2>3 DEF IsIn
    <3>2. IsIn(m, l)
      BY <2>3 DEF IsIn
    <3> QED
      BY <1>1, <1>2, <2>4, <3>1, <3>2 DEF m
  <2>7. Len(l) = n => o.active = act /\ \A i \in 1..n : l[i] = pending[i]
    <3> SUFFICES ASSUME Len(l) = n PROVE o.active = act /\ \A i \in 1..n : l[i] = pending[i]
      OBVIOUS
    <3>1. Len(o.left) = n - 1 /\ DOMAIN o.left = 1..(n - 1)
      BY <1>1, <1>3, <2>3
    <3> QED
      BY <1>1, <1>2, <2>3, <3>1 DEF m
  <2>8. Len(l) = n <=> \A i \in 1..n : ~Admissible(With(act, pending[i]), Isolate)
    <3>1. ASSUME Len(l) = n PROVE \A i \in 1..n : ~Admissible(With(act, pending[i]), Isolate)
      <4>1. Len(o.left) = n - 1
        BY <1>1, <1>3, <2>3, <3>1
      <4>2. o.active = act /\ \A i \in 1..(n - 1) : ~Admissible(With(act, pending[i]), Isolate)
        BY <1>2, <4>1
      <4> QED
        BY <1>1, <1>6, <4>2 DEF m
    <3>2. ASSUME \A i \in 1..n : ~Admissible(With(act, pending[i]), Isolate) PROVE Len(l) = n
      <4>1. \A i \in 1..(n - 1) : i \in 1..n
        BY <1>1
      <4>2. Len(o.left) = n - 1
        BY <1>2, <3>2, <4>1
      <4> QED
        BY <1>1, <1>3, <2>3, <4>2
    <3> QED
      BY <3>1, <3>2
  <2>9. DOMAIN act \subseteq DOMAIN next.active /\ Len(next.left) <= n
    <3>1. Len(next.left) = Len(o.left) + 1 /\ Len(o.left) <= n - 1
      BY <1>2, <2>3, <2>4
    <3>2. Len(next.left) <= n
      BY <1>1, <1>3, <3>1
    <3> QED
      BY <1>2, <2>4, <3>2
  <2> QED
    BY <2>4, <2>5, <2>6, <2>7, <2>8, <2>9 DEF Tried
<1> QED
  BY <1>5, <1>6

LEMMA RoundFacts ==
  ASSUME NEW found, NEW act \in Selections, ManifestsIn(act) \subseteq found,
         Admissible(act, Isolate), NEW pending \in Seq(Manifests \cap found),
         NEW o, o = Round(act, pending)
  PROVE  Tried(act, pending, found, Len(pending), o)
<1> DEFINE N == Len(pending)
           V == {x \in Rounds(found) : Fine(x, found)}
           start == [active |-> act, left |-> <<>>]
           step == [x \in (1..N) \X V |-> Attempt(x[2], pending[x[1]])]
           TriedOf(f) == f = [n \in 0..N |-> IF n = 0 THEN [active |-> act, left |-> <<>>]
                                             ELSE Attempt(f[n - 1], pending[n])]
<1>1. N \in Nat /\ \A n \in 1..N : pending[n] \in Manifests \cap found
  OBVIOUS
<1>2. start.active = act /\ start.left = <<>> /\ Len(start.left) = 0 /\ start \in Rounds(found)
  BY DEF Rounds
<1> HIDE DEF start
<1>3. start \in V /\ Tried(act, pending, found, 0, start)
  BY <1>2 DEF Tried, Fine
<1>4. ASSUME NEW x \in V, NEW n \in 1..N PROVE Attempt(x, pending[n]) \in V
  <2> DEFINE m == pending[n]
  <2>1. m \in Manifests /\ m \in found
    BY <1>1
  <2> HIDE DEF m
  <2>2. /\ x \in Rounds(found) /\ ManifestsIn(x.active) \subseteq found
        /\ Admissible(x.active, Isolate)
    BY DEF Fine
  <2>3. x.active \in Selections /\ x.left \in Seq(Manifests \cap found)
    BY <2>2 DEF Rounds
  <2>4. PICK w : w = With(x.active, m)
    OBVIOUS
  <2>5. w \in Selections /\ ManifestsIn(w) \subseteq found
    <3>1. w \in Selections /\ ManifestsIn(w) \subseteq ManifestsIn(x.active) \union {m}
      BY <2>1, <2>3, <2>4, WithFacts
    <3> QED
      BY <2>1, <2>2, <3>1
  <2>6. PICK a : a = Attempt(x, m)
    OBVIOUS
  <2>7. a = IF Admissible(w, Isolate) THEN [active |-> w, left |-> x.left]
            ELSE [active |-> x.active, left |-> Append(x.left, m)]
    BY <2>4, <2>6 DEF Attempt
  <2>8. Append(x.left, m) \in Seq(Manifests \cap found)
    BY <2>1, <2>3
  <2>9. Fine(a, found)
    <3>1. CASE Admissible(w, Isolate)
      <4>1. a = [active |-> w, left |-> x.left]
        BY <2>7, <3>1
      <4> QED
        BY <2>3, <2>5, <3>1, <4>1 DEF Fine, Rounds
    <3>2. CASE ~Admissible(w, Isolate)
      <4>1. a = [active |-> x.active, left |-> Append(x.left, m)]
        BY <2>7, <3>2
      <4> QED
        BY <2>2, <2>3, <2>8, <4>1 DEF Fine, Rounds
    <3> QED
      BY <3>1, <3>2
  <2>10. a \in V
    BY <2>9 DEF Fine
  <2> QED
    BY <2>6, <2>10 DEF m
<1> HIDE DEF V, N
<1>5. IsStep(step, N, V)
  <2>1. \A x \in (1..N) \X V : Attempt(x[2], pending[x[1]]) \in V
    BY <1>4
  <2>2. step \in [(1..N) \X V -> V]
    BY <2>1, Zenon
  <2> QED
    BY <2>2 DEF IsStep
<1>6. \A n \in 1..N, x \in V : step[n, x] = Attempt(x, pending[n])
  OBVIOUS
<1> HIDE DEF step
<1>7. \E f : TriedOf(f)
  <2>1. PICK f : IsRecursion(f, start, step, N, V)
    BY <1>1, <1>3, <1>5, StepsExist
  <2>2. \A n \in 0..N : f[n] = IF n = 0 THEN start ELSE Attempt(f[n - 1], pending[n])
    <3> SUFFICES ASSUME NEW n \in 0..N, n # 0 PROVE f[n] = Attempt(f[n - 1], pending[n])
      BY <2>1 DEF IsRecursion
    <3>1. n \in 1..N /\ n - 1 \in 0..N
      BY <1>1
    <3>2. f[n - 1] \in V
      BY <2>1, <3>1 DEF IsRecursion
    <3> QED
      BY <1>6, <2>1, <3>1, <3>2 DEF IsRecursion
  <2>3. f = [n \in 0..N |-> f[n]]
    BY <2>1 DEF IsRecursion
  <2>4. TriedOf(f)
    BY <2>2, <2>3, Zenon DEF start
  <2> QED
    BY <2>4
<1> DEFINE tried == CHOOSE f : TriedOf(f)
<1>8. TriedOf(tried) /\ o = tried[N]
  <2>1. o = tried[N]
    BY Zenon DEF Round, N
  <2> QED
    BY <1>7, <2>1, Zenon
<1> HIDE DEF tried
<1>9. tried[0] = start /\ \A n \in 1..N : tried[n] = Attempt(tried[n - 1], pending[n])
  <2>1. \A n \in 0..N : tried[n] = IF n = 0 THEN start ELSE Attempt(tried[n - 1], pending[n])
    BY <1>8, Zenon DEF start
  <2>2. 0 \in 0..N /\ \A n \in 1..N : n \in 0..N /\ n # 0
    BY <1>1
  <2> QED
    BY <2>1, <2>2, Zenon
<1> DEFINE Good == [n \in 0..N |-> {x \in V : Tried(act, pending, found, n, x)}]
<1>10. tried[0] \in Good[0] /\ N \in 0..N
  BY <1>1, <1>3, <1>9
<1>11. \A n \in 1..N : tried[n - 1] \in Good[n - 1] => tried[n] \in Good[n]
  <2> SUFFICES ASSUME NEW n \in 1..N, tried[n - 1] \in Good[n - 1] PROVE tried[n] \in Good[n]
    OBVIOUS
  <2>1. n - 1 \in 0..N /\ n \in 0..N /\ n \in 1..Len(pending)
    BY <1>1 DEF N
  <2>2. tried[n - 1] \in V /\ Tried(act, pending, found, n - 1, tried[n - 1])
    BY <2>1
  <2>3. tried[n] = Attempt(tried[n - 1], pending[n])
    BY <1>9
  <2>4. Tried(act, pending, found, n, tried[n])
    BY <2>1, <2>2, <2>3, AttemptFacts
  <2>5. tried[n] \in V
    BY <1>4, <2>2, <2>3
  <2> QED
    BY <2>1, <2>4, <2>5
<1>12. tried[N] \in Good[N]
  <2> HIDE DEF Good
  <2> QED
    BY <1>1, <1>10, <1>11, StepsKeep
<1> QED
  BY <1>8, <1>10, <1>12 DEF N

(* After n rounds either something was activated in each, or nothing more  *)
(* can be.                                                                 *)
Stuck(o) == \A j \in DOMAIN o.left : ~Admissible(With(o.active, o.left[j]), Isolate)
Settling(order, found, n, o) ==
  /\ Fine(o, found)
  /\ \A i \in DOMAIN order : CoordinateOf[order[i]] \in DOMAIN o.active \/ IsIn(order[i], o.left)
  /\ Len(o.left) <= Len(order) - n \/ Stuck(o)

LEMMA SettlingKept ==
  ASSUME NEW found, NEW order \in Seq(Manifests \cap found), NEW n \in 1..Len(order),
         NEW o, Settling(order, found, n - 1, o), NEW next, next = Round(o.active, o.left)
  PROVE  Settling(order, found, n, next)
<1>1. /\ o.active \in Selections /\ o.left \in Seq(Manifests \cap found)
      /\ ManifestsIn(o.active) \subseteq found /\ Admissible(o.active, Isolate)
  BY DEF Settling, Fine, Rounds
<1> DEFINE k == Len(o.left)
<1>2. k \in Nat /\ DOMAIN o.left = 1..k /\ Len(order) \in Nat /\ n \in Nat
  BY <1>1
<1>3. Tried(o.active, o.left, found, k, next)
  BY <1>1, RoundFacts
<1>4. /\ Fine(next, found) /\ DOMAIN o.active \subseteq DOMAIN next.active /\ Len(next.left) <= k
      /\ \A i \in 1..k : CoordinateOf[o.left[i]] \in DOMAIN next.active \/ IsIn(o.left[i], next.left)
      /\ Len(next.left) = k => next.active = o.active /\ \A i \in 1..k : next.left[i] = o.left[i]
      /\ Len(next.left) = k <=> \A i \in 1..k : ~Admissible(With(o.active, o.left[i]), Isolate)
  BY <1>3 DEF Tried
<1>5. next.left \in Seq(Manifests \cap found) /\ Len(next.left) \in Nat
      /\ DOMAIN next.left = 1..Len(next.left)
  BY <1>4 DEF Fine, Rounds
<1> HIDE DEF k
<1>6. ASSUME NEW i \in DOMAIN order
      PROVE  CoordinateOf[order[i]] \in DOMAIN next.active \/ IsIn(order[i], next.left)
  <2>1. CoordinateOf[order[i]] \in DOMAIN o.active \/ IsIn(order[i], o.left)
    BY DEF Settling
  <2>2. CASE IsIn(order[i], o.left)
    <3>1. PICK j \in 1..k : o.left[j] = order[i]
      BY <1>2, <2>2 DEF IsIn
    <3> QED
      BY <1>4, <3>1
  <2> QED
    BY <1>4, <2>1, <2>2
<1>7. CASE Len(next.left) = k
  <2>1. Stuck(next)
    BY <1>4, <1>5, <1>7 DEF Stuck
  <2> QED
    BY <1>4, <1>6, <2>1 DEF Settling
<1>8. CASE Len(next.left) # k
  <2>1. ~Stuck(o)
    BY <1>2, <1>4, <1>8 DEF Stuck
  <2>2. k <= Len(order) - (n - 1)
    BY <2>1 DEF Settling, k
  <2>3. Len(next.left) <= Len(order) - n
    BY <1>2, <1>4, <1>5, <1>8, <2>2
  <2> QED
    BY <1>4, <1>6, <2>3 DEF Settling
<1> QED
  BY <1>7, <1>8

LEMMA NobodyIsAdmissible ==
  ASSUME NEW sel, DOMAIN sel = {}
  PROVE  Admissible(sel, Isolate) /\ ManifestsIn(sel) = {}
<1>1. ManifestsIn(sel) = {}
  BY DEF ManifestsIn
<1>2. Complete(sel)
  BY <1>1 DEF Complete
<1>3. (SUBSET DOMAIN sel) \ {{}} = {}
  <2>1. \A ring : ring \subseteq {} => ring = {}
    OBVIOUS
  <2>2. \A ring \in SUBSET (DOMAIN sel) : ring = {}
    BY <2>1
  <2> QED
    BY <2>2, Zenon
<1>4. Acyclic(sel)
  BY <1>3, Zenon DEF Acyclic
<1>5. Exclusively(sel) /\ Projectable(sel, Isolate)
  BY DEF Exclusively, Projectable, Isolate
<1> QED
  BY <1>1, <1>2, <1>4, <1>5 DEF Admissible

LEMMA ActivationFacts ==
  ASSUME NEW found, NEW order \in Seq(Manifests \cap found), NEW act, act = Activation(order)
  PROVE  /\ Admissible(act, Isolate) /\ ManifestsIn(act) \subseteq found
         /\ \A i \in DOMAIN order : CoordinateOf[order[i]] \notin DOMAIN act =>
              ~Admissible(With(act, order[i]), Isolate)
<1> DEFINE N == Len(order)
           V == {x \in Rounds(found) : Fine(x, found)}
           start == [active |-> NobodyActive, left |-> order]
           step == [x \in (1..N) \X V |-> Round(x[2].active, x[2].left)]
           RoundsOf(f) == f = [n \in 0..N |-> IF n = 0 THEN [active |-> NobodyActive, left |-> order]
                                              ELSE Round(f[n - 1].active, f[n - 1].left)]
<1>1. N \in Nat /\ DOMAIN order = 1..N
  OBVIOUS
<1>2. start.active = NobodyActive /\ start.left = order
  OBVIOUS
<1>3. start \in V /\ Settling(order, found, 0, start)
  <2>1. NobodyActive \in Selections /\ DOMAIN NobodyActive = {}
    <3>1. NobodyActive \in [{} -> Manifests]
      BY DEF NobodyActive
    <3> QED
      BY <3>1 DEF Selections
  <2>2. Admissible(NobodyActive, Isolate) /\ ManifestsIn(NobodyActive) = {}
    BY <2>1, NobodyIsAdmissible
  <2>3. start \in Rounds(found)
    BY <2>1 DEF Rounds
  <2> HIDE DEF start
  <2>4. Fine(start, found)
    BY <1>2, <2>2, <2>3 DEF Fine
  <2>5. \A i \in DOMAIN order : IsIn(order[i], start.left)
    BY <1>2 DEF IsIn
  <2>6. Len(start.left) <= Len(order) - 0
    BY <1>1, <1>2
  <2> QED
    BY <2>3, <2>4, <2>5, <2>6 DEF Settling
<1> HIDE DEF start
<1>4. ASSUME NEW x \in V PROVE Round(x.active, x.left) \in V
  <2>1. /\ x.active \in Selections /\ x.left \in Seq(Manifests \cap found)
        /\ ManifestsIn(x.active) \subseteq found /\ Admissible(x.active, Isolate)
    BY DEF Fine, Rounds
  <2>2. Tried(x.active, x.left, found, Len(x.left), Round(x.active, x.left))
    BY <2>1, RoundFacts
  <2> QED
    BY <2>2 DEF Tried, Fine
<1> HIDE DEF V, N
<1>5. IsStep(step, N, V)
  <2>1. \A x \in (1..N) \X V : Round(x[2].active, x[2].left) \in V
    BY <1>4
  <2>2. step \in [(1..N) \X V -> V]
    BY <2>1, Zenon
  <2> QED
    BY <2>2 DEF IsStep
<1>6. \A n \in 1..N, x \in V : step[n, x] = Round(x.active, x.left)
  OBVIOUS
<1> HIDE DEF step
<1>7. \E f : RoundsOf(f)
  <2>1. PICK f : IsRecursion(f, start, step, N, V)
    BY <1>1, <1>3, <1>5, StepsExist
  <2>2. \A n \in 0..N : f[n] = IF n = 0 THEN start ELSE Round(f[n - 1].active, f[n - 1].left)
    <3> SUFFICES ASSUME NEW n \in 0..N, n # 0
                 PROVE f[n] = Round(f[n - 1].active, f[n - 1].left)
      BY <2>1 DEF IsRecursion
    <3>1. n \in 1..N /\ n - 1 \in 0..N
      BY <1>1
    <3>2. f[n - 1] \in V
      BY <2>1, <3>1 DEF IsRecursion
    <3> QED
      BY <1>6, <2>1, <3>1, <3>2 DEF IsRecursion
  <2>3. f = [n \in 0..N |-> f[n]]
    BY <2>1 DEF IsRecursion
  <2>4. RoundsOf(f)
    BY <2>2, <2>3, Zenon DEF start
  <2> QED
    BY <2>4
<1> DEFINE rounds == CHOOSE f : RoundsOf(f)
<1>8. RoundsOf(rounds) /\ act = rounds[N].active
  <2>1. act = rounds[N].active
    BY Zenon DEF Activation, N
  <2> QED
    BY <1>7, <2>1, Zenon
<1> HIDE DEF rounds
<1>9. rounds[0] = start
      /\ \A n \in 1..N : rounds[n] = Round(rounds[n - 1].active, rounds[n - 1].left)
  <2>1. \A n \in 0..N : rounds[n] = IF n = 0 THEN start
                                    ELSE Round(rounds[n - 1].active, rounds[n - 1].left)
    BY <1>8, Zenon DEF start
  <2>2. 0 \in 0..N /\ \A n \in 1..N : n \in 0..N /\ n # 0
    BY <1>1
  <2> QED
    BY <2>1, <2>2, Zenon
<1> DEFINE Good == [n \in 0..N |-> {x \in V : Settling(order, found, n, x)}]
<1>10. rounds[0] \in Good[0] /\ N \in 0..N
  BY <1>1, <1>3, <1>9
<1>11. \A n \in 1..N : rounds[n - 1] \in Good[n - 1] => rounds[n] \in Good[n]
  <2> SUFFICES ASSUME NEW n \in 1..N, rounds[n - 1] \in Good[n - 1] PROVE rounds[n] \in Good[n]
    OBVIOUS
  <2>1. n - 1 \in 0..N /\ n \in 0..N /\ n \in 1..Len(order)
    BY <1>1 DEF N
  <2>2. rounds[n - 1] \in V /\ Settling(order, found, n - 1, rounds[n - 1])
    BY <2>1
  <2>3. rounds[n] = Round(rounds[n - 1].active, rounds[n - 1].left)
    BY <1>9
  <2>4. Settling(order, found, n, rounds[n])
    BY <2>1, <2>2, <2>3, SettlingKept
  <2>5. rounds[n] \in V
    BY <1>4, <2>2, <2>3
  <2> QED
    BY <2>1, <2>4, <2>5
<1>12. rounds[N] \in Good[N]
  <2> HIDE DEF Good
  <2> QED
    BY <1>1, <1>10, <1>11, StepsKeep
<1> DEFINE last == rounds[N]
<1>13. Settling(order, found, N, last)
  BY <1>10, <1>12
<1> HIDE DEF last
<1>14. /\ last.left \in Seq(Manifests \cap found) /\ Admissible(last.active, Isolate)
       /\ ManifestsIn(last.active) \subseteq found
       /\ \A i \in DOMAIN order :
            CoordinateOf[order[i]] \in DOMAIN last.active \/ IsIn(order[i], last.left)
  BY <1>13 DEF Settling, Fine, Rounds
<1>15. Stuck(last)
  <2>1. CASE Len(last.left) <= Len(order) - N
    <3>1. Len(last.left) = 0
      BY <1>1, <1>14, <2>1 DEF N
    <3>2. DOMAIN last.left = {}
      BY <1>14, <3>1
    <3> QED
      BY <3>2 DEF Stuck
  <2> QED
    BY <1>13, <2>1 DEF Settling
<1>16. \A i \in DOMAIN order : CoordinateOf[order[i]] \notin DOMAIN last.active =>
         ~Admissible(With(last.active, order[i]), Isolate)
  BY <1>14, <1>15 DEF Stuck, IsIn
<1> QED
  BY <1>8, <1>14, <1>16 DEF last

-----------------------------------------------------------------------------
(* What was read when the inputs had been edited so often: what they are,  *)
(* unless they have been edited since.                                     *)
ReadAt(edits, found, off) ==
  /\ edits \in Nat /\ edits <= source.edits
  /\ edits = source.edits => found = Discovered(source.files) \ Malformed /\ off = source.off

(* And of the pointers, when they had moved so often.                      *)
PrintedAt(moves, pointers) ==
  /\ moves \in Nat /\ moves <= source.moves
  /\ moves = source.moves => pointers = source.pointers

Snapshot(s) == s = [built |-> s.built, observed |-> s.observed, found |-> s.found, off |-> s.off,
                    pointers |-> s.pointers, crossed |-> s.crossed, active |-> s.active]
Maximal(s) ==
  /\ Admissible(s.active, Isolate) /\ ManifestsIn(s.active) \subseteq s.found
  /\ \A m \in ToSet(Wanted(s.found, s.off, s.pointers)) :
       CoordinateOf[m] \notin DOMAIN s.active => ~Admissible(With(s.active, m), Isolate)

SourceShaped == source = [files |-> source.files, off |-> source.off, pointers |-> source.pointers,
                          edits |-> source.edits, moves |-> source.moves]
RefreshSound ==
  /\ refresh.pc \in {"idle", "printed", "discovered"}
  /\ refresh.pc = "printed" => refresh.print.edits \in Nat /\ refresh.print.edits <= source.edits
  /\ refresh.pc = "discovered" => ReadAt(refresh.print.edits, refresh.found, refresh.off)
  /\ refresh.pc \in {"printed", "discovered"} =>
       PrintedAt(refresh.moves, refresh.print.pointers)
MonitorSound ==
  /\ monitor = [snapshot |-> monitor.snapshot, print |-> monitor.print, next |-> monitor.next]
  /\ monitor.snapshot.built =>
       /\ Snapshot(monitor.snapshot) /\ Maximal(monitor.snapshot)
       /\ ReadAt(monitor.print.edits, monitor.snapshot.found, monitor.snapshot.off)
       /\ monitor.snapshot.pointers = monitor.print.pointers \/ monitor.snapshot.crossed
CatalogInv ==
  /\ SourceShaped /\ source.edits \in Nat /\ source.moves \in Nat /\ RefreshSound /\ MonitorSound
  /\ offered.forced /\ offered.failed => offered.status = "stale"

(* What was read stays as it is said to be, whatever the environment does. *)
LEMMA ReadAtKept ==
  ASSUME SourceShaped, source.edits \in Nat,
         \/ source'.edits = source.edits + 1
         \/ source'.edits = source.edits /\ source'.files = source.files /\ source'.off = source.off,
         NEW edits, NEW found, NEW off, ReadAt(edits, found, off)
  PROVE  /\ edits \in Nat /\ edits <= source'.edits
         /\ edits = source'.edits => found = Discovered(source'.files) \ Malformed /\ off = source'.off
  BY DEF ReadAt

LEMMA SourceMoves ==
  ASSUME CatalogInv, SourceShaped', UNCHANGED <<monitor, refresh, offered>>,
         \/ source'.edits = source.edits + 1
         \/ source'.edits = source.edits /\ source'.files = source.files /\ source'.off = source.off,
         \/ source'.moves = source.moves + 1
         \/ source'.moves = source.moves /\ source'.pointers = source.pointers
  PROVE  CatalogInv'
<1>1. /\ SourceShaped /\ source.edits \in Nat /\ source.moves \in Nat /\ RefreshSound /\ MonitorSound
      /\ offered.forced /\ offered.failed => offered.status = "stale"
  BY DEF CatalogInv
<1>2. ASSUME NEW edits, NEW found, NEW off, ReadAt(edits, found, off)
      PROVE  /\ edits \in Nat /\ edits <= source'.edits
             /\ edits = source'.edits =>
                  found = Discovered(source'.files) \ Malformed /\ off = source'.off
  BY <1>1, <1>2, ReadAtKept
<1>3. source'.edits \in Nat /\ source.edits <= source'.edits /\ source'.moves \in Nat
  BY <1>1
<1>4. RefreshSound'
  <2>1. refresh' = refresh
    OBVIOUS
  <2>2. refresh.pc = "printed" => refresh.print.edits \in Nat /\ refresh.print.edits <= source'.edits
    BY <1>1, <1>3 DEF RefreshSound
  <2>3. refresh.pc = "discovered" => ReadAt(refresh.print.edits, refresh.found, refresh.off)
    BY <1>1 DEF RefreshSound
  <2>4. refresh.pc = "discovered" => ReadAt(refresh.print.edits, refresh.found, refresh.off)'
    BY <1>2, <2>1, <2>3 DEF ReadAt
  <2>5. refresh.pc \in {"printed", "discovered"} => PrintedAt(refresh.moves, refresh.print.pointers)'
    BY <1>1, <2>1 DEF RefreshSound, PrintedAt
  <2> QED
    BY <1>1, <2>1, <2>2, <2>4, <2>5 DEF RefreshSound
<1>5. MonitorSound'
  <2>1. monitor' = monitor
    OBVIOUS
  <2>2. monitor.snapshot.built =>
          ReadAt(monitor.print.edits, monitor.snapshot.found, monitor.snapshot.off)'
    BY <1>1, <1>2, <2>1 DEF ReadAt, MonitorSound
  <2> QED
    BY <1>1, <2>1, <2>2 DEF MonitorSound
<1> QED
  BY <1>1, <1>3, <1>4, <1>5 DEF CatalogInv

LEMMA CatalogStarts ==
  ASSUME CatalogInit
  PROVE  CatalogInv
<1>1. /\ source \in InitialSources
      /\ monitor = [snapshot |-> Unbuilt, print |-> "", next |-> 0]
      /\ refresh = [pc |-> "idle"] /\ offered = NotServed
  BY DEF CatalogInit
<1>2. SourceShaped /\ source.edits \in Nat /\ source.moves \in Nat
  <2>1. /\ source = [files |-> source.files, off |-> {}, pointers |-> source.pointers,
                     edits |-> 0, moves |-> source.moves]
        /\ source.moves \in Nat
    BY <1>1, SourcesAssumption
  <2>2. source.off = {} /\ source.edits = 0
    BY <2>1
  <2> QED
    BY <2>1, <2>2 DEF SourceShaped
<1>3. RefreshSound
  BY <1>1 DEF RefreshSound
<1>4. MonitorSound
  BY <1>1 DEF MonitorSound, Unbuilt
<1> QED
  BY <1>1, <1>2, <1>3, <1>4 DEF CatalogInv, NotServed

LEMMA BuildKeeps ==
  ASSUME CatalogInv, Build
  PROVE  CatalogInv'
<1> DEFINE act == ActiveOf(refresh.found, refresh.off, source.pointers)
<1>1. /\ refresh.pc = "discovered" /\ refresh' = [pc |-> "idle"] /\ source' = source
      /\ monitor' = [print |-> refresh.print, next |-> tick + Interval,
                     snapshot |-> [built |-> TRUE, observed |-> tick, found |-> refresh.found,
                                   off |-> refresh.off, pointers |-> source.pointers,
                                   crossed |-> source.moves # refresh.moves, active |-> act]]
      /\ offered'.failed = FALSE
  BY DEF Build, KeptPrint, Serve
<1>2. /\ SourceShaped /\ source.edits \in Nat /\ source.moves \in Nat
      /\ ReadAt(refresh.print.edits, refresh.found, refresh.off)
      /\ PrintedAt(refresh.moves, refresh.print.pointers)
  BY <1>1 DEF CatalogInv, RefreshSound
<1>3. PICK order : order = Wanted(refresh.found, refresh.off, source.pointers)
  OBVIOUS
<1>4. order \in Seq(Manifests \cap refresh.found) /\ act = Activation(order)
  BY <1>3, WantedFacts DEF ActiveOf
<1> HIDE DEF act
<1>5. /\ Admissible(act, Isolate) /\ ManifestsIn(act) \subseteq refresh.found
      /\ \A i \in DOMAIN order : CoordinateOf[order[i]] \notin DOMAIN act =>
           ~Admissible(With(act, order[i]), Isolate)
  BY <1>4, ActivationFacts
<1>6. PICK s : s = [built |-> TRUE, observed |-> tick, found |-> refresh.found,
                    off |-> refresh.off, pointers |-> source.pointers,
                    crossed |-> source.moves # refresh.moves, active |-> act]
  OBVIOUS
<1>7. /\ s.found = refresh.found /\ s.off = refresh.off /\ s.pointers = source.pointers
      /\ s.active = act /\ s.crossed = (source.moves # refresh.moves) /\ Snapshot(s)
  BY <1>6 DEF Snapshot
<1>8. Maximal(s)
  <2>1. ToSet(order) = {order[i] : i \in DOMAIN order}
    BY DEF ToSet
  <2> QED
    BY <1>3, <1>5, <1>7, <2>1 DEF Maximal
<1>9. monitor' = [print |-> refresh.print, next |-> tick + Interval, snapshot |-> s]
  BY <1>1, <1>6
<1>10. monitor'.snapshot = s /\ monitor'.print = refresh.print
       /\ monitor' = [snapshot |-> monitor'.snapshot, print |-> monitor'.print,
                      next |-> monitor'.next]
  BY <1>9
<1>11. MonitorSound'
  <2>1. s.pointers = refresh.print.pointers \/ s.crossed
    BY <1>2, <1>7 DEF PrintedAt
  <2> QED
    BY <1>1, <1>2, <1>7, <1>8, <1>10, <2>1 DEF MonitorSound, ReadAt
<1>12. RefreshSound'
  BY <1>1 DEF RefreshSound
<1> QED
  BY <1>1, <1>2, <1>11, <1>12 DEF CatalogInv, SourceShaped

LEMMA CatalogInductive ==
  ASSUME CatalogInv, [CatalogNext]_catalog
  PROVE  CatalogInv'
<1>0. /\ SourceShaped /\ source.edits \in Nat /\ source.moves \in Nat /\ RefreshSound /\ MonitorSound
      /\ offered.forced /\ offered.failed => offered.status = "stale"
  BY DEF CatalogInv
<1>1. CASE UNCHANGED catalog
  BY <1>0, <1>1 DEF catalog, CatalogInv, SourceShaped, RefreshSound, MonitorSound, ReadAt, PrintedAt
<1>2. ASSUME NEW m \in Manifests, EditFile(m) PROVE CatalogInv'
  <2>1. /\ source'.edits = source.edits + 1 /\ SourceShaped'
        /\ source'.moves = source.moves /\ source'.pointers = source.pointers
    BY <1>0, <1>2 DEF EditFile, SourceShaped
  <2> QED
    BY <1>2, <2>1, SourceMoves DEF EditFile
<1>3. ASSUME NEW c \in Coordinates, NEW m \in Manifests, MovePointer(c, m) PROVE CatalogInv'
  <2>1. /\ source'.edits = source.edits /\ source'.files = source.files
        /\ source'.off = source.off /\ source'.moves = source.moves + 1 /\ SourceShaped'
    BY <1>0, <1>3 DEF MovePointer, SourceShaped
  <2> QED
    BY <1>3, <2>1, SourceMoves DEF MovePointer
<1>4. ASSUME NEW c \in Coordinates, NEW off \in BOOLEAN, SetLifecycle(c, off) PROVE CatalogInv'
  <2>1. /\ source'.edits = source.edits + 1 /\ SourceShaped'
        /\ source'.moves = source.moves /\ source'.pointers = source.pointers
    BY <1>0, <1>4 DEF SetLifecycle, SourceShaped
  <2> QED
    BY <1>4, <2>1, SourceMoves DEF SetLifecycle
<1>5. ASSUME CatalogTick PROVE CatalogInv'
  BY <1>0, <1>5 DEF CatalogTick, CatalogInv, SourceShaped, RefreshSound, MonitorSound, ReadAt, PrintedAt
<1>6. ASSUME NEW forced \in BOOLEAN, StartCheck(forced) PROVE CatalogInv'
  <2>1. /\ refresh' = [pc |-> "printed", forced |-> forced, print |-> Fingerprint,
                       moves |-> source.moves]
        /\ UNCHANGED <<source, monitor, offered>>
    BY <1>6 DEF StartCheck
  <2>2. /\ refresh'.pc = "printed" /\ refresh'.print.edits = source.edits
        /\ refresh'.print.pointers = source.pointers /\ refresh'.moves = source.moves
    BY <2>1 DEF Fingerprint
  <2>3. RefreshSound'
    BY <1>0, <2>1, <2>2 DEF RefreshSound, PrintedAt
  <2>4. MonitorSound'
    BY <1>0, <2>1 DEF MonitorSound, ReadAt
  <2> QED
    BY <1>0, <2>1, <2>3, <2>4 DEF CatalogInv, SourceShaped
<1>7. ASSUME ServeCached PROVE CatalogInv'
  <2>1. /\ refresh.pc = "idle" /\ UNCHANGED <<source, monitor, refresh>>
        /\ offered'.forced = (offered.failed /\ refresh.pc # "idle" /\ refresh.forced)
    BY <1>7 DEF ServeCached, Serve
  <2>2. ~offered'.forced
    BY <2>1
  <2>3. RefreshSound' /\ MonitorSound'
    BY <1>0, <2>1 DEF RefreshSound, MonitorSound, ReadAt, PrintedAt
  <2> QED
    BY <1>0, <2>1, <2>2, <2>3 DEF CatalogInv, SourceShaped
<1>8. ASSUME Revalidate PROVE CatalogInv'
  <2>1. /\ monitor.snapshot.built /\ refresh' = [pc |-> "idle"] /\ UNCHANGED source
        /\ monitor' = [monitor EXCEPT !.snapshot.observed = tick, !.next = tick + Interval]
        /\ offered'.failed = FALSE
    BY <1>8 DEF Revalidate, Serve
  <2>2. PICK s : s = [monitor.snapshot EXCEPT !.observed = tick]
    OBVIOUS
  <2>3. monitor' = [snapshot |-> s, print |-> monitor.print, next |-> tick + Interval]
    BY <1>0, <2>1, <2>2 DEF MonitorSound
  <2>4. /\ Snapshot(monitor.snapshot) /\ Maximal(monitor.snapshot)
        /\ ReadAt(monitor.print.edits, monitor.snapshot.found, monitor.snapshot.off)
        /\ monitor.snapshot.pointers = monitor.print.pointers \/ monitor.snapshot.crossed
    BY <1>0, <2>1 DEF MonitorSound
  <2>5. /\ s.found = monitor.snapshot.found /\ s.off = monitor.snapshot.off
        /\ s.pointers = monitor.snapshot.pointers /\ s.active = monitor.snapshot.active
        /\ s.crossed = monitor.snapshot.crossed /\ Snapshot(s)
    <3>1. PICK w : w = monitor.snapshot
      OBVIOUS
    <3>2. /\ w = [built |-> w.built, observed |-> w.observed, found |-> w.found, off |-> w.off,
                  pointers |-> w.pointers, crossed |-> w.crossed, active |-> w.active]
          /\ s = [w EXCEPT !.observed = tick]
      BY <2>2, <2>4, <3>1 DEF Snapshot
    <3>3. s = [built |-> w.built, observed |-> tick, found |-> w.found, off |-> w.off,
               pointers |-> w.pointers, crossed |-> w.crossed, active |-> w.active]
      BY ONLY <3>2
    <3>4. /\ s.built = w.built /\ s.observed = tick /\ s.found = w.found /\ s.off = w.off
          /\ s.pointers = w.pointers /\ s.crossed = w.crossed /\ s.active = w.active
      BY ONLY <3>3
    <3> QED
      BY <3>1, <3>3, <3>4 DEF Snapshot
  <2>6. Maximal(s)
    BY <2>4, <2>5 DEF Maximal
  <2>7. MonitorSound'
    <3>1. /\ monitor'.snapshot = s /\ monitor'.print = monitor.print
          /\ monitor' = [snapshot |-> monitor'.snapshot, print |-> monitor'.print,
                         next |-> monitor'.next]
      BY <2>3
    <3>2. Maximal(monitor'.snapshot) /\ Snapshot(monitor'.snapshot)
      BY <2>5, <2>6, <3>1
    <3>3. Maximal(monitor.snapshot)' /\ Snapshot(monitor.snapshot)'
      BY <3>2 DEF Maximal, Snapshot
    <3>4. ReadAt(monitor.print.edits, monitor.snapshot.found, monitor.snapshot.off)'
      BY <2>1, <2>4, <2>5, <3>1 DEF ReadAt
    <3>5. monitor'.snapshot.pointers = monitor'.print.pointers \/ monitor'.snapshot.crossed
      BY <2>4, <2>5, <3>1
    <3> QED
      BY <3>1, <3>3, <3>4, <3>5 DEF MonitorSound
  <2>8. RefreshSound'
    BY <2>1 DEF RefreshSound
  <2> QED
    BY <1>0, <2>1, <2>7, <2>8 DEF CatalogInv, SourceShaped
<1>9. ASSUME Discover PROVE CatalogInv'
  <2>1. /\ refresh.pc = "printed" /\ UNCHANGED <<source, monitor, offered>>
        /\ refresh' = [pc |-> "discovered", forced |-> refresh.forced, print |-> refresh.print,
                       moves |-> refresh.moves, found |-> Discovered(source.files) \ Malformed, off |-> source.off]
    BY <1>9 DEF Discover
  <2>2. RefreshSound'
    BY <1>0, <2>1 DEF RefreshSound, ReadAt, PrintedAt
  <2>3. MonitorSound'
    BY <1>0, <2>1 DEF MonitorSound, ReadAt
  <2> QED
    BY <1>0, <2>1, <2>2, <2>3 DEF CatalogInv, SourceShaped
<1>10. ASSUME Build PROVE CatalogInv'
  BY <1>10, BuildKeeps
<1>11. ASSUME FailRefresh PROVE CatalogInv'
  <2>1. /\ monitor' = [monitor EXCEPT !.next = tick + Interval] /\ refresh' = [pc |-> "idle"]
        /\ UNCHANGED source
        /\ offered'.status = "stale" \/ offered' = NotServed
    BY <1>11 DEF FailRefresh, Serve
  <2>2. monitor' = [snapshot |-> monitor.snapshot, print |-> monitor.print, next |-> tick + Interval]
    BY <1>0, <2>1 DEF MonitorSound
  <2>3. MonitorSound'
    BY <1>0, <2>1, <2>2 DEF MonitorSound, ReadAt
  <2>4. RefreshSound'
    BY <2>1 DEF RefreshSound
  <2> QED
    BY <1>0, <2>1, <2>3, <2>4 DEF CatalogInv, SourceShaped, NotServed
<1> QED
  BY <1>1, <1>2, <1>3, <1>4, <1>5, <1>6, <1>7, <1>8, <1>9, <1>10, <1>11 DEF CatalogNext

LEMMA CatalogInvMeans ==
  ASSUME CatalogInv
  PROVE  CatalogIsHonest
<1>1. SnapshotIsCurrent
  BY DEF CatalogInv, MonitorSound, ReadAt, SnapshotIsCurrent, Fingerprint
<1>2. ActivationIsMaximal
  BY Zenon DEF CatalogInv, MonitorSound, Maximal, ActivationIsMaximal
<1>3. ForcedIsHonest
  <2> SUFFICES ASSUME offered.forced, offered.failed
               PROVE  /\ offered.status = "stale" /\ Decision("lifecycle") = "deny"
                      /\ Decision("search") # "deny" => tick - offered.observed <= LastGood
    BY DEF ForcedIsHonest
  <2>1. offered.status = "stale"
    BY DEF CatalogInv
  <2>2. Effective = "stale" /\ ObservedAt = offered.observed
    BY <2>1 DEF Effective, ObservedAt
  <2> QED
    BY <2>1, <2>2 DEF Decision
<1> QED
  BY <1>1, <1>2, <1>3 DEF CatalogIsHonest

(* However files, states and pointers change around a refresh, a snapshot  *)
(* whose fingerprint is that of the inputs was built from them, but for    *)
(* pointers that moved away and back during the build; what it             *)
(* activates is admissible and cannot be extended, and a forced check that *)
(* failed is served as stale (local_catalog.py, local_runtime.py,          *)
(* degraded.py).                                                           *)
THEOREM CatalogIsHonestHolds == CatalogSpec => []CatalogIsHonest
<1>1. CatalogInit => CatalogInv
  BY CatalogStarts
<1>2. CatalogInv /\ [CatalogNext]_catalog => CatalogInv'
  BY CatalogInductive
<1>3. CatalogInv => CatalogIsHonest
  BY CatalogInvMeans
<1> QED
  BY <1>1, <1>2, <1>3, PTL DEF CatalogSpec

-----------------------------------------------------------------------------
(* Inclusion and consistency proofs.  A walk that ends at the root is      *)
(* followed down again: hashes do not collide, so each of its nodes is the *)
(* hash of a part of the tree, and the index (for inclusion) or the part   *)
(* that two trees share (for consistency) says of which.  That the proof   *)
(* of the RFC is accepted is shown upwards, by induction over how many     *)
(* entries a part of the tree has.                                         *)

(* Induction, stated of a set.                                             *)
LEMMA InductiveSet ==
  ASSUME NEW A, 0 \in A, \A n \in Nat : n \in A => n + 1 \in A
  PROVE  \A n \in Nat : n \in A
<1> DEFINE B == {n \in Nat : n \notin A}
<1> HIDE DEF B
<1>0. ASSUME B = {} PROVE \A n \in Nat : n \in A
  BY <1>0 DEF B
<1> SUFFICES ASSUME B # {} PROVE FALSE
  BY <1>0
<1>1. PICK k \in B : \A j \in B : <<j, k>> \notin OpToRel(<, Nat)
  <2>1. B \in SUBSET Nat
    BY DEF B
  <2> QED
    BY <2>1, NatLessThanWellFounded, WFMin, Zenon
<1>2. k \in Nat /\ k \notin A
  BY DEF B
<1>3. k # 0
  BY <1>2
<1>4. k - 1 \in Nat /\ k - 1 < k /\ (k - 1) + 1 = k
  BY <1>2, <1>3
<1>5. k - 1 \notin B
  BY <1>1, <1>2, <1>4 DEF OpToRel
<1>6. k - 1 \in A
  BY <1>4, <1>5 DEF B
<1> QED
  BY <1>2, <1>4, <1>6

-----------------------------------------------------------------------------
(* Powers of two.                                                          *)
LEMMA PowerExists ==
  /\ PowerOf2 \in [Positions -> Nat]
  /\ PowerOf2[0] = 1
  /\ \A l \in Sizes : PowerOf2[l] = 2 * PowerOf2[l - 1]
<1> DEFINE step == [x \in (1..LargestTree) \X Nat |-> 2 * x[2]]
           Doubling(f) == f = [level \in Positions |-> IF level = 0 THEN 1 ELSE 2 * f[level - 1]]
<1>1. LargestTree \in Nat /\ Positions = 0..LargestTree /\ Sizes = 1..LargestTree
  BY MerkleAssumption DEF Positions, Sizes
<1>2. IsStep(step, LargestTree, Nat)
  BY <1>1 DEF IsStep
<1>3. \A n \in 1..LargestTree, s \in Nat : step[n, s] = 2 * s
  OBVIOUS
<1> HIDE DEF step
<1>4. \E f : Doubling(f)
  <2>1. PICK f : IsRecursion(f, 1, step, LargestTree, Nat)
    BY <1>1, <1>2, StepsExist
  <2>2. \A n \in Positions : f[n] = IF n = 0 THEN 1 ELSE 2 * f[n - 1]
    <3> SUFFICES ASSUME NEW n \in Positions, n # 0 PROVE f[n] = 2 * f[n - 1]
      BY <2>1 DEF IsRecursion
    <3>1. n \in 1..LargestTree /\ n - 1 \in 0..LargestTree
      BY <1>1
    <3> QED
      BY <1>3, <2>1, <3>1 DEF IsRecursion
  <2>3. f = [n \in Positions |-> f[n]]
    BY <1>1, <2>1 DEF IsRecursion
  <2> QED
    BY <2>2, <2>3, Zenon
<1>5. Doubling(PowerOf2)
  <2>1. PowerOf2 = CHOOSE f : Doubling(f)
    BY Zenon DEF PowerOf2
  <2> QED
    BY <1>4, <2>1, Zenon
<1>6. /\ DOMAIN PowerOf2 = Positions /\ PowerOf2[0] = 1
      /\ \A l \in Sizes : PowerOf2[l] = 2 * PowerOf2[l - 1]
  <2>1. DOMAIN PowerOf2 = Positions
    BY <1>5
  <2>2. \A l \in Positions : PowerOf2[l] = IF l = 0 THEN 1 ELSE 2 * PowerOf2[l - 1]
    BY <1>5, Zenon
  <2> QED
    BY <1>1, <2>1, <2>2
<1> DEFINE A == {n \in Nat : n \in Positions => PowerOf2[n] \in Nat}
<1>7. \A n \in Nat : n \in A
  <2>1. 0 \in A
    BY <1>6
  <2>2. \A n \in Nat : n \in A => n + 1 \in A
    <3> SUFFICES ASSUME NEW n \in A, n + 1 \in Positions PROVE PowerOf2[n + 1] \in Nat
      BY DEF A
    <3>1. n \in Nat /\ n \in Positions /\ n + 1 \in Sizes /\ (n + 1) - 1 = n
      BY <1>1
    <3> QED
      BY <1>6, <3>1
  <2> HIDE DEF A
  <2> QED
    BY <2>1, <2>2, InductiveSet
<1>8. PowerOf2 = [l \in Positions |-> PowerOf2[l]]
  BY <1>5
<1>9. \A l \in Positions : PowerOf2[l] \in Nat
  BY <1>1, <1>7
<1> QED
  BY <1>6, <1>8, <1>9

LEMMA PowerOrder ==
  /\ \A l \in Positions : PowerOf2[l] \in Nat /\ l < PowerOf2[l]
  /\ \A l \in Positions : l + 1 \in Positions => PowerOf2[l + 1] = 2 * PowerOf2[l]
  /\ \A l, m \in Positions : l < m => 2 * PowerOf2[l] <= PowerOf2[m]
<1>1. LargestTree \in Nat /\ Positions = 0..LargestTree /\ Sizes = 1..LargestTree
  BY MerkleAssumption DEF Positions, Sizes
<1>2. \A l \in Positions : PowerOf2[l] \in Nat
  BY PowerExists
<1>3. \A l \in Positions : l + 1 \in Positions => PowerOf2[l + 1] = 2 * PowerOf2[l]
  <2> SUFFICES ASSUME NEW l \in Positions, l + 1 \in Positions
               PROVE  PowerOf2[l + 1] = 2 * PowerOf2[l]
    OBVIOUS
  <2>1. l + 1 \in Sizes /\ (l + 1) - 1 = l
    BY <1>1
  <2> QED
    BY <2>1, PowerExists
<1> DEFINE A == {n \in Nat : n \in Positions => n < PowerOf2[n]}
           C == {n \in Nat : n \in Positions =>
                   \A l \in Positions : l < n => 2 * PowerOf2[l] <= PowerOf2[n]}
<1>4. \A n \in Nat : n \in A
  <2>1. 0 \in A
    BY PowerExists
  <2>2. \A n \in Nat : n \in A => n + 1 \in A
    BY <1>1, <1>2, <1>3
  <2> HIDE DEF A
  <2> QED
    BY <2>1, <2>2, InductiveSet
<1>5. \A n \in Nat : n \in C
  <2>1. 0 \in C
    BY <1>1
  <2>2. \A n \in Nat : n \in C => n + 1 \in C
    <3> SUFFICES ASSUME NEW n \in Nat, n \in C, n + 1 \in Positions,
                        NEW l \in Positions, l < n + 1
                 PROVE  2 * PowerOf2[l] <= PowerOf2[n + 1]
      OBVIOUS
    <3>1. n \in Positions /\ PowerOf2[n + 1] = 2 * PowerOf2[n]
      BY <1>1, <1>3
    <3>2. l = n \/ l < n
      BY <1>1
    <3>3. l < n => 2 * PowerOf2[l] <= PowerOf2[n]
      BY <3>1
    <3> QED
      BY <1>2, <3>1, <3>2, <3>3
  <2> HIDE DEF C
  <2> QED
    BY <2>1, <2>2, InductiveSet
<1> QED
  BY <1>1, <1>2, <1>3, <1>4, <1>5

(* A split is the largest power below.                                     *)
LEMMA SplitIs ==
  ASSUME NEW l \in Positions, NEW n \in Nat, PowerOf2[l] < n, n <= 2 * PowerOf2[l]
  PROVE  Split(n) = PowerOf2[l]
<1>1. LargestTree \in Nat /\ Positions = 0..LargestTree
  BY MerkleAssumption DEF Positions
<1>2. \A m \in Positions : PowerOf2[m] < n /\ n <= 2 * PowerOf2[m] => m = l
  <2> SUFFICES ASSUME NEW m \in Positions, PowerOf2[m] < n, n <= 2 * PowerOf2[m], m # l PROVE FALSE
    OBVIOUS
  <2>1. m < l \/ l < m
    BY <1>1
  <2> QED
    BY <2>1, PowerOrder
<1> DEFINE Ends(k) == k < n /\ n <= 2 * k
<1>3. \E k \in {PowerOf2[m] : m \in Positions} : Ends(k)
  OBVIOUS
<1>4. \A k \in {PowerOf2[m] : m \in Positions} : Ends(k) => k = PowerOf2[l]
  BY <1>2
<1>5. Split(n) = CHOOSE k \in {PowerOf2[m] : m \in Positions} : Ends(k)
  BY DEF Split
<1> HIDE DEF Ends
<1> QED
  BY <1>3, <1>4, <1>5, Zenon

LEMMA SplitFacts ==
  ASSUME NEW n \in 2..LargestTree
  PROVE  \E l \in Positions : /\ l + 1 \in Positions
                              /\ Split(n) = PowerOf2[l]
                              /\ PowerOf2[l] < n /\ n <= 2 * PowerOf2[l]
<1>1. LargestTree \in Nat /\ Positions = 0..LargestTree
  BY MerkleAssumption DEF Positions
<1> DEFINE A == {k \in Nat : k \in Positions /\ PowerOf2[k] < n}
<1>2. 0 \in A
  BY <1>1, PowerExists
<1>3. PICK k \in Nat : k \in A /\ k + 1 \notin A
  <2>1. LargestTree \notin A
    BY <1>1, PowerOrder
  <2> HIDE DEF A
  <2> QED
    BY <1>1, <1>2, <2>1, InductiveSet
<1>4. k \in Positions /\ k + 1 \in Positions
  <2>1. k < PowerOf2[k] /\ PowerOf2[k] < n
    BY <1>3, PowerOrder
  <2> QED
    BY <1>1, <1>3, <2>1, PowerOrder
<1>5. PowerOf2[k] < n /\ n <= 2 * PowerOf2[k]
  BY <1>1, <1>3, <1>4, PowerOrder
<1> QED
  BY <1>4, <1>5, SplitIs

LEMMA SplitHalves ==
  ASSUME NEW n \in 2..LargestTree
  PROVE  Split(n) \in Nat /\ 0 < Split(n) /\ Split(n) < n /\ n <= 2 * Split(n)
<1>1. PICK l \in Positions : Split(n) = PowerOf2[l] /\ PowerOf2[l] < n /\ n <= 2 * PowerOf2[l]
  BY SplitFacts
<1> QED
  BY <1>1, PowerOrder

-----------------------------------------------------------------------------
(* Trees.                                                                  *)
TreeStep(f, x) ==
  IF x[3] <= x[2] + 1 THEN LeafHash(Entry(x[1], x[2]))
  ELSE NodeHash(f[<<x[1], x[2], x[2] + Split(x[3] - x[2])>>],
                f[<<x[1], x[2] + Split(x[3] - x[2]), x[3]>>])

LEMMA MiddleFacts ==
  ASSUME NEW low \in Positions, NEW high \in Positions, low + 1 < high,
         NEW middle, middle = low + Split(high - low)
  PROVE  /\ middle \in Positions /\ low < middle /\ middle < high
         /\ high - middle <= middle - low /\ Split(high - low) = middle - low
<1>1. LargestTree \in Nat /\ Positions = 0..LargestTree
  BY MerkleAssumption DEF Positions
<1>2. high - low \in 2..LargestTree
  BY <1>1
<1> QED
  BY <1>1, <1>2, SplitHalves

LEMMA TreeExists ==
  \A branch \in Branches, low, high \in Positions :
    TreeHash(branch, low, high) =
      IF high <= low + 1 THEN LeafHash(Entry(branch, low))
      ELSE NodeHash(TreeHash(branch, low, low + Split(high - low)),
                    TreeHash(branch, low + Split(high - low), high))
<1>1. LargestTree \in Nat /\ Positions = 0..LargestTree
  BY MerkleAssumption DEF Positions
<1> DEFINE Span(x) == x[3] - x[2]
           Solves(f, n) == f = [x \in Nodes |-> f[x]] /\ \A x \in Nodes : Span(x) <= n => f[x] = TreeStep(f, x)
           A == {n \in Nat : \E f : Solves(f, n)}
<1>2. ASSUME NEW x \in Nodes, NEW f, NEW g, NEW n \in Nat, Span(x) <= n + 1,
             \A y \in Nodes : Span(y) <= n => f[y] = g[y]
      PROVE  TreeStep(f, x) = TreeStep(g, x)
  <2>1. CASE x[3] <= x[2] + 1
    BY <2>1 DEF TreeStep
  <2>2. CASE ~(x[3] <= x[2] + 1)
    <3>1. PICK middle : middle = x[2] + Split(x[3] - x[2])
      OBVIOUS
    <3>2. x[1] \in Branches /\ x[2] \in Positions /\ x[3] \in Positions /\ x[2] + 1 < x[3]
      BY <1>1, <2>2 DEF Nodes
    <3>3. middle \in Positions /\ x[2] < middle /\ middle < x[3]
      BY <3>1, <3>2, MiddleFacts
    <3>4. /\ <<x[1], x[2], middle>> \in Nodes /\ Span(<<x[1], x[2], middle>>) <= n
          /\ <<x[1], middle, x[3]>> \in Nodes /\ Span(<<x[1], middle, x[3]>>) <= n
      BY <1>1, <1>2, <3>2, <3>3 DEF Nodes
    <3>5. /\ f[<<x[1], x[2], middle>>] = g[<<x[1], x[2], middle>>]
          /\ f[<<x[1], middle, x[3]>>] = g[<<x[1], middle, x[3]>>]
      BY <1>2, <3>4
    <3> QED
      BY <2>2, <3>1, <3>5 DEF TreeStep
  <2> QED
    BY <2>1, <2>2
<1> HIDE DEF Solves
<1>3. 0 \in A
  <2> DEFINE f == [x \in Nodes |-> LeafHash(Entry(x[1], x[2]))]
  <2>1. \A x \in Nodes : Span(x) <= 0 => f[x] = TreeStep(f, x)
    <3> SUFFICES ASSUME NEW x \in Nodes, Span(x) <= 0 PROVE f[x] = TreeStep(f, x)
      OBVIOUS
    <3>1. x[3] <= x[2] + 1
      BY <1>1 DEF Nodes
    <3> QED
      BY <3>1 DEF TreeStep
  <2>2. f = [x \in Nodes |-> f[x]]
    OBVIOUS
  <2> HIDE DEF f
  <2> QED
    BY <2>1, <2>2 DEF Solves
<1>4. \A n \in Nat : n \in A => n + 1 \in A
  <2> SUFFICES ASSUME NEW n \in Nat, NEW f, Solves(f, n) PROVE \E g : Solves(g, n + 1)
    OBVIOUS
  <2> DEFINE g == [x \in Nodes |-> IF Span(x) <= n THEN f[x] ELSE TreeStep(f, x)]
  <2>1. \A x \in Nodes : Span(x) <= n => g[x] = f[x] /\ f[x] = TreeStep(f, x)
    BY DEF Solves
  <2>2. \A x \in Nodes : ~(Span(x) <= n) => g[x] = TreeStep(f, x)
    OBVIOUS
  <2>3. g = [x \in Nodes |-> g[x]]
    OBVIOUS
  <2> HIDE DEF g
  <2>4. ASSUME NEW x \in Nodes, Span(x) <= n + 1 PROVE g[x] = TreeStep(g, x)
    <3>1. TreeStep(f, x) = TreeStep(g, x)
      BY <1>2, <2>1, <2>4
    <3> QED
      BY <2>1, <2>2, <3>1
  <2> QED
    BY <2>3, <2>4 DEF Solves
<1>5. PICK f : Solves(f, LargestTree)
  <2> HIDE DEF A
  <2>1. LargestTree \in A
    BY <1>1, <1>3, <1>4, InductiveSet
  <2> QED
    BY <2>1 DEF A
<1>6. \A x \in Nodes : f[x] = TreeStep(f, x)
  <2>1. \A x \in Nodes : Span(x) <= LargestTree
    BY <1>1 DEF Nodes
  <2> QED
    BY <1>5, <2>1 DEF Solves
<1> DEFINE Tree(h) == h = [node \in Nodes |->
                IF node[3] <= node[2] + 1 THEN LeafHash(Entry(node[1], node[2]))
                ELSE NodeHash(h[<<node[1], node[2], node[2] + Split(node[3] - node[2])>>],
                              h[<<node[1], node[2] + Split(node[3] - node[2]), node[3]>>])]
<1>7. Tree(f)
  <2>1. f = [x \in Nodes |-> f[x]]
    BY <1>5 DEF Solves
  <2>2. f = [x \in Nodes |-> TreeStep(f, x)]
    BY <1>6, <2>1, Zenon
  <2> QED
    BY <2>2, Zenon DEF TreeStep
<1>8. Tree(HashOf)
  <2>1. HashOf = CHOOSE h : Tree(h)
    BY Zenon DEF HashOf
  <2> QED
    BY <1>7, <2>1, Zenon
<1>9. \A x \in Nodes : HashOf[x] = TreeStep(HashOf, x)
  BY <1>8, Zenon DEF TreeStep
<1>10. \A branch \in Branches, low, high \in Positions : <<branch, low, high>> \in Nodes
  BY DEF Nodes
<1> QED
  BY <1>9, <1>10 DEF TreeStep, TreeHash

LEMMA HashesDiffer ==
  /\ \A e, l, r : LeafHash(e) # NodeHash(l, r)
  /\ \A l, r, m, s : NodeHash(l, r) = NodeHash(m, s) => l = m /\ r = s
  /\ \A d, e : LeafHash(d) = LeafHash(e) => d = e
  /\ \A e : LeafHash(e) # Invalid
  /\ \A l, r : NodeHash(l, r) # Invalid
<1>1. \A e, l, r : LeafHash(e) # NodeHash(l, r)
  <2> SUFFICES ASSUME NEW e, NEW l, NEW r, <<e>> = <<l, r>> PROVE FALSE
    BY DEF LeafHash, NodeHash
  <2>1. Len(<<e>>) = 1 /\ Len(<<l, r>>) = 2
    OBVIOUS
  <2> QED
    BY <2>1
<1>2. \A e : LeafHash(e) # Invalid
  BY DEF LeafHash, Invalid
<1>3. \A l, r : NodeHash(l, r) # Invalid
  <2> SUFFICES ASSUME NEW l, NEW r, <<l, r>> = <<>> PROVE FALSE
    BY DEF NodeHash, Invalid
  <2>1. Len(<<l, r>>) = 2 /\ Len(<<>>) = 0
    OBVIOUS
  <2> QED
    BY <2>1
<1> QED
  BY <1>1, <1>2, <1>3 DEF LeafHash, NodeHash

LEMMA LeafFacts ==
  ASSUME NEW branch \in Branches, NEW low \in Positions, NEW high \in Positions, high <= low + 1
  PROVE  TreeHash(branch, low, high) = LeafHash(Entry(branch, low))
  BY TreeExists

LEMMA NodeFacts ==
  ASSUME NEW branch \in Branches, NEW low \in Positions, NEW high \in Positions, low + 1 < high,
         NEW middle, middle = low + Split(high - low)
  PROVE  TreeHash(branch, low, high)
           = NodeHash(TreeHash(branch, low, middle), TreeHash(branch, middle, high))
<1>1. ~(high <= low + 1)
  BY MerkleAssumption DEF Positions
<1> QED
  BY <1>1, TreeExists

(* Only a tree of two entries or more has a node for its hash.             *)
LEMMA IsNode ==
  ASSUME NEW branch \in Branches, NEW low \in Positions, NEW high \in Positions,
         NEW left, NEW right, TreeHash(branch, low, high) = NodeHash(left, right),
         NEW middle, middle = low + Split(high - low)
  PROVE  /\ low + 1 < high
         /\ middle \in Positions /\ low < middle /\ middle < high
         /\ high - middle <= middle - low /\ Split(high - low) = middle - low
         /\ left = TreeHash(branch, low, middle) /\ right = TreeHash(branch, middle, high)
<1>1. low + 1 < high
  <2>1. CASE high <= low + 1
    BY <2>1, LeafFacts, HashesDiffer
  <2> QED
    BY <2>1, MerkleAssumption DEF Positions
<1> QED
  BY <1>1, MiddleFacts, NodeFacts, HashesDiffer

Common(b1, b2, low, high) == \A i \in low..(high - 1) : Entry(b1, i) = Entry(b2, i)

(* Hashes do not collide: trees that start at one place and have the same  *)
(* hash are of the same size and have the same entries.                    *)
LEMMA EqualHashes ==
  ASSUME NEW b1 \in Branches, NEW b2 \in Branches, NEW low \in Positions,
         NEW high1 \in Positions, NEW high2 \in Positions, low < high1, low < high2,
         TreeHash(b1, low, high1) = TreeHash(b2, low, high2)
  PROVE  high1 = high2 /\ Common(b1, b2, low, high1)
<1>1. LargestTree \in Nat /\ Positions = 0..LargestTree
  BY MerkleAssumption DEF Positions
<1> DEFINE Claim(lo, h1, h2) ==
             lo < h1 /\ lo < h2 /\ TreeHash(b1, lo, h1) = TreeHash(b2, lo, h2)
               => h1 = h2 /\ Common(b1, b2, lo, h1)
           A == {n \in Nat : \A lo, h1, h2 \in Positions : h1 - lo <= n => Claim(lo, h1, h2)}
<1>2. 0 \in A
  BY <1>1
<1>3. ASSUME NEW n \in Nat, n \in A PROVE n + 1 \in A
  <2> SUFFICES ASSUME NEW lo \in Positions, NEW h1 \in Positions, NEW h2 \in Positions,
                      h1 - lo <= n + 1, lo < h1, lo < h2,
                      TreeHash(b1, lo, h1) = TreeHash(b2, lo, h2)
               PROVE  h1 = h2 /\ Common(b1, b2, lo, h1)
    OBVIOUS
  <2>1. CASE h1 <= lo + 1
    <3>1. TreeHash(b1, lo, h1) = LeafHash(Entry(b1, lo))
      BY <2>1, LeafFacts
    <3>2. h2 <= lo + 1
      <4>1. CASE lo + 1 < h2
        <5>1. PICK m2 : m2 = lo + Split(h2 - lo)
          OBVIOUS
        <5>2. TreeHash(b2, lo, h2) = NodeHash(TreeHash(b2, lo, m2), TreeHash(b2, m2, h2))
          BY <4>1, <5>1, NodeFacts
        <5>3. LeafHash(Entry(b1, lo)) = NodeHash(TreeHash(b2, lo, m2), TreeHash(b2, m2, h2))
          BY <3>1, <5>2
        <5> QED
          BY <5>3, HashesDiffer
      <4> QED
        BY <1>1, <4>1
    <3>3. TreeHash(b2, lo, h2) = LeafHash(Entry(b2, lo))
      BY <3>2, LeafFacts
    <3>4. Entry(b1, lo) = Entry(b2, lo)
      BY <3>1, <3>3, HashesDiffer
    <3>5. h1 = h2 /\ \A i \in lo..(h1 - 1) : i = lo
      BY <1>1, <2>1, <3>2
    <3> QED
      BY <3>4, <3>5 DEF Common
  <2>2. CASE lo + 1 < h1
    <3>1. PICK m1 : m1 = lo + Split(h1 - lo)
      OBVIOUS
    <3>2. PICK m2 : m2 = lo + Split(h2 - lo)
      OBVIOUS
    <3>3. /\ TreeHash(b1, lo, h1) = NodeHash(TreeHash(b1, lo, m1), TreeHash(b1, m1, h1))
          /\ m1 \in Positions /\ lo < m1 /\ m1 < h1
      BY <2>2, <3>1, NodeFacts, MiddleFacts
    <3>4. /\ m2 \in Positions /\ lo < m2 /\ m2 < h2
          /\ TreeHash(b1, lo, m1) = TreeHash(b2, lo, m2)
          /\ TreeHash(b1, m1, h1) = TreeHash(b2, m2, h2)
      <4>1. TreeHash(b2, lo, h2) = NodeHash(TreeHash(b1, lo, m1), TreeHash(b1, m1, h1))
        BY <3>3
      <4> HIDE DEF Claim
      <4> QED
        BY <3>2, <4>1, IsNode
    <3>5. m1 - lo <= n /\ h1 - m1 <= n
      BY <1>1, <3>3
    <3>6. m1 = m2 /\ Common(b1, b2, lo, m1)
      BY <1>3, <3>3, <3>4, <3>5
    <3>7. h1 = h2 /\ Common(b1, b2, m1, h1)
      BY <1>3, <3>3, <3>4, <3>5, <3>6
    <3>8. \A i \in lo..(h1 - 1) : i \in lo..(m1 - 1) \/ i \in m1..(h1 - 1)
      BY <1>1, <3>3
    <3> QED
      BY <3>6, <3>7, <3>8 DEF Common
  <2> QED
    BY <1>1, <2>1, <2>2
<1>4. LargestTree \in A
  <2> HIDE DEF A
  <2> QED
    BY <1>1, <1>2, <1>3, InductiveSet
<1> QED
  BY <1>1, <1>4

-----------------------------------------------------------------------------
(* Paths are sequences of hashes.                                          *)
Hashes == {HashOf[x] : x \in Nodes}
PathStep(f, x) ==
  LET middle == x[1][2] + Split(x[1][3] - x[1][2]) IN
  IF x[1][3] <= x[1][2] + 1 THEN <<>>
  ELSE IF x[2] < middle
    THEN Append(f[<<<<x[1][1], x[1][2], middle>>, x[2]>>], TreeHash(x[1][1], middle, x[1][3]))
    ELSE Append(f[<<<<x[1][1], middle, x[1][3]>>, x[2]>>], TreeHash(x[1][1], x[1][2], middle))

LEMMA IsHash ==
  ASSUME NEW branch \in Branches, NEW low \in Positions, NEW high \in Positions
  PROVE  TreeHash(branch, low, high) \in Hashes
<1>1. <<branch, low, high>> \in Nodes
  BY DEF Nodes
<1> QED
  BY <1>1 DEF Hashes, TreeHash

LEMMA PathFacts ==
  \A x \in Nodes \X Positions :
    PathOf[x] \in Seq(Hashes) /\ Len(PathOf[x]) <= LargestTree
<1>1. LargestTree \in Nat /\ Positions = 0..LargestTree
  BY MerkleAssumption DEF Positions
<1> DEFINE D == Nodes \X Positions
           Span(x) == x[1][3] - x[1][2]
           Solves(f, n) == f = [x \in D |-> f[x]] /\ \A x \in D : Span(x) <= n => f[x] = PathStep(f, x)
           A == {n \in Nat : \E f : Solves(f, n)}
<1>2. ASSUME NEW x \in D, x[1][2] + 1 < x[1][3], NEW n \in Nat, Span(x) <= n + 1,
             NEW middle, middle = x[1][2] + Split(x[1][3] - x[1][2])
      PROVE  /\ <<<<x[1][1], x[1][2], middle>>, x[2]>> \in D
             /\ <<<<x[1][1], middle, x[1][3]>>, x[2]>> \in D
             /\ Span(<<<<x[1][1], x[1][2], middle>>, x[2]>>) <= n
             /\ Span(<<<<x[1][1], middle, x[1][3]>>, x[2]>>) <= n
             /\ TreeHash(x[1][1], middle, x[1][3]) \in Hashes
             /\ TreeHash(x[1][1], x[1][2], middle) \in Hashes
  <2>1. /\ x[1][1] \in Branches /\ x[1][2] \in Positions /\ x[1][3] \in Positions
        /\ x[2] \in Positions
    BY DEF Nodes
  <2>2. middle \in Positions /\ x[1][2] < middle /\ middle < x[1][3]
    BY <1>2, <2>1, MiddleFacts
  <2> QED
    BY <1>1, <1>2, <2>1, <2>2, IsHash DEF Nodes
<1>3. \A x \in D : x[1][3] <= x[1][2] + 1 \/ x[1][2] + 1 < x[1][3]
  BY <1>1 DEF Nodes
<1>4. ASSUME NEW x \in D, NEW f, NEW g, NEW n \in Nat, Span(x) <= n + 1,
             \A y \in D : Span(y) <= n => f[y] = g[y]
      PROVE  PathStep(f, x) = PathStep(g, x)
  <2>1. CASE x[1][3] <= x[1][2] + 1
    BY <2>1 DEF PathStep
  <2>2. CASE x[1][2] + 1 < x[1][3]
    <3>1. PICK middle : middle = x[1][2] + Split(x[1][3] - x[1][2])
      OBVIOUS
    <3>2. /\ f[<<<<x[1][1], x[1][2], middle>>, x[2]>>] = g[<<<<x[1][1], x[1][2], middle>>, x[2]>>]
          /\ f[<<<<x[1][1], middle, x[1][3]>>, x[2]>>] = g[<<<<x[1][1], middle, x[1][3]>>, x[2]>>]
      <4> HIDE DEF D
      <4> QED
        BY <1>2, <1>4, <2>2, <3>1
    <3> QED
      BY <3>1, <3>2 DEF PathStep
  <2> QED
    BY <1>3, <2>1, <2>2
<1> HIDE DEF Solves, D
<1>5. 0 \in A
  <2> DEFINE f == [x \in D |-> <<>>]
  <2>1. \A x \in D : Span(x) <= 0 => f[x] = PathStep(f, x)
    <3> SUFFICES ASSUME NEW x \in D, Span(x) <= 0 PROVE f[x] = PathStep(f, x)
      OBVIOUS
    <3>1. x[1][3] <= x[1][2] + 1
      BY <1>1, <1>3 DEF Nodes, D
    <3> QED
      BY <3>1 DEF PathStep
  <2>2. f = [x \in D |-> f[x]]
    OBVIOUS
  <2> HIDE DEF f
  <2> QED
    BY <2>1, <2>2 DEF Solves
<1>6. \A n \in Nat : n \in A => n + 1 \in A
  <2> SUFFICES ASSUME NEW n \in Nat, NEW f, Solves(f, n) PROVE \E g : Solves(g, n + 1)
    OBVIOUS
  <2> DEFINE g == [x \in D |-> IF Span(x) <= n THEN f[x] ELSE PathStep(f, x)]
  <2>1. \A x \in D : Span(x) <= n => g[x] = f[x] /\ f[x] = PathStep(f, x)
    BY DEF Solves
  <2>2. \A x \in D : ~(Span(x) <= n) => g[x] = PathStep(f, x)
    OBVIOUS
  <2>3. g = [x \in D |-> g[x]]
    OBVIOUS
  <2> HIDE DEF g
  <2>4. ASSUME NEW x \in D, Span(x) <= n + 1 PROVE g[x] = PathStep(g, x)
    <3>1. PathStep(f, x) = PathStep(g, x)
      BY <1>4, <2>1, <2>4
    <3> QED
      BY <2>1, <2>2, <3>1
  <2> QED
    BY <2>3, <2>4 DEF Solves
<1>7. PICK f : Solves(f, LargestTree)
  <2> HIDE DEF A
  <2>1. LargestTree \in A
    BY <1>1, <1>5, <1>6, InductiveSet
  <2> QED
    BY <2>1 DEF A
<1>8. \A x \in D : Span(x) <= LargestTree
  BY <1>1 DEF Nodes, D
<1>9. PathOf = [x \in D |-> PathStep(PathOf, x)]
  <2> DEFINE Tree(h) == h = [x \in D |-> PathStep(h, x)]
  <2>1. Tree(f)
    <3>1. f = [x \in D |-> f[x]] /\ \A x \in D : f[x] = PathStep(f, x)
      BY <1>7, <1>8 DEF Solves
    <3> QED
      BY <3>1, Zenon
  <2>2. PathOf = CHOOSE h : Tree(h)
    BY Zenon DEF PathOf, PathStep, D
  <2> HIDE DEF Tree
  <2>3. Tree(PathOf)
    BY <2>1, <2>2, Zenon
  <2> QED
    BY <2>3 DEF Tree
<1>10. \A x \in D : PathOf[x] = PathStep(PathOf, x)
  BY <1>9, Zenon
<1> DEFINE C == {n \in Nat : \A x \in D : Span(x) <= n => PathOf[x] \in Seq(Hashes) /\ Len(PathOf[x]) <= n}
<1>11. ASSUME NEW x \in D, x[1][3] <= x[1][2] + 1 PROVE PathOf[x] = <<>>
  BY <1>10, <1>11 DEF PathStep
<1>12. 0 \in C
  <2> SUFFICES ASSUME NEW x \in D, Span(x) <= 0 PROVE PathOf[x] \in Seq(Hashes) /\ Len(PathOf[x]) <= 0
    OBVIOUS
  <2>1. x[1][3] <= x[1][2] + 1
    BY <1>1, <1>3 DEF Nodes, D
  <2>2. PathOf[x] = <<>>
    BY <1>11, <2>1
  <2> QED
    BY <2>2
<1>13. ASSUME NEW n \in Nat, n \in C PROVE n + 1 \in C
  <2> SUFFICES ASSUME NEW x \in D, Span(x) <= n + 1
               PROVE  PathOf[x] \in Seq(Hashes) /\ Len(PathOf[x]) <= n + 1
    OBVIOUS
  <2>1. CASE x[1][3] <= x[1][2] + 1
    <3>1. PathOf[x] = <<>>
      BY <1>11, <2>1
    <3> QED
      BY <3>1
  <2>2. CASE x[1][2] + 1 < x[1][3]
    <3>1. PICK middle : middle = x[1][2] + Split(x[1][3] - x[1][2])
      OBVIOUS
    <3>2. ~(x[1][3] <= x[1][2] + 1)
      BY <1>1, <2>2 DEF D, Nodes
    <3>3. \E y \in D, h \in Hashes : Span(y) <= n /\ PathOf[x] = Append(PathOf[y], h)
      <4>1. PathOf[x] = PathStep(PathOf, x)
        BY <1>10
      <4>2. \/ PathOf[x] = Append(PathOf[<<<<x[1][1], x[1][2], middle>>, x[2]>>],
                                 TreeHash(x[1][1], middle, x[1][3]))
            \/ PathOf[x] = Append(PathOf[<<<<x[1][1], middle, x[1][3]>>, x[2]>>],
                                 TreeHash(x[1][1], x[1][2], middle))
        BY <3>1, <3>2, <4>1 DEF PathStep
      <4> QED
        BY <1>2, <2>2, <3>1, <4>2
    <3>4. PICK y \in D, h \in Hashes : Span(y) <= n /\ PathOf[x] = Append(PathOf[y], h)
      BY <3>3
    <3>5. PathOf[y] \in Seq(Hashes) /\ Len(PathOf[y]) <= n
      BY <1>13, <3>4
    <3> QED
      BY <3>4, <3>5
  <2> QED
    BY <1>3, <2>1, <2>2
<1>14. LargestTree \in C
  <2> HIDE DEF C
  <2> QED
    BY <1>1, <1>12, <1>13, InductiveSet
<1> QED
  BY <1>8, <1>14 DEF D

-----------------------------------------------------------------------------
(* Inclusion.                                                              *)
InclusionWalk(walk, entry, index, size, hashes) ==
  /\ walk[0] = [node |-> LeafHash(entry), index |-> index, last |-> size - 1]
  /\ \A n \in 1..Len(hashes) : walk[n] = InclusionStep(walk[n - 1], hashes[n])
  /\ InclusionRoot(entry, index, size, hashes)
       = IF size = 0 \/ index >= size \/ walk[Len(hashes)].last # 0 THEN Invalid
         ELSE walk[Len(hashes)].node

LEMMA InclusionWalkExists ==
  ASSUME NEW entry, NEW index, NEW size, NEW hashes, Len(hashes) \in Nat
  PROVE  \E walk : InclusionWalk(walk, entry, index, size, hashes)
<1> DEFINE start == [node |-> LeafHash(entry), index |-> index, last |-> size - 1]
           N == Len(hashes)
           Walks(f) == f = [n \in 0..N |-> IF n = 0 THEN start ELSE InclusionStep(f[n - 1], hashes[n])]
           Solves(f, k) == /\ f = [n \in 0..N |-> f[n]] /\ f[0] = start
                           /\ \A n \in 1..N : n <= k => f[n] = InclusionStep(f[n - 1], hashes[n])
           A == {k \in Nat : \E f : Solves(f, k)}
<1>1. 0 \in A
  <2> DEFINE f == [n \in 0..N |-> start]
  <2>1. f = [n \in 0..N |-> f[n]] /\ f[0] = start
    OBVIOUS
  <2> HIDE DEF f, start, N
  <2>2. \A n \in 1..N : ~(n <= 0)
    OBVIOUS
  <2>3. Solves(f, 0)
    BY <2>1, <2>2
  <2>4. \E g : Solves(g, 0)
    BY <2>3, Zenon
  <2> HIDE DEF Solves
  <2> QED
    BY <2>4
<1> HIDE DEF start, N
<1>2. N \in Nat
  BY DEF N
<1>3. ASSUME NEW k \in Nat, k \in A PROVE k + 1 \in A
  <2>1. PICK f : Solves(f, k)
    BY <1>3
  <2> DEFINE g == [n \in 0..N |-> IF n = k + 1 THEN InclusionStep(f[k], hashes[n]) ELSE f[n]]
  <2>2. g = [n \in 0..N |-> g[n]] /\ \A n \in 0..N : n # k + 1 => g[n] = f[n]
    OBVIOUS
  <2>3. k + 1 \in 0..N => g[k + 1] = InclusionStep(f[k], hashes[k + 1])
    OBVIOUS
  <2> HIDE DEF g
  <2>4. g[0] = start
    BY <1>2, <2>1, <2>2
  <2>5. ASSUME NEW n \in 1..N, n <= k + 1 PROVE g[n] = InclusionStep(g[n - 1], hashes[n])
    <3>1. n \in 0..N /\ n - 1 \in 0..N /\ n - 1 # k + 1
      BY <1>2, <2>5
    <3>2. g[n - 1] = f[n - 1]
      BY <2>2, <3>1
    <3>3. CASE n = k + 1
      <4>1. n - 1 = k
        BY <3>3
      <4> QED
        BY <2>3, <3>1, <3>2, <3>3, <4>1
    <3>4. CASE n # k + 1
      <4>1. n <= k
        BY <2>5, <3>4
      <4> QED
        BY <2>1, <2>2, <3>1, <3>2, <3>4, <4>1
    <3> QED
      BY <3>3, <3>4
  <2>6. Solves(g, k + 1)
    BY <2>2, <2>4, <2>5
  <2>7. \E h : Solves(h, k + 1)
    BY <2>6, Zenon
  <2> HIDE DEF Solves
  <2> QED
    BY <2>7
<1>4. PICK f : Solves(f, N)
  <2> HIDE DEF A
  <2>1. N \in A
    BY <1>1, <1>2, <1>3, InductiveSet
  <2> QED
    BY <2>1 DEF A
<1>5. Walks(f)
  <2>1. \A n \in 0..N : n # 0 => n \in 1..N /\ n <= N
    BY <1>2
  <2>2. \A n \in 0..N : f[n] = IF n = 0 THEN start ELSE InclusionStep(f[n - 1], hashes[n])
    BY <1>4, <2>1
  <2> QED
    BY <1>4, <2>2, Zenon
<1> DEFINE walk == CHOOSE h : Walks(h)
<1>6. Walks(walk)
  BY <1>5, Zenon
<1>7. InclusionRoot(entry, index, size, hashes)
        = IF size = 0 \/ index >= size \/ walk[N].last # 0 THEN Invalid ELSE walk[N].node
  BY Zenon DEF InclusionRoot, start, N
<1> HIDE DEF walk
<1>8. \A n \in 0..N : walk[n] = IF n = 0 THEN start ELSE InclusionStep(walk[n - 1], hashes[n])
  BY <1>6, Zenon
<1>9. walk[0] = start /\ \A n \in 1..N : walk[n] = InclusionStep(walk[n - 1], hashes[n])
  <2>1. 0 \in 0..N /\ \A n \in 1..N : n \in 0..N /\ n # 0
    BY <1>2
  <2> QED
    BY <1>8, <2>1, Zenon
<1> QED
  BY <1>7, <1>9 DEF InclusionWalk, start, N

(* Products, in the form the shifts need them.                             *)
LEMMA Products ==
  /\ \A i, p \in Nat : i * p \in Nat
  /\ \A i, p \in Nat : i * (2 * p) = (2 * i) * p /\ (2 * i + 1) * p = (2 * i) * p + p
  /\ \A i, j, p \in Nat : i <= j => i * p <= j * p
  /\ \A i, p \in Nat : (i + 1) * p = i * p + p
<1>1. \A i, p \in Nat : i * p \in Nat
  OBVIOUS
<1>2. \A i, p \in Nat : i * (2 * p) = (2 * i) * p /\ (2 * i + 1) * p = (2 * i) * p + p
  OBVIOUS
<1>3. \A i, j, p \in Nat : i <= j => i * p <= j * p
  <2> SUFFICES ASSUME NEW i \in Nat, NEW j \in Nat, NEW p \in Nat, i <= j PROVE i * p <= j * p
    OBVIOUS
  <2>1. PICK d \in Nat : j = i + d
    <3>1. j - i \in Nat /\ j = i + (j - i)
      OBVIOUS
    <3> QED
      BY <3>1
  <2>2. j * p = i * p + d * p
    BY <2>1
  <2> QED
    BY <1>1, <2>2
<1>4. \A i, p \in Nat : (i + 1) * p = i * p + p
  OBVIOUS
<1> QED
  BY <1>1, <1>2, <1>3, <1>4

(* What a number of bits shifted out of x leaves.                          *)
Leaves(x, i, level) == i * PowerOf2[level] <= x /\ x < i * PowerOf2[level] + PowerOf2[level]

LEMMA LeavesHalf ==
  ASSUME NEW x \in Nat, NEW i \in Nat, NEW l \in Positions, l + 1 \in Positions, Leaves(x, i, l)
  PROVE  i \div 2 \in Nat /\ Leaves(x, i \div 2, l + 1)
<1>1. PICK h \in Nat : h = i \div 2 /\ (i = 2 * h \/ i = 2 * h + 1)
  OBVIOUS
<1>2. PowerOf2[l] \in Nat /\ PowerOf2[l + 1] = 2 * PowerOf2[l]
  BY PowerOrder
<1>3. PICK p \in Nat : p = PowerOf2[l]
  BY <1>2
<1>4. PICK q \in Nat : q = (2 * h) * p
  BY <1>3, Products
<1>5. h * (2 * p) = q /\ (i = 2 * h => i * p = q) /\ (i = 2 * h + 1 => i * p = q + p)
  BY <1>4, Products
<1> QED
  BY <1>1, <1>2, <1>3, <1>4, <1>5 DEF Leaves

(* Part of the tree that the walk has come up to after l siblings: as high *)
(* as a tree of so many levels, at the place the index says, or lower.     *)
ClimbedTo(v, branch, size, l) ==
  \E low, high \in Positions :
    /\ low < high /\ high <= size /\ v.node = TreeHash(branch, low, high)
    /\ \/ /\ low = v.index * PowerOf2[l] /\ high <= low + PowerOf2[l]
          /\ high = size \/ high = low + PowerOf2[l]
       \/ l > 0 /\ high - low <= PowerOf2[l - 1]

LEMMA InclusionDown ==
  ASSUME NEW branch \in Branches, NEW size \in Sizes, NEW l \in Positions, l + 1 \in Positions,
         NEW w, w.index \in Nat, w.last \in Nat, Leaves(size - 1, w.last, l),
         NEW sibling, NEW v, v = InclusionStep(w, sibling), ClimbedTo(v, branch, size, l + 1)
  PROVE  ClimbedTo(w, branch, size, l)
<1>1. LargestTree \in Nat /\ Positions = 0..LargestTree /\ Sizes = 1..LargestTree
  BY MerkleAssumption DEF Positions, Sizes
<1>2. PICK low \in Positions, high \in Positions :
        /\ low < high /\ high <= size /\ v.node = TreeHash(branch, low, high)
        /\ \/ /\ low = v.index * PowerOf2[l + 1] /\ high <= low + PowerOf2[l + 1]
              /\ high = size \/ high = low + PowerOf2[l + 1]
           \/ high - low <= PowerOf2[l]
  <2>1. (l + 1) - 1 = l
    BY <1>1
  <2> QED
    BY <2>1 DEF ClimbedTo
<1>3. PICK p \in Nat : p = PowerOf2[l] /\ PowerOf2[l + 1] = 2 * p
  BY PowerOrder
<1>4. /\ v.node = IF Odd(w.index) \/ w.index = w.last
                    THEN NodeHash(sibling, w.node) ELSE NodeHash(w.node, sibling)
      /\ v.index = w.index \div 2
  BY DEF InclusionStep
<1>5. PICK middle : middle = low + Split(high - low)
  OBVIOUS
<1>6. /\ low + 1 < high /\ middle \in Positions /\ low < middle /\ middle < high
      /\ high - middle <= middle - low /\ Split(high - low) = middle - low
      /\ \/ /\ w.node = TreeHash(branch, middle, high)
            /\ Odd(w.index) \/ w.index = w.last
         \/ /\ w.node = TreeHash(branch, low, middle)
            /\ ~(Odd(w.index) \/ w.index = w.last)
  <2>1. CASE Odd(w.index) \/ w.index = w.last
    <3>1. TreeHash(branch, low, high) = NodeHash(sibling, w.node)
      BY <1>2, <1>4, <2>1
    <3> HIDE DEF Odd
    <3> QED
      BY <1>5, <2>1, <3>1, IsNode
  <2>2. CASE ~(Odd(w.index) \/ w.index = w.last)
    <3>1. TreeHash(branch, low, high) = NodeHash(w.node, sibling)
      BY <1>2, <1>4, <2>2
    <3> QED
      BY <1>5, <2>2, <3>1, IsNode
  <2> QED
    BY <2>1, <2>2
<1>7. CASE high - low <= p
  <2>1. l > 0
    <3>1. l # 0
      BY <1>1, <1>2, <1>3, <1>6, <1>7, PowerExists
    <3> QED
      BY <1>1, <3>1
  <2>2. PICK k \in Positions : /\ k + 1 \in Positions /\ Split(high - low) = PowerOf2[k]
                              /\ PowerOf2[k] < high - low
    <3>1. high - low \in 2..LargestTree
      BY <1>1, <1>6
    <3> QED
      BY <3>1, SplitFacts
  <2>3. k < l
    <3>1. PowerOf2[k] \in Nat /\ PowerOf2[k] < p
      <4>1. PowerOf2[k] \in Nat
        BY PowerOrder
      <4> QED
        BY <1>1, <1>3, <1>7, <2>2, <4>1
    <3>2. l < k => 2 * p <= PowerOf2[k]
      BY <1>3, PowerOrder
    <3>3. k # l /\ ~(l < k)
      BY <1>3, <3>1, <3>2
    <3> QED
      BY <1>1, <3>3
  <2>4. l - 1 \in Positions /\ (k = l - 1 \/ k < l - 1)
    BY <1>1, <2>1, <2>3
  <2>5. PowerOf2[k] <= PowerOf2[l - 1]
    BY <2>4, PowerOrder
  <2>6. middle - low <= PowerOf2[l - 1] /\ high - middle <= PowerOf2[l - 1]
    <3>1. PICK r \in Nat : r = PowerOf2[k]
      BY PowerOrder
    <3>2. PICK s \in Nat : s = PowerOf2[l - 1]
      BY <2>4, PowerOrder
    <3> QED
      BY <1>1, <1>6, <2>2, <2>5, <3>1, <3>2
  <2> QED
    BY <1>1, <1>2, <1>6, <2>1, <2>6 DEF ClimbedTo
<1>8. CASE p < high - low
  <2>1. /\ low = v.index * (2 * p) /\ high <= low + 2 * p
        /\ high = size \/ high = low + 2 * p
    BY <1>1, <1>2, <1>3, <1>8
  <2>2. middle = low + p
    <3>1. high - low \in Nat /\ high - low <= 2 * p
      BY <1>1, <1>2, <2>1
    <3>2. Split(high - low) = p
      BY <1>3, <1>8, <3>1, SplitIs
    <3> QED
      BY <1>5, <3>2
  <2>3. PICK h \in Nat : h = w.index \div 2 /\ (w.index = 2 * h \/ (w.index = 2 * h + 1 /\ Odd(w.index)))
    BY DEF Odd
  <2>4. PICK q \in Nat : q = (2 * h) * p
    BY Products
  <2>5. low = q /\ (w.index = 2 * h => w.index * p = q) /\ (w.index = 2 * h + 1 => w.index * p = q + p)
    BY <1>4, <2>1, <2>3, <2>4, Products
  <2>6. CASE w.index = 2 * h + 1
    <3>1. w.node = TreeHash(branch, middle, high) /\ middle = w.index * p
      BY <1>6, <2>2, <2>3, <2>5, <2>6
    <3>2. high <= middle + p /\ (high = size \/ high = middle + p)
      BY <1>1, <2>1, <2>2
    <3> QED
      BY <1>2, <1>3, <1>6, <3>1, <3>2 DEF ClimbedTo
  <2>7. CASE w.index = 2 * h /\ w.index # w.last
    <3>1. w.node = TreeHash(branch, low, middle)
      BY <1>6, <2>7 DEF Odd
    <3>2. /\ low < middle /\ middle <= size /\ low = w.index * PowerOf2[l]
          /\ middle = low + PowerOf2[l]
      BY <1>1, <1>2, <1>3, <1>6, <2>2, <2>5, <2>7
    <3>3. middle <= low + PowerOf2[l]
      BY <1>1, <1>3, <3>2
    <3> QED
      BY <1>6, <3>1, <3>2, <3>3 DEF ClimbedTo
  <2>8. CASE w.index = 2 * h /\ w.index = w.last
    <3>1. size - 1 < q + p
      BY <1>3, <2>5, <2>8 DEF Leaves
    <3> QED
      BY <1>1, <1>2, <1>6, <2>2, <2>5, <3>1
  <2> QED
    BY <2>3, <2>6, <2>7, <2>8
<1> QED
  BY <1>1, <1>3, <1>7, <1>8

(* Whatever siblings are offered (supply_chain_bundle.py:_inclusion_root), *)
(* inclusion is only concluded of the entry the tree has at that index.    *)
THEOREM InclusionSound ==
  ASSUME NEW branch \in Branches, NEW size \in Sizes, NEW entry, NEW index \in Nat,
         NEW hashes, Len(hashes) \in Positions,
         InclusionRoot(entry, index, size, hashes) = TreeHash(branch, 0, size)
  PROVE  index < size /\ entry = Entry(branch, index)
<1>1. LargestTree \in Nat /\ Positions = 0..LargestTree /\ Sizes = 1..LargestTree
  BY MerkleAssumption DEF Positions, Sizes
<1> DEFINE N == Len(hashes)
<1>2. N \in Nat /\ N <= LargestTree
  BY <1>1
<1>3. PICK walk : InclusionWalk(walk, entry, index, size, hashes)
  BY <1>2, InclusionWalkExists
<1>4. TreeHash(branch, 0, size) # Invalid
  <2>1. 0 \in Positions /\ size \in Positions
    BY <1>1
  <2>3. CASE size <= 0 + 1
    <3>1. TreeHash(branch, 0, size) = LeafHash(Entry(branch, 0))
      BY <2>1, <2>3, LeafFacts
    <3> QED
      BY <3>1, HashesDiffer
  <2>4. CASE 0 + 1 < size
    <3>1. PICK middle : middle = 0 + Split(size - 0)
      OBVIOUS
    <3>2. TreeHash(branch, 0, size)
            = NodeHash(TreeHash(branch, 0, middle), TreeHash(branch, middle, size))
      BY <2>1, <2>4, <3>1, NodeFacts
    <3> QED
      BY <3>2, HashesDiffer
  <2> QED
    BY <1>1, <2>3, <2>4
<1>5. /\ index < size /\ walk[N].last = 0 /\ walk[N].node = TreeHash(branch, 0, size)
  <2>1. ~(size = 0 \/ index >= size \/ walk[N].last # 0)
    BY <1>3, <1>4 DEF InclusionWalk
  <2>2. walk[N].node = TreeHash(branch, 0, size)
    BY <1>3, <2>1 DEF InclusionWalk
  <2> QED
    BY <1>1, <2>1, <2>2
<1>6. walk[0] = [node |-> LeafHash(entry), index |-> index, last |-> size - 1]
  BY <1>3 DEF InclusionWalk
<1>7. \A n \in 1..N : walk[n] = InclusionStep(walk[n - 1], hashes[n])
  BY <1>3 DEF InclusionWalk
<1> HIDE DEF N
<1> DEFINE Halving(n) == /\ walk[n].index \in Nat /\ walk[n].last \in Nat
                       /\ walk[n].index <= walk[n].last /\ Leaves(size - 1, walk[n].last, n)
           A == {n \in Nat : n <= N => Halving(n)}
<1>8. 0 \in A
  <2>1. size - 1 \in Nat /\ index <= size - 1
    BY <1>1, <1>5
  <2>2. Leaves(size - 1, size - 1, 0)
    BY <2>1, PowerExists DEF Leaves
  <2> QED
    BY <1>6, <2>1, <2>2
<1>9. ASSUME NEW n \in Nat, n \in A PROVE n + 1 \in A
  <2> SUFFICES ASSUME n + 1 <= N PROVE Halving(n + 1)
    OBVIOUS
  <2>1. Halving(n) /\ n + 1 \in 1..N /\ (n + 1) - 1 = n /\ n \in Positions /\ n + 1 \in Positions
    BY <1>1, <1>2, <1>9
  <2>2. walk[n + 1].index = walk[n].index \div 2 /\ walk[n + 1].last = walk[n].last \div 2
    <3>1. walk[n + 1] = InclusionStep(walk[n], hashes[n + 1])
      <4>1. walk[n + 1] = InclusionStep(walk[(n + 1) - 1], hashes[n + 1])
        BY <1>7, <2>1
      <4> QED
        BY <2>1, <4>1
    <3> QED
      BY <3>1 DEF InclusionStep
  <2>3. size - 1 \in Nat
    BY <1>1
  <2>4. walk[n].last \div 2 \in Nat /\ Leaves(size - 1, walk[n].last \div 2, n + 1)
    BY <2>1, <2>3, LeavesHalf
  <2>5. walk[n].index \div 2 \in Nat /\ walk[n].index \div 2 <= walk[n].last \div 2
    BY <2>1
  <2> QED
    BY <2>2, <2>4, <2>5
<1>10. \A n \in 0..N : Halving(n)
  <2>1. \A n \in Nat : n \in A
    <3> HIDE DEF A
    <3> QED
      BY <1>8, <1>9, InductiveSet
  <2> QED
    BY <1>2, <2>1
<1> DEFINE C == {n \in Nat : n <= N => ClimbedTo(walk[N - n], branch, size, N - n)}
<1>11. 0 \in C
  <2>1. N - 0 = N /\ N \in 0..N /\ N \in Positions /\ size \in Positions /\ 0 \in Positions
    BY <1>1, <1>2
  <2>2. walk[N].index = 0 /\ Leaves(size - 1, 0, N)
    BY <1>5, <1>10, <2>1
  <2>3. PICK p \in Nat : p = PowerOf2[N]
    BY <2>1, PowerOrder
  <2>4. 0 * p = 0
    BY <2>3
  <2>5. size <= 0 + PowerOf2[N] /\ 0 = walk[N].index * PowerOf2[N] /\ 0 < size
    BY <1>1, <2>2, <2>3, <2>4 DEF Leaves
  <2>6. ClimbedTo(walk[N], branch, size, N)
    BY <1>1, <1>5, <2>1, <2>5 DEF ClimbedTo
  <2> QED
    BY <2>1, <2>6
<1>12. ASSUME NEW n \in Nat, n \in C PROVE n + 1 \in C
  <2> SUFFICES ASSUME n + 1 <= N PROVE ClimbedTo(walk[N - (n + 1)], branch, size, N - (n + 1))
    OBVIOUS
  <2>1. PICK l \in Nat : l = N - (n + 1)
    BY <1>2
  <2>2. /\ l \in Positions /\ l + 1 \in Positions /\ N - n = l + 1 /\ l \in 0..N
        /\ l + 1 \in 1..N /\ (l + 1) - 1 = l
    BY <1>1, <1>2, <2>1
  <2>3. ClimbedTo(walk[l + 1], branch, size, l + 1)
    <3>1. n <= N /\ ClimbedTo(walk[N - n], branch, size, N - n)
      BY <1>2, <1>12
    <3> QED
      BY <2>2, <3>1
  <2>4. walk[l + 1] = InclusionStep(walk[l], hashes[l + 1])
    BY <1>7, <2>2
  <2>5. Halving(l)
    BY <1>10, <2>2
  <2> QED
    BY <2>1, <2>2, <2>3, <2>4, <2>5, InclusionDown
<1>13. ClimbedTo(walk[0], branch, size, 0)
  <2>1. N \in C
    <3> HIDE DEF C
    <3> QED
      BY <1>2, <1>11, <1>12, InductiveSet
  <2>2. N - N = 0
    BY <1>2
  <2> QED
    BY <1>2, <2>1, <2>2
<1>14. PICK low \in Positions, high \in Positions :
         /\ walk[0].node = TreeHash(branch, low, high)
         /\ low = index /\ high <= low + 1
  BY <1>1, <1>6, <1>13, PowerExists DEF ClimbedTo
<1>15. LeafHash(entry) = LeafHash(Entry(branch, index))
  <2>1. TreeHash(branch, low, high) = LeafHash(Entry(branch, low))
    BY <1>14, LeafFacts
  <2>2. walk[0].node = LeafHash(entry)
    BY <1>6
  <2> QED
    BY <1>14, <2>1, <2>2
<1> QED
  BY <1>5, <1>15, HashesDiffer

(* Shifts.                                                                 *)
LEMMA Division ==
  \A x, p \in Nat : 0 < p =>
    /\ x \div p \in Nat /\ (x \div p) * p <= x /\ x < (x \div p) * p + p
    /\ \A d \in Nat : d * p <= x /\ x < d * p + p => x \div p = d
<1> SUFFICES ASSUME NEW x \in Nat, NEW p \in Nat, 0 < p
             PROVE  /\ x \div p \in Nat /\ (x \div p) * p <= x /\ x < (x \div p) * p + p
                    /\ \A d \in Nat : d * p <= x /\ x < d * p + p => x \div p = d
  OBVIOUS
<1>1. x \div p \in Nat
  OBVIOUS
<1>2. (x \div p) * p <= x
  OBVIOUS
<1>3. x < (x \div p) * p + p
  <2>1. x = p * (x \div p) + (x % p)
    OBVIOUS
  <2>2. x % p \in 0..(p - 1)
    OBVIOUS
  <2>3. PICK d \in Nat : d = x \div p
    BY <1>1
  <2>4. p * d = d * p /\ d * p \in Nat
    OBVIOUS
  <2> QED
    BY <2>1, <2>2, <2>3, <2>4
<1>4. ASSUME NEW d \in Nat, d * p <= x, x < d * p + p PROVE x \div p = d
  BY <1>4
<1> QED
  BY <1>1, <1>2, <1>3, <1>4

LEMMA ShiftIs ==
  ASSUME NEW x \in Nat, NEW i \in Nat, NEW l \in Positions, Leaves(x, i, l)
  PROVE  Shifted(x, l) = i
<1>1. PICK p \in Nat : p = PowerOf2[l] /\ 0 < p
  BY PowerOrder, MerkleAssumption DEF Positions
<1>2. i * p <= x /\ x < i * p + p
  BY <1>1 DEF Leaves
<1> QED
  BY <1>1, <1>2, Division DEF Shifted

LEMMA ShiftLeaves ==
  ASSUME NEW x \in Nat, NEW l \in Positions
  PROVE  Shifted(x, l) \in Nat /\ Leaves(x, Shifted(x, l), l)
<1>1. PICK p \in Nat : p = PowerOf2[l] /\ 0 < p
  BY PowerOrder, MerkleAssumption DEF Positions
<1>2. PICK d \in Nat : d = x \div p /\ d * p <= x /\ x < d * p + p
  BY <1>1, Division
<1> QED
  BY <1>1, <1>2 DEF Shifted, Leaves

LEMMA PowerSum ==
  \A l, j \in Positions : l + j \in Positions => PowerOf2[l + j] = PowerOf2[j] * PowerOf2[l]
<1>1. LargestTree \in Nat /\ Positions = 0..LargestTree
  BY MerkleAssumption DEF Positions
<1> DEFINE A == {j \in Nat : \A l \in Positions : l + j \in Positions =>
                                PowerOf2[l + j] = PowerOf2[j] * PowerOf2[l]}
<1>2. 0 \in A
  <2>1. \A l \in Positions : l + 0 = l /\ 1 * PowerOf2[l] = PowerOf2[l]
    BY <1>1, PowerOrder
  <2> QED
    BY <2>1, PowerExists
<1>3. ASSUME NEW j \in Nat, j \in A PROVE j + 1 \in A
  <2> SUFFICES ASSUME NEW l \in Positions, l + (j + 1) \in Positions
               PROVE  PowerOf2[l + (j + 1)] = PowerOf2[j + 1] * PowerOf2[l]
    OBVIOUS
  <2>1. l + j \in Positions /\ l + (j + 1) = (l + j) + 1 /\ j \in Positions /\ j + 1 \in Positions
    BY <1>1
  <2>2. PICK p \in Nat : p = PowerOf2[l]
    BY PowerOrder
  <2>3. PICK q \in Nat : q = PowerOf2[j]
    BY <2>1, PowerOrder
  <2>4. PowerOf2[l + (j + 1)] = 2 * (q * p)
    BY <1>3, <2>1, <2>2, <2>3, PowerOrder
  <2>5. PowerOf2[j + 1] = 2 * q
    BY <2>1, <2>3, PowerOrder
  <2>6. (2 * q) * p = 2 * (q * p)
    OBVIOUS
  <2> QED
    BY <2>2, <2>4, <2>5, <2>6
<1>4. \A j \in Nat : j \in A
  <2> HIDE DEF A
  <2> QED
    BY <1>2, <1>3, InductiveSet
<1> QED
  BY <1>1, <1>4

LEMMA LeavesTwice ==
  ASSUME NEW x \in Nat, NEW i \in Nat, NEW h \in Nat, NEW l \in Positions, NEW j \in Positions,
         l + j \in Positions, Leaves(x, i, l), Leaves(i, h, j)
  PROVE  Leaves(x, h, l + j)
<1>1. PICK p \in Nat : p = PowerOf2[l]
  BY PowerOrder
<1>2. PICK q \in Nat : q = PowerOf2[j]
  BY PowerOrder
<1>3. PowerOf2[l + j] = q * p
  BY <1>1, <1>2, PowerSum
<1>4. PICK r \in Nat : r = h * q
  BY Products
<1>5. h * (q * p) = r * p
  BY <1>4
<1>6. r <= i /\ i + 1 <= r + q
  BY <1>2, <1>4 DEF Leaves
<1>7. r * p <= i * p
  BY <1>6, Products
<1>8. (i + 1) * p <= (r + q) * p
  BY <1>6, Products
<1>9. (r + q) * p = r * p + q * p /\ (i + 1) * p = i * p + p
  OBVIOUS
<1>10. i * p \in Nat /\ r * p \in Nat /\ q * p \in Nat
  BY Products
<1>11. i * p <= x /\ x < i * p + p
  BY <1>1 DEF Leaves
<1>12. r * p <= x /\ x < r * p + q * p
  BY <1>7, <1>8, <1>9, <1>10, <1>11
<1> QED
  BY <1>3, <1>5, <1>12 DEF Leaves

LEMMA Halves ==
  /\ \A n \in Nat : ~Odd(2 * n) /\ Odd(2 * n + 1) /\ (2 * n) \div 2 = n /\ (2 * n + 1) \div 2 = n
  BY DEF Odd

(* Zeros and ones, of a number whose last bits are known.                  *)
LEMMA ZerosAre ==
  ASSUME NEW a \in Nat, NEW j \in Positions, NEW n, n = (2 * a + 1) * PowerOf2[j]
  PROVE  Zeros(n) = j /\ Shifted(n, j) = 2 * a + 1 /\ n \in Nat /\ 0 < n
<1>1. LargestTree \in Nat /\ Positions = 0..LargestTree
  BY MerkleAssumption DEF Positions
<1>2. PICK p \in Nat : p = PowerOf2[j] /\ 0 < p
  BY <1>1, PowerOrder
<1>3. n \in Nat /\ 0 < n
  <2>1. (2 * a) * p \in Nat /\ n = (2 * a) * p + p
    BY <1>2, Products
  <2> QED
    BY <1>2, <2>1
<1>4. Shifted(n, j) = 2 * a + 1
  <2>1. Leaves(n, 2 * a + 1, j)
    BY <1>2, <1>3 DEF Leaves
  <2> QED
    BY <1>3, <2>1, ShiftIs
<1>5. ASSUME NEW l \in Positions, l < j PROVE ~Odd(Shifted(n, l))
  <2>1. PICK k \in Nat : k + 1 = j - l
    <3>1. (j - l) - 1 \in Nat /\ ((j - l) - 1) + 1 = j - l
      BY <1>1, <1>5
    <3> QED
      BY <3>1
  <2>2. k \in Positions /\ k + 1 \in Positions /\ l + (k + 1) = j
    BY <1>1, <1>5, <2>1
  <2>3. PICK q \in Nat : q = PowerOf2[k] /\ PowerOf2[k + 1] = 2 * q
    BY <2>2, PowerOrder
  <2>4. PICK r \in Nat : r = PowerOf2[l] /\ 0 < r
    BY <1>1, PowerOrder
  <2>5. p = (2 * q) * r
    BY <1>2, <2>2, <2>3, <2>4, PowerSum
  <2>6. PICK s \in Nat : s = (2 * a + 1) * q
    BY Products
  <2>7. n = (2 * s) * r
    BY <1>2, <2>5, <2>6
  <2>8. Leaves(n, 2 * s, l)
    BY <1>3, <2>4, <2>7 DEF Leaves
  <2>9. Shifted(n, l) = 2 * s
    BY <1>3, <2>8, ShiftIs
  <2> QED
    BY <2>9, Halves
<1> DEFINE Ends(bits) == /\ n = 0 \/ Odd(Shifted(n, bits))
                         /\ \A l \in 0..(bits - 1) : n # 0 /\ ~Odd(Shifted(n, l))
<1>6. Ends(j)
  <2>1. Odd(Shifted(n, j))
    BY <1>4, Halves
  <2>2. \A l \in 0..(j - 1) : l \in Positions /\ l < j
    BY <1>1
  <2> QED
    BY <1>3, <1>5, <2>1, <2>2
<1>7. ASSUME NEW bits \in Positions, Ends(bits) PROVE bits = j
  <2>1. ~(bits < j)
    BY <1>3, <1>5, <1>7
  <2>2. ~(j < bits)
    <3>1. j < bits => j \in 0..(bits - 1)
      BY <1>1
    <3>2. Odd(Shifted(n, j))
      BY <1>4, Halves
    <3> QED
      BY <1>7, <3>1, <3>2
  <2> QED
    BY <1>1, <2>1, <2>2
<1>8. Zeros(n) = CHOOSE bits \in Positions : Ends(bits)
  BY DEF Zeros
<1> HIDE DEF Ends
<1>9. Zeros(n) = j
  BY <1>6, <1>7, <1>8, Zenon
<1> QED
  BY <1>3, <1>4, <1>9

LEMMA OnesAre ==
  ASSUME NEW a \in Nat, NEW j \in Positions, NEW n, n = (2 * a) * PowerOf2[j] + (PowerOf2[j] - 1)
  PROVE  Ones(n) = j /\ Shifted(n, j) = 2 * a /\ n \in Nat
<1>1. LargestTree \in Nat /\ Positions = 0..LargestTree
  BY MerkleAssumption DEF Positions
<1>2. PICK p \in Nat : p = PowerOf2[j] /\ 0 < p
  BY <1>1, PowerOrder
<1>3. n \in Nat
  <2>1. (2 * a) * p \in Nat
    BY <1>2, Products
  <2> QED
    BY <1>2, <2>1
<1>4. Shifted(n, j) = 2 * a
  <2>1. (2 * a) * p \in Nat
    BY <1>2, Products
  <2>2. Leaves(n, 2 * a, j)
    BY <1>2, <1>3, <2>1 DEF Leaves
  <2> QED
    BY <1>3, <2>2, ShiftIs
<1>5. ASSUME NEW l \in Positions, l < j PROVE Odd(Shifted(n, l))
  <2>1. PICK k \in Nat : k + 1 = j - l
    <3>1. (j - l) - 1 \in Nat /\ ((j - l) - 1) + 1 = j - l
      BY <1>1, <1>5
    <3> QED
      BY <3>1
  <2>2. k \in Positions /\ k + 1 \in Positions /\ l + (k + 1) = j
    BY <1>1, <1>5, <2>1
  <2>3. PICK q \in Nat : q = PowerOf2[k] /\ PowerOf2[k + 1] = 2 * q /\ 0 < q
    <3>1. PowerOf2[k] \in Nat /\ k < PowerOf2[k] /\ 0 <= k
      BY <2>2, PowerOrder
    <3>2. 0 < PowerOf2[k] /\ PowerOf2[k + 1] = 2 * PowerOf2[k]
      BY <2>1, <2>2, <3>1, PowerOrder
    <3> QED
      BY <3>1, <3>2
  <2>4. PICK r \in Nat : r = PowerOf2[l] /\ 0 < r
    BY <1>1, PowerOrder
  <2>5. p = (2 * q) * r
    BY <1>2, <2>2, <2>3, <2>4, PowerSum
  <2>6. PICK s \in Nat : s = (2 * a) * q + (q - 1)
    <3>1. (2 * a) * q \in Nat
      BY Products
    <3>2. (2 * a) * q + (q - 1) \in Nat
      BY <2>3, <3>1
    <3> QED
      BY <3>2
  <2>7. n = (2 * s + 1) * r + (r - 1)
    <3>1. 2 * s + 1 = (2 * a) * (2 * q) + (2 * q - 1)
      BY <2>6
    <3>2. PICK t \in Nat : t = 2 * q - 1 /\ t + 1 = 2 * q
      BY <2>3
    <3>3. PICK u \in Nat : u = (2 * a) * (2 * q)
      BY <2>3, Products
    <3>4. (u + t) * r = u * r + t * r /\ (t + 1) * r = t * r + r
      OBVIOUS
    <3>5. u * r = (2 * a) * ((2 * q) * r)
      BY <3>3
    <3>6. n = u * r + (t * r + r - 1)
      BY <1>2, <2>5, <3>2, <3>4, <3>5
    <3>7. t * r \in Nat /\ u * r \in Nat
      BY Products
    <3>8. (2 * s + 1) * r = u * r + t * r
      BY <3>1, <3>2, <3>3, <3>4
    <3> QED
      BY <2>4, <3>6, <3>7, <3>8
  <2>8. Leaves(n, 2 * s + 1, l)
    <3>1. (2 * s + 1) * r \in Nat
      BY Products
    <3> QED
      BY <1>3, <2>4, <2>7, <3>1 DEF Leaves
  <2>9. Shifted(n, l) = 2 * s + 1
    BY <1>3, <2>8, ShiftIs
  <2> QED
    BY <2>9, Halves
<1> DEFINE Ends(bits) == ~Odd(Shifted(n, bits)) /\ \A l \in 0..(bits - 1) : Odd(Shifted(n, l))
<1>6. Ends(j)
  <2>1. ~Odd(Shifted(n, j))
    BY <1>4, Halves
  <2>2. \A l \in 0..(j - 1) : l \in Positions /\ l < j
    BY <1>1
  <2> QED
    BY <1>5, <2>1, <2>2
<1>7. ASSUME NEW bits \in Positions, Ends(bits) PROVE bits = j
  <2>1. ~(bits < j)
    BY <1>5, <1>7
  <2>2. ~(j < bits)
    <3>1. j < bits => j \in 0..(bits - 1)
      BY <1>1
    <3>2. ~Odd(Shifted(n, j))
      BY <1>4, Halves
    <3> QED
      BY <1>7, <3>1, <3>2
  <2> QED
    BY <1>1, <2>1, <2>2
<1>8. Ones(n) = CHOOSE bits \in Positions : Ends(bits)
  BY DEF Ones
<1> HIDE DEF Ends
<1>9. Ones(n) = j
  BY <1>6, <1>7, <1>8, Zenon
<1> QED
  BY <1>3, <1>4, <1>9

-----------------------------------------------------------------------------
(* Consistency proofs are sequences of hashes.                             *)
ProofStep(f, x) ==
  LET middle == x[1][2] + Split(x[1][3] - x[1][2]) IN
  IF x[1][3] <= x[1][2] + x[2] THEN IF x[3] THEN <<>> ELSE <<TreeHash(x[1][1], x[1][2], x[1][3])>>
  ELSE IF x[1][2] + x[2] <= middle
    THEN Append(f[<<<<x[1][1], x[1][2], middle>>, x[2], x[3]>>], TreeHash(x[1][1], middle, x[1][3]))
    ELSE Append(f[<<<<x[1][1], middle, x[1][3]>>, (x[1][2] + x[2]) - middle, FALSE>>],
                TreeHash(x[1][1], x[1][2], middle))

Proven == Nodes \X Sizes \X BOOLEAN

LEMMA ProofExists ==
  /\ \A x \in Proven : ProofOf[x] = ProofStep(ProofOf, x)
  /\ \A x \in Proven : ProofOf[x] \in Seq(Hashes)
<1>1. LargestTree \in Nat /\ Positions = 0..LargestTree /\ Sizes = 1..LargestTree
  BY MerkleAssumption DEF Positions, Sizes
<1> DEFINE D == Proven
           Span(x) == x[1][3] - x[1][2]
           Solves(f, n) == f = [x \in D |-> f[x]] /\ \A x \in D : Span(x) <= n => f[x] = ProofStep(f, x)
           A == {n \in Nat : \E f : Solves(f, n)}
<1>2. ASSUME NEW x \in D PROVE /\ x[1][1] \in Branches /\ x[1][2] \in Positions /\ x[1][3] \in Positions
                               /\ x[2] \in Sizes /\ x[3] \in BOOLEAN
  BY DEF Nodes, Proven
<1>3. ASSUME NEW x \in D, x[1][2] + x[2] < x[1][3], NEW n \in Nat, Span(x) <= n + 1,
             NEW middle, middle = x[1][2] + Split(x[1][3] - x[1][2])
      PROVE  /\ <<<<x[1][1], x[1][2], middle>>, x[2], x[3]>> \in D
             /\ ~(x[1][2] + x[2] <= middle) =>
                  <<<<x[1][1], middle, x[1][3]>>, (x[1][2] + x[2]) - middle, FALSE>> \in D
             /\ Span(<<<<x[1][1], x[1][2], middle>>, x[2], x[3]>>) <= n
             /\ Span(<<<<x[1][1], middle, x[1][3]>>, (x[1][2] + x[2]) - middle, FALSE>>) <= n
             /\ TreeHash(x[1][1], middle, x[1][3]) \in Hashes
             /\ TreeHash(x[1][1], x[1][2], middle) \in Hashes
  <2>1. /\ x[1][1] \in Branches /\ x[1][2] \in Positions /\ x[1][3] \in Positions
        /\ x[2] \in Sizes /\ x[3] \in BOOLEAN
    BY <1>2
  <2>2. middle \in Positions /\ x[1][2] < middle /\ middle < x[1][3]
    <3>1. x[1][2] + 1 < x[1][3]
      BY <1>1, <1>3, <2>1
    <3> QED
      BY <1>3, <2>1, <3>1, MiddleFacts
  <2>3. ~(x[1][2] + x[2] <= middle) => (x[1][2] + x[2]) - middle \in Sizes
    BY <1>1, <2>1, <2>2
  <2>4. Span(<<<<x[1][1], x[1][2], middle>>, x[2], x[3]>>) <= n
    BY <1>1, <1>3, <2>1, <2>2
  <2>5. Span(<<<<x[1][1], middle, x[1][3]>>, (x[1][2] + x[2]) - middle, FALSE>>) <= n
    BY <1>1, <1>3, <2>1, <2>2
  <2> QED
    BY <2>1, <2>2, <2>3, <2>4, <2>5, IsHash DEF Nodes, Proven
<1>4. \A x \in D : x[1][3] <= x[1][2] + x[2] \/ x[1][2] + x[2] < x[1][3]
  BY <1>1, <1>2
<1>5. ASSUME NEW x \in D, NEW f, NEW g, NEW n \in Nat, Span(x) <= n + 1,
             \A y \in D : Span(y) <= n => f[y] = g[y]
      PROVE  ProofStep(f, x) = ProofStep(g, x)
  <2>1. CASE x[1][3] <= x[1][2] + x[2]
    BY <2>1 DEF ProofStep
  <2>2. CASE x[1][2] + x[2] < x[1][3]
    <3>1. PICK middle : middle = x[1][2] + Split(x[1][3] - x[1][2])
      OBVIOUS
    <3>2. CASE x[1][2] + x[2] <= middle
      <4>1. f[<<<<x[1][1], x[1][2], middle>>, x[2], x[3]>>] = g[<<<<x[1][1], x[1][2], middle>>, x[2], x[3]>>]
        <5> HIDE DEF D
        <5> QED
          BY <1>3, <1>5, <2>2, <3>1
      <4> QED
        BY <3>1, <3>2, <4>1 DEF ProofStep
    <3>3. CASE ~(x[1][2] + x[2] <= middle)
      <4>1. f[<<<<x[1][1], middle, x[1][3]>>, (x[1][2] + x[2]) - middle, FALSE>>]
              = g[<<<<x[1][1], middle, x[1][3]>>, (x[1][2] + x[2]) - middle, FALSE>>]
        <5> HIDE DEF D
        <5> QED
          BY <1>3, <1>5, <2>2, <3>1, <3>3
      <4> QED
        BY <3>1, <3>3, <4>1 DEF ProofStep
    <3> QED
      BY <3>2, <3>3
  <2> QED
    BY <1>4, <2>1, <2>2
<1> HIDE DEF Solves, D
<1>6. 0 \in A
  <2> DEFINE f == [x \in D |-> ProofStep(x, x)]
  <2>1. \A x \in D : Span(x) <= 0 => f[x] = ProofStep(f, x)
    <3> SUFFICES ASSUME NEW x \in D, Span(x) <= 0 PROVE f[x] = ProofStep(f, x)
      OBVIOUS
    <3>1. x[1][3] <= x[1][2] + x[2]
      BY <1>1, <1>2
    <3>2. ProofStep(x, x) = ProofStep(f, x)
      <4> HIDE DEF f
      <4> QED
        BY <3>1 DEF ProofStep
    <3> QED
      BY <3>2
  <2>2. f = [x \in D |-> f[x]]
    OBVIOUS
  <2> HIDE DEF f
  <2> QED
    BY <2>1, <2>2 DEF Solves
<1>7. \A n \in Nat : n \in A => n + 1 \in A
  <2> SUFFICES ASSUME NEW n \in Nat, NEW f, Solves(f, n) PROVE \E g : Solves(g, n + 1)
    OBVIOUS
  <2> DEFINE g == [x \in D |-> IF Span(x) <= n THEN f[x] ELSE ProofStep(f, x)]
  <2>1. \A x \in D : Span(x) <= n => g[x] = f[x] /\ f[x] = ProofStep(f, x)
    BY DEF Solves
  <2>2. \A x \in D : ~(Span(x) <= n) => g[x] = ProofStep(f, x)
    OBVIOUS
  <2>3. g = [x \in D |-> g[x]]
    OBVIOUS
  <2> HIDE DEF g
  <2>4. ASSUME NEW x \in D, Span(x) <= n + 1 PROVE g[x] = ProofStep(g, x)
    <3>1. ProofStep(f, x) = ProofStep(g, x)
      BY <1>5, <2>1, <2>4
    <3> QED
      BY <2>1, <2>2, <3>1
  <2> QED
    BY <2>3, <2>4 DEF Solves
<1>8. PICK f : Solves(f, LargestTree)
  <2> HIDE DEF A
  <2>1. LargestTree \in A
    BY <1>1, <1>6, <1>7, InductiveSet
  <2> QED
    BY <2>1 DEF A
<1>9. \A x \in D : Span(x) <= LargestTree
  BY <1>1, <1>2
<1>10. ProofOf = [x \in D |-> ProofStep(ProofOf, x)]
  <2> DEFINE Tree(h) == h = [x \in D |-> ProofStep(h, x)]
  <2>1. Tree(f)
    <3>1. f = [x \in D |-> f[x]] /\ \A x \in D : f[x] = ProofStep(f, x)
      BY <1>8, <1>9 DEF Solves
    <3> QED
      BY <3>1, Zenon
  <2>2. ProofOf = CHOOSE h : Tree(h)
    BY Zenon DEF ProofOf, ProofStep, D, Proven
  <2> HIDE DEF Tree
  <2>3. Tree(ProofOf)
    BY <2>1, <2>2, Zenon
  <2> QED
    BY <2>3 DEF Tree
<1>11. \A x \in D : ProofOf[x] = ProofStep(ProofOf, x)
  BY <1>10, Zenon
<1> DEFINE C == {n \in Nat : \A x \in D : Span(x) <= n => ProofOf[x] \in Seq(Hashes)}
<1>12. ASSUME NEW x \in D, x[1][3] <= x[1][2] + x[2] PROVE ProofOf[x] \in Seq(Hashes)
  <2>1. TreeHash(x[1][1], x[1][2], x[1][3]) \in Hashes
    BY <1>2, IsHash
  <2>2. ProofOf[x] = <<>> \/ ProofOf[x] = <<TreeHash(x[1][1], x[1][2], x[1][3])>>
    BY <1>11, <1>12 DEF ProofStep
  <2>3. PICK h \in Hashes : h = TreeHash(x[1][1], x[1][2], x[1][3])
    BY <2>1
  <2>4. <<>> \in Seq(Hashes) /\ <<h>> \in Seq(Hashes)
    OBVIOUS
  <2> QED
    BY <2>2, <2>3, <2>4
<1>13. 0 \in C
  <2> SUFFICES ASSUME NEW x \in D, Span(x) <= 0 PROVE ProofOf[x] \in Seq(Hashes)
    OBVIOUS
  <2>1. x[1][3] <= x[1][2] + x[2]
    BY <1>1, <1>2
  <2> QED
    BY <1>12, <2>1
<1>14. ASSUME NEW n \in Nat, n \in C PROVE n + 1 \in C
  <2> SUFFICES ASSUME NEW x \in D, Span(x) <= n + 1, x[1][2] + x[2] < x[1][3]
               PROVE  ProofOf[x] \in Seq(Hashes)
    BY <1>4, <1>12
  <2>1. PICK middle : middle = x[1][2] + Split(x[1][3] - x[1][2])
    OBVIOUS
  <2>2. ~(x[1][3] <= x[1][2] + x[2])
    <3>1. x[1][2] \in Int /\ x[1][3] \in Int /\ x[2] \in Int
      BY <1>1, <1>2
    <3> QED
      BY <3>1
  <2>3. \E y \in D, h \in Hashes : Span(y) <= n /\ ProofOf[x] = Append(ProofOf[y], h)
    <3>1. ProofOf[x] = ProofStep(ProofOf, x)
      BY <1>11
    <3>2. CASE x[1][2] + x[2] <= middle
      <4>1. ProofOf[x] = Append(ProofOf[<<<<x[1][1], x[1][2], middle>>, x[2], x[3]>>],
                                TreeHash(x[1][1], middle, x[1][3]))
        BY <2>1, <2>2, <3>1, <3>2 DEF ProofStep
      <4> QED
        BY <1>3, <2>1, <4>1
    <3>3. CASE ~(x[1][2] + x[2] <= middle)
      <4>1. ProofOf[x] = Append(ProofOf[<<<<x[1][1], middle, x[1][3]>>, (x[1][2] + x[2]) - middle, FALSE>>],
                                TreeHash(x[1][1], x[1][2], middle))
        BY <2>1, <2>2, <3>1, <3>3, Zenon DEF ProofStep
      <4>2. PICK y : y = <<<<x[1][1], middle, x[1][3]>>, (x[1][2] + x[2]) - middle, FALSE>>
        OBVIOUS
      <4>3. y \in D /\ Span(y) <= n /\ TreeHash(x[1][1], x[1][2], middle) \in Hashes
        <5> HIDE DEF Span
        <5> QED
          BY <1>3, <2>1, <3>3, <4>2, Zenon
      <4>4. ProofOf[x] = Append(ProofOf[y], TreeHash(x[1][1], x[1][2], middle))
        BY <4>1, <4>2, Zenon
      <4> QED
        BY <4>3, <4>4, Zenon
    <3> QED
      BY <3>2, <3>3
  <2>4. PICK y \in D, h \in Hashes : Span(y) <= n /\ ProofOf[x] = Append(ProofOf[y], h)
    BY <2>3
  <2>5. ProofOf[y] \in Seq(Hashes)
    BY <1>14, <2>4
  <2> QED
    BY <2>4, <2>5
<1>15. LargestTree \in C
  <2> HIDE DEF C
  <2> QED
    BY <1>1, <1>13, <1>14, InductiveSet
<1> QED
  BY <1>9, <1>11, <1>15 DEF D

-----------------------------------------------------------------------------
(* What the walk of a verifier starts from, and that it exists.            *)
StartOf(old, new, oldRoot, hashes) ==
  LET ones == Ones(old - 1)
      first == Shifted(old - 1, ones)
      seed == IF first = 0 THEN oldRoot ELSE hashes[1]
  IN [first |-> first, second |-> Shifted(new - 1, ones), old |-> seed, new |-> seed, ok |-> TRUE]
ConsistencyWalk(walk, start, old, new, oldRoot, newRoot, hashes) ==
  /\ start = IF Shifted(old - 1, Ones(old - 1)) = 0 THEN 0 ELSE 1
  /\ walk[start] = StartOf(old, new, oldRoot, hashes)
  /\ \A n \in (start + 1)..Len(hashes) : walk[n] = ConsistencyStep(walk[n - 1], hashes[n])
  /\ ConsistencyHolds(old, new, oldRoot, newRoot, hashes)
       <=> /\ 0 < old /\ old < new /\ hashes # <<>>
           /\ walk[Len(hashes)].ok /\ walk[Len(hashes)].second = 0
           /\ walk[Len(hashes)].old = oldRoot /\ walk[Len(hashes)].new = newRoot

LEMMA ConsistencyWalkExists ==
  ASSUME NEW old, NEW new, NEW oldRoot, NEW newRoot, NEW hashes, Len(hashes) \in Nat \ {0}
  PROVE  \E walk, start : ConsistencyWalk(walk, start, old, new, oldRoot, newRoot, hashes)
<1> DEFINE s == IF Shifted(old - 1, Ones(old - 1)) = 0 THEN 0 ELSE 1
           begin == StartOf(old, new, oldRoot, hashes)
           N == Len(hashes)
           Walks(f) == f = [n \in s..N |-> IF n = s THEN begin ELSE ConsistencyStep(f[n - 1], hashes[n])]
           Solves(f, k) == /\ f = [n \in s..N |-> f[n]] /\ f[s] = begin
                           /\ \A n \in (s + 1)..N : n <= k => f[n] = ConsistencyStep(f[n - 1], hashes[n])
           A == {k \in Nat : \E f : Solves(f, k)}
<1>1. s \in {0, 1} /\ s \in Nat /\ N \in Nat /\ s <= N
  OBVIOUS
<1>2. ConsistencyHolds(old, new, oldRoot, newRoot, hashes)
        <=> /\ 0 < old /\ old < new /\ hashes # <<>>
            /\ LET walk == CHOOSE h : Walks(h)
               IN /\ walk[N].ok /\ walk[N].second = 0
                  /\ walk[N].old = oldRoot /\ walk[N].new = newRoot
  BY Zenon DEF ConsistencyHolds, StartOf
<1> HIDE DEF begin, N, s
<1>3. 0 \in A
  <2> DEFINE f == [n \in s..N |-> begin]
  <2>1. f = [n \in s..N |-> f[n]] /\ f[s] = begin
    BY <1>1
  <2> HIDE DEF f
  <2>2. \A n \in (s + 1)..N : ~(n <= 0)
    BY <1>1
  <2>3. Solves(f, 0)
    BY <2>1, <2>2
  <2>4. \E g : Solves(g, 0)
    BY <2>3, Zenon
  <2> HIDE DEF Solves
  <2> QED
    BY <2>4
<1>4. ASSUME NEW k \in Nat, k \in A PROVE k + 1 \in A
  <2>1. PICK f : Solves(f, k)
    BY <1>4
  <2> DEFINE g == [n \in s..N |-> IF n = k + 1 /\ n # s THEN ConsistencyStep(f[k], hashes[n]) ELSE f[n]]
  <2>2. g = [n \in s..N |-> g[n]] /\ \A n \in s..N : n # k + 1 \/ n = s => g[n] = f[n]
    OBVIOUS
  <2>3. k + 1 \in s..N /\ k + 1 # s => g[k + 1] = ConsistencyStep(f[k], hashes[k + 1])
    OBVIOUS
  <2> HIDE DEF g
  <2>4. g[s] = begin
    BY <1>1, <2>1, <2>2
  <2>5. ASSUME NEW n \in (s + 1)..N, n <= k + 1 PROVE g[n] = ConsistencyStep(g[n - 1], hashes[n])
    <3>1. n \in s..N /\ n - 1 \in s..N /\ n - 1 # k + 1 /\ n # s
      BY <1>1, <2>5
    <3>2. g[n - 1] = f[n - 1]
      BY <2>2, <3>1
    <3>3. CASE n = k + 1
      <4>1. n - 1 = k
        BY <3>3
      <4> QED
        BY <2>3, <3>1, <3>2, <3>3, <4>1
    <3>4. CASE n # k + 1
      <4>1. n <= k
        BY <1>1, <2>5, <3>4
      <4> QED
        BY <2>1, <2>2, <3>1, <3>2, <3>4, <4>1
    <3> QED
      BY <3>3, <3>4
  <2>6. Solves(g, k + 1)
    BY <2>2, <2>4, <2>5
  <2>7. \E h : Solves(h, k + 1)
    BY <2>6, Zenon
  <2> HIDE DEF Solves
  <2> QED
    BY <2>7
<1>5. PICK f : Solves(f, N)
  <2> HIDE DEF A
  <2>1. N \in A
    BY <1>1, <1>3, <1>4, InductiveSet
  <2> QED
    BY <2>1 DEF A
<1>6. Walks(f)
  <2>1. \A n \in s..N : n # s => n \in (s + 1)..N /\ n <= N
    BY <1>1
  <2>2. \A n \in s..N : f[n] = IF n = s THEN begin ELSE ConsistencyStep(f[n - 1], hashes[n])
    BY <1>5, <2>1
  <2> QED
    BY <1>5, <2>2, Zenon
<1> DEFINE walk == CHOOSE h : Walks(h)
<1>7. Walks(walk)
  BY <1>6, Zenon
<1>8. ConsistencyHolds(old, new, oldRoot, newRoot, hashes)
        <=> /\ 0 < old /\ old < new /\ hashes # <<>>
            /\ walk[N].ok /\ walk[N].second = 0 /\ walk[N].old = oldRoot /\ walk[N].new = newRoot
  BY <1>2, Zenon
<1> HIDE DEF walk
<1>9. \A n \in s..N : walk[n] = IF n = s THEN begin ELSE ConsistencyStep(walk[n - 1], hashes[n])
  BY <1>7, Zenon
<1>10. walk[s] = begin /\ \A n \in (s + 1)..N : walk[n] = ConsistencyStep(walk[n - 1], hashes[n])
  <2>1. s \in s..N /\ \A n \in (s + 1)..N : n \in s..N /\ n # s
    BY <1>1
  <2> QED
    BY <1>9, <2>1, Zenon
<1>11. ConsistencyWalk(walk, s, old, new, oldRoot, newRoot, hashes)
  BY <1>8, <1>10 DEF ConsistencyWalk, begin, N, s
<1> QED
  BY <1>11, Zenon

(* The subtrees of the old and of the new tree that the walk has come to,  *)
(* from its end down: they start at one place, before which the two trees  *)
(* have the same entries.                                                  *)
Descended(w, oldBranch, newBranch, old) ==
  \E low, high \in Positions :
    /\ low < old /\ low < high /\ Common(oldBranch, newBranch, 0, low)
    /\ w.old = TreeHash(oldBranch, low, old) /\ w.new = TreeHash(newBranch, low, high)

LEMMA ConsistencyDown ==
  ASSUME NEW oldBranch \in Branches, NEW newBranch \in Branches, NEW old \in Positions,
         NEW w, NEW sibling, NEW v, v = ConsistencyStep(w, sibling),
         Descended(v, oldBranch, newBranch, old)
  PROVE  Descended(w, oldBranch, newBranch, old)
<1>1. LargestTree \in Nat /\ Positions = 0..LargestTree
  BY MerkleAssumption DEF Positions
<1>2. PICK low \in Positions, high \in Positions :
        /\ low < old /\ low < high /\ Common(oldBranch, newBranch, 0, low)
        /\ v.old = TreeHash(oldBranch, low, old) /\ v.new = TreeHash(newBranch, low, high)
  BY DEF Descended
<1>3. /\ v.old = IF Joins(w) THEN NodeHash(sibling, w.old) ELSE w.old
      /\ v.new = IF Joins(w) THEN NodeHash(sibling, w.new) ELSE NodeHash(w.new, sibling)
  BY DEF ConsistencyStep, Joined
<1>4. PICK m1 : m1 = low + Split(old - low)
  OBVIOUS
<1>5. PICK m2 : m2 = low + Split(high - low)
  OBVIOUS
<1>6. CASE Joins(w)
  <2>1. TreeHash(oldBranch, low, old) = NodeHash(sibling, w.old)
    BY <1>2, <1>3, <1>6
  <2>2. TreeHash(newBranch, low, high) = NodeHash(sibling, w.new)
    BY <1>2, <1>3, <1>6
  <2>3. /\ m1 \in Positions /\ low < m1 /\ m1 < old
        /\ sibling = TreeHash(oldBranch, low, m1) /\ w.old = TreeHash(oldBranch, m1, old)
    BY <1>4, <2>1, IsNode
  <2>4. /\ m2 \in Positions /\ low < m2 /\ m2 < high
        /\ sibling = TreeHash(newBranch, low, m2) /\ w.new = TreeHash(newBranch, m2, high)
    BY <1>5, <2>2, IsNode
  <2>5. m1 = m2 /\ Common(oldBranch, newBranch, low, m1)
    BY <2>3, <2>4, EqualHashes
  <2>6. Common(oldBranch, newBranch, 0, m1)
    <3>1. \A i \in 0..(m1 - 1) : i \in 0..(low - 1) \/ i \in low..(m1 - 1)
      BY <1>1, <2>3
    <3> QED
      BY <1>2, <2>5, <3>1 DEF Common
  <2> QED
    BY <2>3, <2>4, <2>5, <2>6 DEF Descended
<1>7. CASE ~Joins(w)
  <2>1. TreeHash(newBranch, low, high) = NodeHash(w.new, sibling)
    BY <1>2, <1>3, <1>7
  <2>2. m2 \in Positions /\ low < m2 /\ w.new = TreeHash(newBranch, low, m2)
    BY <1>5, <2>1, IsNode
  <2> QED
    BY <1>2, <1>3, <1>7, <2>2 DEF Descended
<1> QED
  BY <1>6, <1>7

(* Whatever hashes are offered (supply_chain_bundle.py:                    *)
(* _verify_consistency), consistency is only concluded of trees of which   *)
(* the one has the entries of the other, and more.                         *)
THEOREM ConsistencySound ==
  ASSUME NEW oldBranch \in Branches, NEW newBranch \in Branches,
         NEW old \in Sizes, NEW new \in Sizes, NEW hashes, Len(hashes) \in Nat,
         hashes = <<>> \/ Len(hashes) # 0,
         ConsistencyHolds(old, new, TreeHash(oldBranch, 0, old), TreeHash(newBranch, 0, new), hashes)
  PROVE  old < new /\ Common(oldBranch, newBranch, 0, old)
<1>1. LargestTree \in Nat /\ Positions = 0..LargestTree /\ Sizes = 1..LargestTree
  BY MerkleAssumption DEF Positions, Sizes
<1> DEFINE oldRoot == TreeHash(oldBranch, 0, old)
           newRoot == TreeHash(newBranch, 0, new)
           N == Len(hashes)
<1>2. hashes # <<>>
  BY DEF ConsistencyHolds
<1>3. N \in Nat /\ N # 0 /\ N \in Nat \ {0}
  BY <1>2
<1>4. PICK walk, start : ConsistencyWalk(walk, start, old, new, oldRoot, newRoot, hashes)
  BY <1>3, ConsistencyWalkExists
<1>5. old < new /\ walk[N].old = oldRoot /\ walk[N].new = newRoot
  BY <1>4 DEF ConsistencyWalk
<1>6. start \in {0, 1} /\ start \in Nat /\ start <= N
  <2>1. start = 0 \/ start = 1
    BY <1>4 DEF ConsistencyWalk
  <2> QED
    BY <1>3, <2>1
<1>7. walk[start].old = walk[start].new
  BY <1>4 DEF ConsistencyWalk, StartOf
<1>8. \A n \in (start + 1)..N : walk[n] = ConsistencyStep(walk[n - 1], hashes[n])
  BY <1>4 DEF ConsistencyWalk
<1> DEFINE Is(n) == Descended(walk[n], oldBranch, newBranch, old)
           A == {n \in Nat : start <= N - n => Is(N - n)}
<1>9. Is(N)
  <2>1. old \in Positions /\ new \in Positions /\ 0 \in Positions /\ 0 < old /\ 0 < new
    BY <1>1
  <2>2. Common(oldBranch, newBranch, 0, 0)
    BY DEF Common
  <2> QED
    BY <1>5, <2>1, <2>2 DEF Descended
<1> HIDE DEF N, oldRoot, newRoot, Is
<1>10. 0 \in A
  <2>1. N - 0 = N
    BY <1>3
  <2> QED
    BY <1>9, <2>1
<1>11. ASSUME NEW n \in Nat, n \in A PROVE n + 1 \in A
  <2> SUFFICES ASSUME start <= N - (n + 1) PROVE Is(N - (n + 1))
    OBVIOUS
  <2>1. PICK l \in Nat : l = N - (n + 1)
    BY <1>3, <1>6
  <2>2. /\ N - n = l + 1 /\ (l + 1) - 1 = l /\ l + 1 \in (start + 1)..N /\ start <= N - n
    BY <1>3, <1>6, <2>1
  <2>3. walk[l + 1] = ConsistencyStep(walk[l], hashes[l + 1])
    BY <1>8, <2>2
  <2>4. Is(l + 1)
    BY <1>11, <2>2
  <2>5. old \in Positions
    BY <1>1
  <2>6. Is(l)
    BY <2>3, <2>4, <2>5, ConsistencyDown DEF Is
  <2> QED
    BY <2>1, <2>6
<1>12. Is(start)
  <2>1. PICK n \in Nat : n = N - start /\ N - n = start
    BY <1>3, <1>6
  <2>2. n \in A
    <3> HIDE DEF A
    <3> QED
      BY <1>10, <1>11, InductiveSet
  <2> QED
    BY <1>6, <2>1, <2>2
<1>13. PICK low \in Positions, high \in Positions :
         /\ low < old /\ low < high /\ Common(oldBranch, newBranch, 0, low)
         /\ walk[start].old = TreeHash(oldBranch, low, old)
         /\ walk[start].new = TreeHash(newBranch, low, high)
  BY <1>12 DEF Is, Descended
<1>14. Common(oldBranch, newBranch, low, old)
  <2>1. old \in Positions
    BY <1>1
  <2> QED
    BY <1>7, <1>13, <2>1, EqualHashes
<1>15. Common(oldBranch, newBranch, 0, old)
  <2>1. \A i \in 0..(old - 1) : i \in 0..(low - 1) \/ i \in low..(old - 1)
    BY <1>1, <1>13
  <2> QED
    BY <1>13, <1>14, <2>1 DEF Common
<1> QED
  BY <1>5, <1>15

LEMMA CommonEntries ==
  ASSUME NEW b1 \in Branches, NEW b2 \in Branches, NEW size \in Sizes, Common(b1, b2, 0, size)
  PROVE  b1 = b2 \/ size <= CommonPrefix
<1>1. LargestTree \in Nat /\ Sizes = 1..LargestTree /\ CommonPrefix \in Nat
  BY MerkleAssumption DEF Sizes
<1>2. Entry(b1, size - 1) = Entry(b2, size - 1)
  BY <1>1 DEF Common
<1>3. CASE b1 # b2 /\ ~(size <= CommonPrefix)
  <2>1. Entry("main", size - 1) = Entry("fork", size - 1)
    BY <1>2, <1>3 DEF Branches
  <2>2. ~(size - 1 < CommonPrefix)
    BY <1>1, <1>3
  <2>3. size - 1 = (size - 1) + LargestTree
    BY <2>1, <2>2 DEF Entry
  <2> QED
    BY <1>1, <2>3
<1> QED
  BY <1>3

(* Where the walk of a verifier is once it has taken the hashes the proof  *)
(* has for entries low..high-1, a tree of so many levels.                  *)
Walked(w, branch, low, high, old, new, level) ==
  /\ w.first = Shifted(low, level) /\ w.second = Shifted(new - 1, level)
  /\ w.old = TreeHash(branch, low, old) /\ w.new = TreeHash(branch, low, high)
  /\ w.ok

Multiple(x, i, level) == x = i * PowerOf2[level]

LEMMA MultipleShifted ==
  ASSUME NEW i \in Nat, NEW l \in Positions, NEW x, Multiple(x, i, l)
  PROVE  x \in Nat /\ Shifted(x, l) = i
<1>1. PICK p \in Nat : p = PowerOf2[l] /\ 0 < p
  BY PowerOrder, MerkleAssumption DEF Positions
<1>2. x \in Nat
  BY <1>1, Products DEF Multiple
<1>3. Leaves(x, i, l)
  BY <1>1, <1>2 DEF Leaves, Multiple
<1> QED
  BY <1>2, <1>3, ShiftIs

LEMMA LeftStep ==
  ASSUME NEW branch \in Branches, NEW low \in Positions, NEW middle \in Positions,
         NEW high \in Positions, NEW old \in Sizes, NEW new \in Sizes, high <= new,
         NEW l \in Positions, l + 1 \in Positions, NEW a \in Nat, Multiple(low, a, l + 1),
         middle = low + PowerOf2[l], middle < high, high <= low + 2 * PowerOf2[l],
         NEW w, Walked(w, branch, low, middle, old, new, l)
  PROVE  Walked(ConsistencyStep(w, TreeHash(branch, middle, high)), branch, low, high, old, new, l + 1)
<1>1. LargestTree \in Nat /\ Positions = 0..LargestTree /\ Sizes = 1..LargestTree
  BY MerkleAssumption DEF Positions, Sizes
<1>2. PICK p \in Nat : p = PowerOf2[l] /\ PowerOf2[l + 1] = 2 * p /\ 0 < p
  <2>1. PowerOf2[l] \in Nat /\ 0 < PowerOf2[l]
    BY <1>1, PowerOrder
  <2> QED
    BY <2>1, PowerOrder
<1>3. PICK c \in Nat : c = (2 * a) * p /\ low = c
  BY <1>2, Products DEF Multiple
<1>4. w.first = 2 * a
  <2>1. Multiple(low, 2 * a, l)
    BY <1>2, <1>3 DEF Multiple
  <2> QED
    BY <2>1, MultipleShifted DEF Walked
<1>5. PICK s \in Nat : s = w.second /\ Leaves(new - 1, s, l)
  <2>1. new - 1 \in Nat
    BY <1>1
  <2> QED
    BY <2>1, ShiftLeaves DEF Walked
<1>6. s * p <= new - 1 /\ new - 1 < s * p + p
  BY <1>2, <1>5 DEF Leaves
<1>7. middle <= new - 1 /\ middle = c + p
  BY <1>1, <1>2, <1>3
<1>8. s # 2 * a /\ s # 0
  <2>1. s # 2 * a
    <3> SUFFICES ASSUME s = 2 * a PROVE FALSE
      OBVIOUS
    <3>1. new - 1 < c + p
      BY <1>3, <1>6
    <3> QED
      BY <1>1, <1>7, <3>1
  <2>2. s # 0
    <3> SUFFICES ASSUME s = 0 PROVE FALSE
      OBVIOUS
    <3>1. new - 1 < p
      BY <1>1, <1>2, <1>6
    <3>2. PICK k \in Nat : k = new - 1
      BY <1>1
    <3>3. c + p <= k
      BY <1>7, <3>2
    <3>4. k < p
      BY <3>1, <3>2
    <3> QED
      BY <3>3, <3>4
  <2> QED
    BY <2>1, <2>2
<1>9. ~Joins(w)
  BY <1>4, <1>5, <1>8, Halves DEF Joins
<1>10. \A x \in Nat : Shifted(x, 0) = x
  BY PowerExists DEF Shifted
<1> DEFINE v == ConsistencyStep(w, TreeHash(branch, middle, high))
<1>11. v = Joined(w, TreeHash(branch, middle, high), 0)
  BY <1>9 DEF ConsistencyStep
<1>12. v.first = Shifted(low, l + 1)
  <2>1. v.first = Shifted(w.first, 0) \div 2
    BY <1>11 DEF Joined
  <2>2. v.first = a
    BY <1>4, <1>10, <2>1, Halves
  <2> QED
    BY <2>2, MultipleShifted
<1>13. v.second = Shifted(new - 1, l + 1)
  <2>1. v.second = Shifted(w.second, 0) \div 2
    BY <1>11 DEF Joined
  <2>2. v.second = s \div 2
    BY <1>5, <1>10, <2>1
  <2>3. new - 1 \in Nat
    BY <1>1
  <2>4. s \div 2 \in Nat /\ Leaves(new - 1, s \div 2, l + 1)
    BY <1>5, <2>3, LeavesHalf
  <2> QED
    BY <2>2, <2>3, <2>4, ShiftIs
<1>14. v.old = TreeHash(branch, low, old) /\ v.ok
  <2>1. v.old = w.old /\ (w.ok /\ w.second # 0 => v.ok)
    <3> HIDE DEF v
    <3> QED
      BY <1>9, <1>11, Zenon DEF Joined
  <2>2. w.old = TreeHash(branch, low, old) /\ w.ok /\ w.second # 0
    BY <1>5, <1>8 DEF Walked
  <2> QED
    BY <2>1, <2>2
<1>15. v.new = TreeHash(branch, low, high)
  <2>1. v.new = NodeHash(TreeHash(branch, low, middle), TreeHash(branch, middle, high))
    BY <1>9, <1>11 DEF Joined, Walked
  <2>2. Split(high - low) = p /\ low + 1 < high
    <3>0. middle = low + p /\ high <= low + 2 * p
      BY <1>2
    <3>1. high - low \in Nat /\ p < high - low /\ high - low <= 2 * p
      BY <1>1, <3>0
    <3>2. Split(high - low) = p
      BY <1>2, <3>1, SplitIs
    <3> QED
      BY <1>1, <1>2, <3>1, <3>2
  <2>3. middle = low + Split(high - low)
    BY <1>2, <2>2
  <2> QED
    BY <2>1, <2>2, <2>3, NodeFacts
<1> HIDE DEF v
<1>16. Walked(v, branch, low, high, old, new, l + 1)
  BY <1>12, <1>13, <1>14, <1>15 DEF Walked
<1> QED
  BY <1>16 DEF v

LEMMA RightStep ==
  ASSUME NEW branch \in Branches, NEW low \in Positions, NEW middle \in Positions,
         NEW high \in Positions, NEW old \in Sizes, NEW new \in Sizes, high <= new,
         NEW l \in Positions, l + 1 \in Positions, NEW a \in Nat, Multiple(low, a, l + 1),
         middle = low + PowerOf2[l], middle < old, old <= high, high <= low + 2 * PowerOf2[l],
         NEW r \in Positions, r <= l, r = l \/ (high = new /\ high - middle <= PowerOf2[r]),
         NEW w, Walked(w, branch, middle, high, old, new, r)
  PROVE  Walked(ConsistencyStep(w, TreeHash(branch, low, middle)), branch, low, high, old, new, l + 1)
<1>1. LargestTree \in Nat /\ Positions = 0..LargestTree /\ Sizes = 1..LargestTree
  BY MerkleAssumption DEF Positions, Sizes
<1>2. PICK p \in Nat : p = PowerOf2[l] /\ PowerOf2[l + 1] = 2 * p /\ 0 < p
  <2>1. PowerOf2[l] \in Nat /\ 0 < PowerOf2[l]
    BY <1>1, PowerOrder
  <2> QED
    BY <2>1, PowerOrder
<1>3. PICK j \in Positions : r + j = l
  <2>1. l - r \in Positions /\ r + (l - r) = l
    BY <1>1
  <2> QED
    BY <2>1
<1>4. PICK q \in Nat : q = PowerOf2[r] /\ 0 < q
  <2>1. PowerOf2[r] \in Nat /\ r < PowerOf2[r] /\ 0 <= r
    BY <1>1, PowerOrder
  <2> QED
    BY <2>1
<1>5. PICK e \in Nat : e = PowerOf2[j] /\ 0 < e
  <2>1. PowerOf2[j] \in Nat /\ j < PowerOf2[j] /\ 0 <= j
    BY <1>1, PowerOrder
  <2> QED
    BY <2>1
<1>6. p = e * q
  BY <1>2, <1>3, <1>4, <1>5, PowerSum
<1>7. PICK f \in Nat : f = (2 * a + 1) * e
  BY Products
<1>8. middle = f * q
  <2>1. low = (2 * a) * p
    BY <1>2, Products DEF Multiple
  <2>2. middle = (2 * a + 1) * p
    BY <1>2, <2>1, Products
  <2> QED
    BY <1>6, <1>7, <2>2
<1>9. w.first = f
  <2>1. Multiple(middle, f, r)
    BY <1>4, <1>8 DEF Multiple
  <2> QED
    BY <2>1, MultipleShifted DEF Walked
<1>10. Zeros(f) = j /\ Shifted(f, j) = 2 * a + 1 /\ 0 < f
  BY <1>5, <1>7, ZerosAre
<1>11. new - 1 \in Nat /\ middle <= new - 1 /\ low < middle
  <2>1. middle = low + p
    BY <1>2
  <2>2. low < middle
    BY <1>1, <1>2, <2>1
  <2>3. new \in Nat /\ 0 < new /\ middle < new
    BY <1>1
  <2> QED
    BY <1>1, <2>2, <2>3
<1>12. PICK s \in Nat : s = w.second /\ Leaves(new - 1, s, r)
  BY <1>11, ShiftLeaves DEF Walked
<1>13. s # 0
  <2> SUFFICES ASSUME s = 0 PROVE FALSE
    OBVIOUS
  <2>1. new - 1 < q
    BY <1>4, <1>11, <1>12 DEF Leaves
  <2>2. 1 * q <= f * q
    BY <1>10, Products
  <2> QED
    BY <1>4, <1>8, <1>11, <2>1, <2>2
<1>14. Joins(w)
  <2>1. CASE r = l
    <3>1. j = 0
      BY <1>1, <1>3, <2>1
    <3>2. f = 2 * a + 1
      BY <1>5, <1>7, <3>1, PowerExists
    <3> QED
      BY <1>9, <3>2, Halves DEF Joins
  <2>2. CASE high = new /\ high - middle <= PowerOf2[r]
    <3>0. high - middle <= q /\ new - 1 < high
      BY <1>1, <1>4, <2>2
    <3>1. middle <= new - 1 /\ new - 1 < middle + q
      BY <1>1, <1>11, <3>0
    <3>2. Leaves(new - 1, f, r)
      BY <1>4, <1>8, <3>1 DEF Leaves
    <3>3. s = f
      BY <1>11, <1>12, <3>2, ShiftIs
    <3> QED
      BY <1>9, <1>12, <3>3 DEF Joins
  <2> QED
    BY <2>1, <2>2
<1> DEFINE v == ConsistencyStep(w, TreeHash(branch, low, middle))
<1>15. v = Joined(w, TreeHash(branch, low, middle), j)
  BY <1>9, <1>10, <1>14 DEF ConsistencyStep
<1>16. v.first = Shifted(low, l + 1)
  <2>1. v.first = Shifted(w.first, j) \div 2
    BY <1>15 DEF Joined
  <2>2. v.first = a
    BY <1>9, <1>10, <2>1, Halves
  <2> QED
    BY <2>2, MultipleShifted
<1>17. v.second = Shifted(new - 1, l + 1)
  <2>1. v.second = Shifted(w.second, j) \div 2
    BY <1>15 DEF Joined
  <2>2. PICK t \in Nat : t = Shifted(s, j) /\ Leaves(s, t, j)
    BY ShiftLeaves
  <2>3. Leaves(new - 1, t, l)
    BY <1>3, <1>11, <1>12, <2>2, LeavesTwice
  <2>4. t \div 2 \in Nat /\ Leaves(new - 1, t \div 2, l + 1)
    BY <1>11, <2>3, LeavesHalf
  <2>5. v.second = t \div 2
    BY <1>12, <2>1, <2>2
  <2> QED
    BY <1>11, <2>4, <2>5, ShiftIs
<1>18. /\ v.old = NodeHash(TreeHash(branch, low, middle), TreeHash(branch, middle, old))
       /\ v.new = NodeHash(TreeHash(branch, low, middle), TreeHash(branch, middle, high))
       /\ v.ok
  <2>1. /\ v.old = NodeHash(TreeHash(branch, low, middle), w.old)
        /\ v.new = NodeHash(TreeHash(branch, low, middle), w.new)
        /\ w.ok /\ w.second # 0 => v.ok
    <3> HIDE DEF v
    <3> QED
      BY <1>14, <1>15, Zenon DEF Joined
  <2>2. /\ w.old = TreeHash(branch, middle, old) /\ w.new = TreeHash(branch, middle, high)
        /\ w.ok /\ w.second # 0
    BY <1>12, <1>13 DEF Walked
  <2> QED
    BY <2>1, <2>2
<1>19. ASSUME NEW top \in Positions, middle < top, top <= high
       PROVE  TreeHash(branch, low, top)
                = NodeHash(TreeHash(branch, low, middle), TreeHash(branch, middle, top))
  <2>0. middle = low + p /\ high <= low + 2 * p
    BY <1>2
  <2>1. top - low \in Nat /\ p < top - low /\ top - low <= 2 * p
    BY <1>1, <1>19, <2>0
  <2>2. Split(top - low) = p
    BY <1>2, <2>1, SplitIs
  <2>3. middle = low + Split(top - low)
    BY <2>0, <2>2
  <2>4. low + 1 < top
    BY <1>1, <1>2, <2>1
  <2> QED
    BY <2>3, <2>4, NodeFacts
<1>20. old \in Positions /\ middle < high
  BY <1>1
<1> HIDE DEF v
<1>21. v.old = TreeHash(branch, low, old) /\ v.new = TreeHash(branch, low, high)
  <2>1. high <= high
    BY <1>1
  <2> QED
    BY <1>18, <1>19, <1>20, <2>1
<1>22. Walked(v, branch, low, high, old, new, l + 1)
  BY <1>16, <1>17, <1>18, <1>21 DEF Walked
<1> QED
  BY <1>22 DEF v

LEMMA FirstStep ==
  ASSUME NEW branch \in Branches, NEW low \in Positions, NEW old \in Sizes, NEW new \in Sizes,
         NEW l \in Positions, NEW a \in Nat, Multiple(low, 2 * a, l), old = low + PowerOf2[l],
         NEW hashes, low = 0 \/ hashes[1] = TreeHash(branch, low, old)
  PROVE  /\ Walked(StartOf(old, new, TreeHash(branch, 0, old), hashes), branch, low, old, old, new, l)
         /\ (Shifted(old - 1, Ones(old - 1)) = 0) <=> (low = 0)
<1>1. LargestTree \in Nat /\ Positions = 0..LargestTree /\ Sizes = 1..LargestTree
  BY MerkleAssumption DEF Positions, Sizes
<1>2. PICK p \in Nat : p = PowerOf2[l] /\ 0 < p
  BY <1>1, PowerOrder
<1>3. PICK c \in Nat : c = (2 * a) * p /\ low = c
  BY <1>2, Products DEF Multiple
<1>4. old - 1 = (2 * a) * PowerOf2[l] + (PowerOf2[l] - 1)
  <2>1. old - 1 = c + (p - 1)
    BY <1>2, <1>3
  <2> QED
    BY <1>2, <1>3, <2>1
<1>5. Ones(old - 1) = l /\ Shifted(old - 1, l) = 2 * a
  BY <1>4, OnesAre
<1>6. Shifted(low, l) = 2 * a
  BY MultipleShifted
<1>7. (2 * a = 0) <=> (low = 0)
  <2>1. 2 * a = 0 => low = 0
    BY <1>2 DEF Multiple
  <2>2. low = 0 => 2 * a = 0
    <3>1. 0 * p = 0
      BY <1>2
    <3>2. Multiple(0, 0, l)
      BY <1>2, <3>1 DEF Multiple
    <3>3. Shifted(0, l) = 0
      BY <3>2, MultipleShifted
    <3> QED
      BY <1>6, <3>3
  <2> QED
    BY <2>1, <2>2
<1> DEFINE w == StartOf(old, new, TreeHash(branch, 0, old), hashes)
<1>8. w.first = 2 * a /\ w.second = Shifted(new - 1, l) /\ w.ok
  BY <1>5 DEF StartOf
<1>9. w.old = TreeHash(branch, low, old) /\ w.new = TreeHash(branch, low, old)
  BY <1>5, <1>7 DEF StartOf
<1> HIDE DEF w
<1>10. Walked(w, branch, low, old, old, new, l)
  BY <1>6, <1>8, <1>9 DEF Walked
<1> QED
  BY <1>5, <1>7, <1>10 DEF w

(* The number of levels of a tree of n entries.                            *)
LevelsOf(n, level) ==
  level \in Positions /\ n <= PowerOf2[level] /\ (level > 0 => PowerOf2[level - 1] < n)

LEMMA LevelExists ==
  ASSUME NEW n \in 1..LargestTree
  PROVE  \E l \in Positions : LevelsOf(n, l)
<1>1. LargestTree \in Nat /\ Positions = 0..LargestTree
  BY MerkleAssumption DEF Positions
<1>2. CASE n = 1
  BY <1>1, <1>2, PowerExists DEF LevelsOf
<1>3. CASE n # 1
  <2>1. n \in 2..LargestTree
    BY <1>1, <1>3
  <2>2. PICK l \in Positions : l + 1 \in Positions /\ PowerOf2[l] < n /\ n <= 2 * PowerOf2[l]
    BY <2>1, SplitFacts
  <2>3. (l + 1) - 1 = l /\ n <= PowerOf2[l + 1]
    BY <1>1, <2>2, PowerOrder
  <2> QED
    BY <2>2, <2>3 DEF LevelsOf
<1> QED
  BY <1>2, <1>3

(* The hashes a proof has for the entries low..high-1, and whether a list  *)
(* begins with them.                                                       *)
ProofFor(branch, low, high, old) == ProofOf[<<<<branch, low, high>>, old - low, low = 0>>]
BeginsWith(hashes, part) ==
  Len(part) <= Len(hashes) /\ \A i \in 1..Len(part) : hashes[i] = part[i]

LEMMA BeginsWithLast ==
  ASSUME NEW hashes, Len(hashes) \in Nat, NEW part \in Seq(Hashes), NEW h, BeginsWith(hashes, Append(part, h))
  PROVE  /\ Len(part) \in Nat /\ Len(Append(part, h)) = Len(part) + 1
         /\ Len(part) + 1 <= Len(hashes)
         /\ BeginsWith(hashes, part) /\ hashes[Len(part) + 1] = h
<1>1. Len(part) \in Nat /\ Len(Append(part, h)) = Len(part) + 1
  OBVIOUS
<1>2. Append(part, h)[Len(part) + 1] = h /\ \A i \in 1..Len(part) : Append(part, h)[i] = part[i]
  OBVIOUS
<1>3. Len(part) + 1 \in 1..Len(Append(part, h)) /\ \A i \in 1..Len(part) : i \in 1..Len(Append(part, h))
  BY <1>1
<1> QED
  BY <1>1, <1>2, <1>3 DEF BeginsWith

LEMMA ProofForIs ==
  ASSUME NEW branch \in Branches, NEW low \in Positions, NEW high \in Positions, NEW old \in Sizes,
         low < old, old <= high,
         NEW middle, middle = low + Split(high - low)
  PROVE  /\ ProofFor(branch, low, high, old) \in Seq(Hashes)
         /\ old = high /\ low = 0 => ProofFor(branch, low, high, old) = <<>>
         /\ old = high /\ low # 0 => ProofFor(branch, low, high, old) = <<TreeHash(branch, low, high)>>
         /\ old < high /\ old <= middle =>
              ProofFor(branch, low, high, old)
                = Append(ProofFor(branch, low, middle, old), TreeHash(branch, middle, high))
         /\ old < high /\ middle < old =>
              ProofFor(branch, low, high, old)
                = Append(ProofFor(branch, middle, high, old), TreeHash(branch, low, middle))
<1>1. LargestTree \in Nat /\ Positions = 0..LargestTree /\ Sizes = 1..LargestTree
  BY MerkleAssumption DEF Positions, Sizes
<1> DEFINE x == <<<<branch, low, high>>, old - low, low = 0>>
<1>2. x \in Proven
  <2>1. old - low \in Sizes /\ (low = 0) \in BOOLEAN /\ <<branch, low, high>> \in Nodes
    BY <1>1 DEF Nodes
  <2> QED
    BY <2>1 DEF Proven
<1>3. x[1][1] = branch /\ x[1][2] = low /\ x[1][3] = high /\ x[2] = old - low /\ x[3] = (low = 0)
  OBVIOUS
<1> HIDE DEF x
<1>4. ProofFor(branch, low, high, old) = ProofOf[x]
  BY DEF ProofFor, x
<1>5. ProofOf[x] \in Seq(Hashes) /\ ProofOf[x] = ProofStep(ProofOf, x)
  BY <1>2, ProofExists
<1>6. low + (old - low) = old
  BY <1>1
<1>7. /\ high <= old /\ low = 0 => ProofOf[x] = <<>>
      /\ high <= old /\ low # 0 => ProofOf[x] = <<TreeHash(branch, low, high)>>
      /\ ~(high <= old) /\ old <= middle =>
           ProofOf[x] = Append(ProofOf[<<<<branch, low, middle>>, old - low, low = 0>>],
                               TreeHash(branch, middle, high))
      /\ ~(high <= old) /\ ~(old <= middle) =>
           ProofOf[x] = Append(ProofOf[<<<<branch, middle, high>>, old - middle, FALSE>>],
                               TreeHash(branch, low, middle))
  <2>1. /\ x[1][3] <= x[1][2] + x[2] <=> high <= old
        /\ x[1][2] + x[2] <= x[1][2] + Split(x[1][3] - x[1][2]) <=> old <= middle
    BY <1>3, <1>6
  <2>2. CASE high <= old
    <3>1. ProofOf[x] = IF x[3] THEN <<>> ELSE <<TreeHash(x[1][1], x[1][2], x[1][3])>>
      BY <1>5, <2>1, <2>2, Zenon DEF ProofStep
    <3> QED
      BY <1>3, <2>2, <3>1
  <2>3. CASE ~(high <= old) /\ old <= middle
    <3>1. ProofOf[x] = Append(ProofOf[<<<<x[1][1], x[1][2], x[1][2] + Split(x[1][3] - x[1][2])>>, x[2], x[3]>>],
                              TreeHash(x[1][1], x[1][2] + Split(x[1][3] - x[1][2]), x[1][3]))
      BY <1>5, <2>1, <2>3, Zenon DEF ProofStep
    <3> QED
      BY <1>3, <2>3, <3>1, Zenon
  <2>4. CASE ~(high <= old) /\ ~(old <= middle)
    <3>1. ProofOf[x] = Append(ProofOf[<<<<x[1][1], x[1][2] + Split(x[1][3] - x[1][2]), x[1][3]>>,
                                        (x[1][2] + x[2]) - (x[1][2] + Split(x[1][3] - x[1][2])), FALSE>>],
                              TreeHash(x[1][1], x[1][2], x[1][2] + Split(x[1][3] - x[1][2])))
      BY <1>5, <2>1, <2>4, Zenon DEF ProofStep
    <3>2. x[1][2] + x[2] = old /\ x[1][2] + Split(x[1][3] - x[1][2]) = middle
      BY <1>3, <1>6
    <3>3. ProofOf[x] = Append(ProofOf[<<<<x[1][1], middle, x[1][3]>>, old - middle, FALSE>>],
                              TreeHash(x[1][1], x[1][2], middle))
      BY <3>1, <3>2, Zenon
    <3> QED
      BY <1>3, <2>4, <3>3
  <2> QED
    BY <2>2, <2>3, <2>4
<1>8. CASE old = high
  <2>1. high <= old /\ ~(old < high)
    BY <1>1, <1>8
  <2> QED
    BY <1>4, <1>5, <1>7, <1>8, <2>1
<1>9. CASE old < high
  <2>1. ~(high <= old) /\ old # high /\ low + 1 < high
    BY <1>1, <1>9
  <2>2. middle \in Positions /\ low < middle /\ (middle = 0) = FALSE
    <3>1. middle \in Positions /\ low < middle
      BY <2>1, MiddleFacts
    <3> QED
      BY <1>1, <3>1
  <2>3. old <= middle => ProofOf[x] = Append(ProofFor(branch, low, middle, old), TreeHash(branch, middle, high))
    BY <1>7, <2>1 DEF ProofFor
  <2>4. middle < old => ProofOf[x] = Append(ProofFor(branch, middle, high, old), TreeHash(branch, low, middle))
    <3>1. middle < old => ~(old <= middle)
      BY <1>1, <2>2
    <3> QED
      BY <1>7, <2>1, <2>2, <3>1 DEF ProofFor
  <2> QED
    BY <1>4, <1>5, <2>1, <2>3, <2>4
<1> QED
  BY <1>1, <1>8, <1>9

(* What the walk over a proof has come to after the hashes it has for one  *)
(* part of the tree: by induction over how many entries the part has.      *)
Reaches(walk, start, hashes, branch, low, high, old, new, level) ==
  /\ LevelsOf(high - low, level)
  /\ \E a \in Nat : Multiple(low, a, level)
  /\ low < old /\ old <= high /\ high <= new
  /\ high = new \/ high = low + PowerOf2[level]
  /\ old = high => /\ high = low + PowerOf2[level]
                   /\ \E c \in Nat : Multiple(low, 2 * c, level)
  /\ BeginsWith(hashes, ProofFor(branch, low, high, old))
  => LET taken == Len(ProofFor(branch, low, high, old))
     IN start <= taken /\ Walked(walk[taken], branch, low, high, old, new, level)

LEMMA ReachesAll ==
  ASSUME NEW branch \in Branches, NEW old \in Sizes, NEW new \in Sizes,
         NEW newRoot, NEW hashes, Len(hashes) \in Nat, NEW walk, NEW start,
         ConsistencyWalk(walk, start, old, new, TreeHash(branch, 0, old), newRoot, hashes),
         NEW low \in Positions, NEW high \in Positions, NEW level,
         \A lo, hi \in Positions, l \in Positions : hi - lo < high - low =>
            Reaches(walk, start, hashes, branch, lo, hi, old, new, l)
  PROVE  Reaches(walk, start, hashes, branch, low, high, old, new, level)
<1>1. LargestTree \in Nat /\ Positions = 0..LargestTree /\ Sizes = 1..LargestTree
  BY MerkleAssumption DEF Positions, Sizes
<1> DEFINE part == ProofFor(branch, low, high, old)
<1> SUFFICES ASSUME LevelsOf(high - low, level), \E a \in Nat : Multiple(low, a, level),
                    low < old, old <= high, high <= new,
                    high = new \/ high = low + PowerOf2[level],
                    old = high => /\ high = low + PowerOf2[level]
                                  /\ \E c \in Nat : Multiple(low, 2 * c, level),
                    BeginsWith(hashes, part)
             PROVE  start <= Len(part) /\ Walked(walk[Len(part)], branch, low, high, old, new, level)
  BY DEF Reaches
<1>2. start \in {0, 1} /\ (start = 0 <=> Shifted(old - 1, Ones(old - 1)) = 0)
  BY DEF ConsistencyWalk
<1>3. walk[start] = StartOf(old, new, TreeHash(branch, 0, old), hashes)
  BY DEF ConsistencyWalk
<1>4. \A n \in (start + 1)..Len(hashes) : walk[n] = ConsistencyStep(walk[n - 1], hashes[n])
  BY DEF ConsistencyWalk
<1>5. PICK middle : middle = low + Split(high - low)
  OBVIOUS
<1>6. level \in Positions
  BY DEF LevelsOf
<1>7. CASE old = high
  <2>1. PICK c \in Nat : Multiple(low, 2 * c, level)
    BY <1>7
  <2>2. CASE low = 0
    <3>1. part = <<>> /\ Len(part) = 0
      BY <1>5, <1>7, <2>2, ProofForIs
    <3>2. /\ Walked(StartOf(old, new, TreeHash(branch, 0, old), hashes), branch, low, old, old, new, level)
          /\ (Shifted(old - 1, Ones(old - 1)) = 0) <=> (low = 0)
      BY <1>6, <1>7, <2>1, <2>2, FirstStep
    <3>3. start = 0
      BY <1>2, <2>2, <3>2
    <3> QED
      BY <1>3, <1>7, <3>1, <3>2, <3>3
  <2>3. CASE low # 0
    <3>1. part = <<TreeHash(branch, low, high)>>
      BY <1>5, <1>7, <2>3, ProofForIs
    <3>2. Len(part) = 1 /\ part[1] = TreeHash(branch, low, high) /\ 1 \in 1..Len(part)
      BY <3>1
    <3>3. hashes[1] = TreeHash(branch, low, old)
      BY <1>7, <3>2 DEF BeginsWith
    <3>4. /\ Walked(StartOf(old, new, TreeHash(branch, 0, old), hashes), branch, low, old, old, new, level)
          /\ (Shifted(old - 1, Ones(old - 1)) = 0) <=> (low = 0)
      BY <1>6, <1>7, <2>1, <3>3, FirstStep
    <3>5. start = 1
      BY <1>2, <2>3, <3>4
    <3> QED
      BY <1>3, <1>7, <3>2, <3>4, <3>5
  <2> QED
    BY <2>2, <2>3
<1>8. CASE old < high
  <2>1. low + 1 < high
    BY <1>1, <1>8
  <2>2. middle \in Positions /\ low < middle /\ middle < high
    BY <1>5, <2>1, MiddleFacts
  <2>3. PICK l \in Positions : l + 1 = level
    <3>1. level # 0
      <4>1. level = 0 => high - low <= 1
        BY PowerExists DEF LevelsOf
      <4> QED
        BY <1>1, <2>1, <4>1
    <3>2. level - 1 \in Positions /\ (level - 1) + 1 = level
      BY <1>1, <1>6, <3>1
    <3> QED
      BY <3>2
  <2>4. PICK p \in Nat : p = PowerOf2[l] /\ PowerOf2[level] = 2 * p
    BY <1>6, <2>3, PowerOrder
  <2>5. high - low \in Nat /\ p < high - low /\ high - low <= 2 * p
    <3>1. level > 0 /\ level - 1 = l
      BY <1>1, <2>3
    <3> QED
      BY <1>1, <2>1, <2>4, <3>1 DEF LevelsOf
  <2>6. middle = low + p
    BY <1>5, <2>4, <2>5, SplitIs
  <2>7. PICK a \in Nat : Multiple(low, a, l + 1)
    BY <2>3
  <2>8. PICK c \in Nat : c = (2 * a) * p /\ low = c
    <3>1. low = a * (2 * p)
      BY <2>3, <2>4, <2>7 DEF Multiple
    <3> QED
      BY <3>1, Products
  <2>9. CASE old <= middle
    <3> DEFINE before == ProofFor(branch, low, middle, old)
    <3>1. part = Append(before, TreeHash(branch, middle, high)) /\ before \in Seq(Hashes)
      <4>1. part = Append(before, TreeHash(branch, middle, high))
        BY <1>5, <1>8, <2>9, ProofForIs
      <4>2. PICK m : m = low + Split(middle - low)
        OBVIOUS
      <4>3. before \in Seq(Hashes)
        BY <2>2, <2>9, <4>2, ProofForIs
      <4> QED
        BY <4>1, <4>3
    <3> HIDE DEF before, part
    <3>2. /\ Len(before) \in Nat /\ Len(part) = Len(before) + 1 /\ Len(before) + 1 <= Len(hashes)
          /\ BeginsWith(hashes, before) /\ hashes[Len(before) + 1] = TreeHash(branch, middle, high)
      BY <3>1, BeginsWithLast
    <3>3. start <= Len(before) /\ Walked(walk[Len(before)], branch, low, middle, old, new, l)
      <4>1. Reaches(walk, start, hashes, branch, low, middle, old, new, l)
        <5>1. middle - low < high - low
          BY <1>1, <2>2
        <5> QED
          BY <2>2, <5>1
      <4>2. LevelsOf(middle - low, l)
        <5>1. middle - low = p
          BY <1>1, <2>4, <2>6
        <5>2. l > 0 => PowerOf2[l - 1] < PowerOf2[l]
          <6> SUFFICES ASSUME l > 0 PROVE PowerOf2[l - 1] < PowerOf2[l]
            OBVIOUS
          <6>1. l - 1 \in Positions /\ l - 1 < l /\ 0 <= l - 1
            BY <1>1
          <6>2. PowerOf2[l - 1] \in Nat /\ l - 1 < PowerOf2[l - 1] /\ 2 * PowerOf2[l - 1] <= PowerOf2[l]
            BY <6>1, PowerOrder
          <6>3. PICK q \in Nat : q = PowerOf2[l - 1] /\ l - 1 < q
            BY <6>2
          <6>4. 2 * q <= p /\ 0 < q
            BY <1>1, <2>4, <6>1, <6>2, <6>3
          <6> QED
            BY <2>4, <6>3, <6>4
        <5> QED
          BY <2>4, <5>1, <5>2 DEF LevelsOf
      <4>3. 2 * a \in Nat /\ Multiple(low, 2 * a, l)
        BY <2>4, <2>8 DEF Multiple
      <4>4. middle = low + PowerOf2[l] /\ middle <= new
        BY <1>1, <2>2, <2>4, <2>6
      <4>5. BeginsWith(hashes, ProofFor(branch, low, middle, old))
        BY <3>2 DEF before
      <4>6. LET taken == Len(ProofFor(branch, low, middle, old))
            IN start <= taken /\ Walked(walk[taken], branch, low, middle, old, new, l)
        BY <2>9, <4>1, <4>2, <4>3, <4>4, <4>5 DEF Reaches
      <4> QED
        BY <4>6 DEF before
    <3>4. walk[Len(part)] = ConsistencyStep(walk[Len(before)], TreeHash(branch, middle, high))
      <4>1. Len(part) \in (start + 1)..Len(hashes) /\ Len(part) - 1 = Len(before)
        BY <1>2, <3>2, <3>3
      <4> QED
        BY <1>4, <3>2, <4>1
    <3>5. middle = low + PowerOf2[l] /\ high <= low + 2 * PowerOf2[l]
      BY <1>1, <2>4, <2>5, <2>6
    <3>6. Walked(ConsistencyStep(walk[Len(before)], TreeHash(branch, middle, high)),
                 branch, low, high, old, new, l + 1)
      BY <1>6, <2>2, <2>3, <2>7, <3>3, <3>5, LeftStep
    <3>7. start <= Len(part)
      BY <1>2, <3>2, <3>3
    <3> QED
      BY <2>3, <3>4, <3>6, <3>7
  <2>10. CASE middle < old
    <3> DEFINE before == ProofFor(branch, middle, high, old)
    <3>1. part = Append(before, TreeHash(branch, low, middle)) /\ before \in Seq(Hashes)
      <4>1. part = Append(before, TreeHash(branch, low, middle))
        BY <1>5, <1>8, <2>10, ProofForIs
      <4>2. PICK m : m = middle + Split(high - middle)
        OBVIOUS
      <4>3. before \in Seq(Hashes)
        BY <2>2, <2>10, <4>2, ProofForIs
      <4> QED
        BY <4>1, <4>3
    <3> HIDE DEF before, part
    <3>2. /\ Len(before) \in Nat /\ Len(part) = Len(before) + 1 /\ Len(before) + 1 <= Len(hashes)
          /\ BeginsWith(hashes, before) /\ hashes[Len(before) + 1] = TreeHash(branch, low, middle)
      BY <3>1, BeginsWithLast
    <3>3. PICK r \in Positions : LevelsOf(high - middle, r)
      <4>1. high - middle \in 1..LargestTree
        BY <1>1, <2>2
      <4> QED
        BY <4>1, LevelExists
    <3>4. r <= l
      <4> SUFFICES ASSUME l < r PROVE FALSE
        BY <1>1
      <4>1. r > 0 /\ r - 1 \in Positions /\ (l = r - 1 \/ l < r - 1)
        BY <1>1
      <4>2. p <= PowerOf2[r - 1] /\ PowerOf2[r - 1] \in Nat
        <5>1. l < r - 1 => 2 * PowerOf2[l] <= PowerOf2[r - 1]
          BY <4>1, PowerOrder
        <5>2. PowerOf2[r - 1] \in Nat
          BY <4>1, PowerOrder
        <5> QED
          BY <2>4, <4>1, <5>1, <5>2
      <4>3. PowerOf2[r - 1] < high - middle
        BY <3>3, <4>1 DEF LevelsOf
      <4>4. high - middle <= p
        BY <1>1, <2>5, <2>6
      <4> QED
        BY <1>1, <2>2, <4>2, <4>3, <4>4
    <3>5. r = l \/ (high = new /\ high # low + 2 * p)
      <4> SUFFICES ASSUME r # l PROVE high = new /\ high # low + 2 * p
        OBVIOUS
      <4>1. r < l
        BY <1>1, <3>4
      <4>2. high - middle <= PowerOf2[r] /\ 2 * PowerOf2[r] <= p /\ PowerOf2[r] \in Nat
        BY <2>4, <3>3, <4>1, PowerOrder DEF LevelsOf
      <4>3. high # low + 2 * p
        BY <1>1, <2>2, <2>6, <4>2
      <4> QED
        BY <2>4, <4>3
    <3>6. high = new \/ high = middle + PowerOf2[r]
      <4>1. CASE r = l
        <5>1. high = low + 2 * p => high = middle + p
          BY <1>1, <2>6
        <5> QED
          BY <2>4, <4>1, <5>1
      <4> QED
        BY <3>5, <4>1
    <3>7. r = l \/ (high = new /\ high - middle <= PowerOf2[r])
      BY <3>3, <3>5 DEF LevelsOf
    <3>8. \E i \in Nat : Multiple(middle, i, r)
      <4>1. PICK j \in Positions : r + j = l
        <5>1. l - r \in Positions /\ r + (l - r) = l
          BY <1>1, <3>4
        <5> QED
          BY <5>1
      <4>2. PICK q \in Nat : q = PowerOf2[r]
        BY PowerOrder
      <4>3. PICK e \in Nat : e = PowerOf2[j]
        BY PowerOrder
      <4>4. p = e * q
        BY <2>4, <4>1, <4>2, <4>3, PowerSum
      <4>5. middle = (2 * a + 1) * p
        BY <2>6, <2>8, Products
      <4>6. PICK f \in Nat : f = (2 * a + 1) * e
        BY Products
      <4>7. middle = f * q
        BY <4>4, <4>5, <4>6
      <4> QED
        BY <4>2, <4>7 DEF Multiple
    <3>9. start <= Len(before) /\ Walked(walk[Len(before)], branch, middle, high, old, new, r)
      <4>1. Reaches(walk, start, hashes, branch, middle, high, old, new, r)
        <5>1. high - middle < high - low
          BY <1>1, <2>2
        <5> QED
          BY <2>2, <5>1
      <4>2. old # high
        BY <1>1, <1>8
      <4>3. BeginsWith(hashes, ProofFor(branch, middle, high, old))
        BY <3>2 DEF before
      <4>4. LET taken == Len(ProofFor(branch, middle, high, old))
            IN start <= taken /\ Walked(walk[taken], branch, middle, high, old, new, r)
        BY <2>10, <3>3, <3>6, <3>8, <4>1, <4>2, <4>3 DEF Reaches
      <4> QED
        BY <4>4 DEF before
    <3>10. walk[Len(part)] = ConsistencyStep(walk[Len(before)], TreeHash(branch, low, middle))
      <4>1. Len(part) \in (start + 1)..Len(hashes) /\ Len(part) - 1 = Len(before)
        BY <1>2, <3>2, <3>9
      <4> QED
        BY <1>4, <3>2, <4>1
    <3>11. middle = low + PowerOf2[l] /\ high <= low + 2 * PowerOf2[l]
      BY <1>1, <2>4, <2>5, <2>6
    <3>12. Walked(ConsistencyStep(walk[Len(before)], TreeHash(branch, low, middle)),
                  branch, low, high, old, new, l + 1)
      BY <1>6, <2>2, <2>3, <2>7, <2>10, <3>4, <3>7, <3>9, <3>11, RightStep
    <3>13. start <= Len(part)
      BY <1>2, <3>2, <3>9
    <3> QED
      BY <2>3, <3>10, <3>12, <3>13
  <2> QED
    BY <1>1, <2>2, <2>9, <2>10
<1> QED
  BY <1>1, <1>7, <1>8

(* The consistency proof that RFC 6962 has for two trees of one branch is  *)
(* accepted.                                                               *)
LEMMA ConsistencyComplete ==
  ASSUME NEW branch \in Branches, NEW old \in Sizes, NEW new \in Sizes, old < new
  PROVE  ConsistencyHolds(old, new, TreeHash(branch, 0, old), TreeHash(branch, 0, new),
                          ProofFor(branch, 0, new, old))
<1>1. LargestTree \in Nat /\ Positions = 0..LargestTree /\ Sizes = 1..LargestTree
  BY MerkleAssumption DEF Positions, Sizes
<1> DEFINE hashes == ProofFor(branch, 0, new, old)
           oldRoot == TreeHash(branch, 0, old)
           newRoot == TreeHash(branch, 0, new)
<1>2. 0 \in Positions /\ new \in Positions /\ 0 < old /\ old <= new
  BY <1>1
<1>3. hashes \in Seq(Hashes) /\ hashes # <<>> /\ Len(hashes) \in Nat \ {0}
  <2>1. PICK middle : middle = 0 + Split(new - 0)
    OBVIOUS
  <2>2. 0 + 1 < new /\ middle \in Positions /\ 0 < middle /\ middle < new
    <3>1. 0 + 1 < new
      BY <1>1
    <3> QED
      BY <1>2, <2>1, <3>1, MiddleFacts
  <2>3. \E h, y : y \in Seq(Hashes) /\ hashes = Append(y, h)
    <3>1. CASE old <= middle
      <4>1. PICK m : m = 0 + Split(middle - 0)
        OBVIOUS
      <4>2. ProofFor(branch, 0, middle, old) \in Seq(Hashes)
        BY <1>2, <2>2, <3>1, <4>1, ProofForIs
      <4>3. hashes = Append(ProofFor(branch, 0, middle, old), TreeHash(branch, middle, new))
        BY <1>2, <2>1, <3>1, ProofForIs
      <4> QED
        BY <4>2, <4>3
    <3>2. CASE middle < old
      <4>1. PICK m : m = middle + Split(new - middle)
        OBVIOUS
      <4>2. ProofFor(branch, middle, new, old) \in Seq(Hashes)
        BY <1>2, <2>2, <3>2, <4>1, ProofForIs
      <4>3. hashes = Append(ProofFor(branch, middle, new, old), TreeHash(branch, 0, middle))
        BY <1>2, <2>1, <3>2, ProofForIs
      <4> QED
        BY <4>2, <4>3
    <3> QED
      BY <1>1, <2>2, <3>1, <3>2
  <2>4. hashes \in Seq(Hashes)
    BY <1>2, <2>1, ProofForIs
  <2>5. PICK y \in Seq(Hashes) : \E h : hashes = Append(y, h)
    BY <2>3
  <2> HIDE DEF hashes
  <2>6. Len(hashes) = Len(y) + 1 /\ Len(y) \in Nat
    BY <2>5
  <2> QED
    BY <2>4, <2>6
<1> HIDE DEF hashes
<1>4. PICK walk, start : ConsistencyWalk(walk, start, old, new, oldRoot, newRoot, hashes)
  BY <1>3, ConsistencyWalkExists
<1> DEFINE A == {n \in Nat : \A low, high \in Positions, l \in Positions :
                    high - low < n => Reaches(walk, start, hashes, branch, low, high, old, new, l)}
<1>5. 0 \in A
  <2> SUFFICES ASSUME NEW low \in Positions, NEW high \in Positions, NEW l \in Positions, high - low < 0
               PROVE  Reaches(walk, start, hashes, branch, low, high, old, new, l)
    OBVIOUS
  <2>1. ~(low < old /\ old <= high)
    BY <1>1
  <2> QED
    BY <2>1 DEF Reaches
<1>6. ASSUME NEW n \in Nat, n \in A PROVE n + 1 \in A
  <2> SUFFICES ASSUME NEW low \in Positions, NEW high \in Positions, NEW l \in Positions, high - low < n + 1
               PROVE  Reaches(walk, start, hashes, branch, low, high, old, new, l)
    OBVIOUS
  <2>1. \A lo, hi \in Positions, k \in Positions : hi - lo < high - low =>
          Reaches(walk, start, hashes, branch, lo, hi, old, new, k)
    <3> SUFFICES ASSUME NEW lo \in Positions, NEW hi \in Positions, NEW k \in Positions, hi - lo < high - low
                 PROVE  Reaches(walk, start, hashes, branch, lo, hi, old, new, k)
      OBVIOUS
    <3>1. hi - lo < n
      BY <1>1
    <3> QED
      BY <1>6, <3>1
  <2>2. Len(hashes) \in Nat
    BY <1>3
  <2> QED
    BY <1>4, <2>1, <2>2, ReachesAll
<1>7. PICK l \in Positions : LevelsOf(new - 0, l)
  <2>1. new - 0 \in 1..LargestTree
    BY <1>1
  <2> QED
    BY <2>1, LevelExists
<1>8. Reaches(walk, start, hashes, branch, 0, new, old, new, l)
  <2>1. new + 1 \in A
    <3>1. new + 1 \in Nat
      BY <1>1
    <3> HIDE DEF A
    <3> QED
      BY <1>5, <1>6, <3>1, InductiveSet
  <2>2. new - 0 < new + 1
    BY <1>1
  <2> QED
    BY <1>2, <2>1, <2>2
<1>9. Walked(walk[Len(hashes)], branch, 0, new, old, new, l)
  <2>1. Multiple(0, 0, l)
    <3>1. PowerOf2[l] \in Nat
      BY PowerOrder
    <3> QED
      BY <3>1 DEF Multiple
  <2>2. BeginsWith(hashes, ProofFor(branch, 0, new, old))
    <3>1. Len(hashes) <= Len(hashes)
      BY <1>3
    <3> QED
      BY <3>1 DEF BeginsWith, hashes
  <2>3. old # new
    BY <1>1
  <2>4. LET taken == Len(ProofFor(branch, 0, new, old))
        IN start <= taken /\ Walked(walk[taken], branch, 0, new, old, new, l)
    <3>1. 0 \in Nat /\ new <= new
      BY <1>1
    <3> QED
      BY <1>2, <1>7, <1>8, <2>1, <2>2, <2>3, <3>1 DEF Reaches
  <2> QED
    BY <2>4 DEF hashes
<1>10. Shifted(new - 1, l) = 0
  <2>1. PICK p \in Nat : p = PowerOf2[l]
    BY PowerOrder
  <2>2. 0 * p = 0
    OBVIOUS
  <2>3. new - 1 \in Nat /\ 0 <= new - 1 /\ new - 1 < 0 + p
    BY <1>1, <1>7, <2>1 DEF LevelsOf
  <2>4. Leaves(new - 1, 0, l)
    BY <2>1, <2>2, <2>3 DEF Leaves
  <2> QED
    BY <2>3, <2>4, ShiftIs
<1>11. ConsistencyHolds(old, new, oldRoot, newRoot, hashes)
  BY <1>2, <1>3, <1>4, <1>9, <1>10 DEF ConsistencyWalk, Walked
<1> QED
  BY <1>11 DEF hashes

-----------------------------------------------------------------------------
MerkleTyped == vector \in {NoVector} \cup {v \in InclusionVectors : v.path[2] < v.path[3]}
                                     \cup {v \in ConsistencyVectors : v.proof[2] < v.proof[3]}

(* Whatever path or proof a verifier is offered, for trees of every size   *)
(* (supply_chain_bundle.py, _inclusion_root and _verify_consistency).      *)
THEOREM ProofsAreSoundHolds == MerkleSpec => []ProofsAreSound
<1>1. MerkleInit => MerkleTyped
  BY DEF MerkleInit, MerkleTyped
<1>2. MerkleTyped /\ [MerkleNext]_vector => MerkleTyped'
  BY DEF MerkleTyped, MerkleNext, OfferInclusion, OfferConsistency
<1>3. MerkleTyped => ProofsAreSound
  <2> SUFFICES ASSUME MerkleTyped PROVE ProofsAreSound
    OBVIOUS
  <2>1. LargestTree \in Nat /\ Positions = 0..LargestTree /\ Sizes = 1..LargestTree
    BY MerkleAssumption DEF Positions, Sizes
  <2>2. ASSUME vector.kind = "inclusion", Included(vector)
        PROVE  vector.index < vector.size /\ vector.entry = Entry(vector.branch, vector.index)
    <3>1. vector \in InclusionVectors
      BY <2>2 DEF MerkleTyped, NoVector, ConsistencyVectors
    <3>2. /\ vector.branch \in Branches /\ vector.index \in Nat /\ vector.size \in Sizes
          /\ vector.path[1] \in Branches /\ vector.path[2] \in Positions /\ vector.path[3] \in Positions
      BY <2>1, <3>1 DEF InclusionVectors, Branches
    <3> DEFINE hashes == Path(vector.path[1], vector.path[2], vector.path[3])
    <3>3. Len(hashes) \in Positions
      <4>1. <<<<vector.path[1], 0, vector.path[3]>>, vector.path[2]>> \in Nodes \X Positions
        BY <2>1, <3>2 DEF Nodes
      <4>2. hashes \in Seq(Hashes) /\ Len(hashes) <= LargestTree
        BY <4>1, PathFacts DEF Path
      <4> QED
        BY <2>1, <4>2
    <3>4. InclusionRoot(vector.entry, vector.index, vector.size, hashes)
            = TreeHash(vector.branch, 0, vector.size)
      BY <2>2 DEF Included, Root
    <3> HIDE DEF hashes
    <3> QED
      BY <3>2, <3>3, <3>4, InclusionSound
  <2>3. ASSUME vector.kind = "consistency"
        PROVE  /\ vector.oldBranch \in Branches /\ vector.newBranch \in Branches
               /\ vector.old \in Sizes /\ vector.new \in Sizes
               /\ vector.proof[1] \in Branches /\ vector.proof[2] \in Sizes /\ vector.proof[3] \in Positions
    <3>1. vector \in ConsistencyVectors
      BY <2>3 DEF MerkleTyped, NoVector, InclusionVectors
    <3> QED
      BY <2>1, <3>1 DEF ConsistencyVectors, Branches
  <2>4. ASSUME vector.kind = "consistency", Consistent(vector)
        PROVE  /\ vector.old < vector.new
               /\ vector.oldBranch = vector.newBranch \/ vector.old <= CommonPrefix
    <3>1. /\ vector.oldBranch \in Branches /\ vector.newBranch \in Branches
          /\ vector.old \in Sizes /\ vector.new \in Sizes
          /\ vector.proof[1] \in Branches /\ vector.proof[2] \in Sizes /\ vector.proof[3] \in Positions
      BY <2>3, <2>4
    <3> DEFINE hashes == Proof(vector.proof[1], vector.proof[2], vector.proof[3])
    <3>2. hashes \in Seq(Hashes)
      <4>1. <<vector.proof[1], 0, vector.proof[3]>> \in Nodes /\ TRUE \in BOOLEAN
        BY <2>1, <3>1 DEF Nodes
      <4>2. <<<<vector.proof[1], 0, vector.proof[3]>>, vector.proof[2], TRUE>> \in Proven
        BY <3>1, <4>1 DEF Proven
      <4> QED
        BY <4>2, ProofExists DEF Proof
    <3>3. ConsistencyHolds(vector.old, vector.new, TreeHash(vector.oldBranch, 0, vector.old),
                           TreeHash(vector.newBranch, 0, vector.new), hashes)
      BY <2>4 DEF Consistent, Root
    <3> HIDE DEF hashes
    <3>4. Len(hashes) \in Nat /\ (hashes = <<>> \/ Len(hashes) # 0)
      BY <3>2
    <3>5. vector.old < vector.new /\ Common(vector.oldBranch, vector.newBranch, 0, vector.old)
      BY <3>1, <3>3, <3>4, ConsistencySound
    <3> QED
      BY <3>1, <3>5, CommonEntries
  <2>5. ASSUME vector.kind = "consistency", vector.old < vector.new,
               vector.oldBranch = vector.newBranch,
               vector.proof = <<vector.newBranch, vector.old, vector.new>>
        PROVE  Consistent(vector)
    <3>1. /\ vector.newBranch \in Branches /\ vector.old \in Sizes /\ vector.new \in Sizes
      BY <2>3, <2>5
    <3>2. Proof(vector.proof[1], vector.proof[2], vector.proof[3])
            = ProofFor(vector.newBranch, 0, vector.new, vector.old)
      <4>1. vector.old - 0 = vector.old
        BY <2>1, <3>1
      <4>2. (0 = 0) = TRUE
        OBVIOUS
      <4>3. ProofFor(vector.newBranch, 0, vector.new, vector.old)
              = ProofOf[<<<<vector.newBranch, 0, vector.new>>, vector.old, TRUE>>]
        BY <4>1, <4>2, Zenon DEF ProofFor
      <4>4. /\ vector.proof[1] = vector.newBranch /\ vector.proof[2] = vector.old
            /\ vector.proof[3] = vector.new
        BY <2>5
      <4> QED
        BY <4>3, <4>4, Zenon DEF Proof
    <3> QED
      BY <2>5, <3>1, <3>2, ConsistencyComplete DEF Consistent, Root
  <2> QED
    BY <2>2, <2>4, <2>5 DEF ProofsAreSound
<1> QED
  BY <1>1, <1>2, <1>3, PTL DEF MerkleSpec
===============================================================================
