-------------------------------- MODULE Secrets --------------------------------
(***************************************************************************)
(* ScopedSecretBroker (secret_broker.py): bearer handles for environment   *)
(* aliases, which trusted consumers spend from any thread.                 *)
(***************************************************************************)
EXTENDS Naturals

CONSTANTS Handles,   \* tokens, each drawn once
          Spenders,  \* threads in consume
          SecretScopes, Trusted, \* scopes, and those whose provider has a trusted consumer
          MaxUses,   \* bound of uses_remaining (MAX_USES)
          Ttl,       \* lifetime of a handle (at most MAX_TTL_SECONDS)
          LastTime,  \* bound of the clock
          Unscoped

ASSUME SecretsAssumption == MaxUses \in Nat /\ Ttl \in Nat /\ LastTime \in Nat

VARIABLES leases,    \* _leases: handle -> lease; granted is history, the max_uses
                     \* of its issue, of which the code keeps what remains
          now,       \* the clock
          alias,     \* whether the environment has a value for the alias
          spend,     \* threads in consume
          spent      \* history: uses handed out per handle

secrets == <<leases, now, alias, spend, spent>>

Lease == [state : {"free", "live", "gone"}, scope : SecretScopes \union {Unscoped},
          expires : 0..(LastTime + Ttl), remaining : 0..MaxUses, granted : 0..MaxUses]
Resting == [pc |-> "idle"]

SecretsInit ==
  /\ leases = [h \in Handles |-> [state |-> "free", scope |-> Unscoped,
                                  expires |-> 0, remaining |-> 0, granted |-> 0]]
  /\ now = 0 /\ alias = TRUE
  /\ spend = [s \in Spenders |-> Resting]
  /\ spent = [h \in Handles |-> 0]

-----------------------------------------------------------------------------
(* The broker.                                                             *)

Issue(h, scope, uses) ==
  /\ leases[h].state = "free" /\ scope \in Trusted /\ uses \in 1..MaxUses
  /\ leases' = [leases EXCEPT ![h] = [state |-> "live", scope |-> scope,
                                      expires |-> now + Ttl, remaining |-> uses, granted |-> uses]]
  /\ UNCHANGED <<now, alias, spend, spent>>

(* consume takes its timestamp before it takes the lock.                   *)
BeginConsume(s, h, scope) ==
  /\ spend[s].pc \in {"idle", "delivered", "failed", "refused"}
  /\ spend' = [spend EXCEPT ![s] = [pc |-> "admitting", handle |-> h, scope |-> scope,
                                    time |-> now]]
  /\ UNCHANGED <<leases, now, alias, spent>>

Gone(lease) == [lease EXCEPT !.state = "gone"]
Expired(lease, time) == time >= lease.expires
Spend(lease) ==
  LET left == [lease EXCEPT !.remaining = @ - 1] IN
  IF left.remaining = 0 THEN Gone(left) ELSE left

MayUse(s, lease) ==
  lease.state = "live" /\ ~Expired(lease, spend[s].time) /\ lease.scope = spend[s].scope

(* Faulty: the lease is checked, and the lock taken again to spend it.     *)
AdmitInTwoSteps(s) ==
  LET h == spend[s].handle IN
  /\ spend[s].pc = "admitting" /\ UNCHANGED <<now, alias>>
  /\ IF "read" \in DOMAIN spend[s]
     THEN /\ leases' = [leases EXCEPT ![h] = Spend(spend[s].read)]
          /\ spend' = [spend EXCEPT ![s].pc = "resolving"]
          /\ spent' = [spent EXCEPT ![h] = @ + 1]
     ELSE /\ MayUse(s, leases[h])
          /\ spend' = [spend EXCEPT ![s] = [pc |-> "admitting", handle |-> h, scope |-> @.scope,
                                           time |-> @.time, read |-> leases[h]]]
          /\ UNCHANGED <<leases, spent>>

(* _admit, under the lock.                                                 *)
AdmitUse(s) ==
  LET h == spend[s].handle
      lease == leases[h]
      admitted == MayUse(s, lease)
  IN
  /\ spend[s].pc = "admitting"
  /\ leases' = [leases EXCEPT ![h] =
                  IF lease.state # "live" THEN lease
                  ELSE IF Expired(lease, spend[s].time) THEN Gone(lease)
                  ELSE IF admitted THEN Spend(lease) ELSE lease]
  /\ spend' = [spend EXCEPT ![s].pc = IF admitted THEN "resolving" ELSE "refused"]
  /\ spent' = IF admitted THEN [spent EXCEPT ![h] = @ + 1] ELSE spent
  /\ UNCHANGED <<now, alias>>

(* The alias is resolved and handed to the consumer, which may raise: a    *)
(* use is spent either way.                                                *)
Deliver(s) ==
  /\ spend[s].pc = "resolving"
  /\ \E end \in {"delivered", "failed"} :
       /\ end = "delivered" => alias
       /\ spend' = [spend EXCEPT ![s].pc = end]
  /\ UNCHANGED <<leases, now, alias, spent>>

Revoke(h) ==
  /\ leases[h].state = "live"
  /\ leases' = [leases EXCEPT ![h] = Gone(@)]
  /\ UNCHANGED <<now, alias, spend, spent>>

-----------------------------------------------------------------------------
SecondPasses ==
  /\ now < LastTime /\ now' = now + 1
  /\ UNCHANGED <<leases, alias, spend, spent>>

(* The operator removes the value from the environment or sets it again.   *)
ToggleAlias == alias' = ~alias /\ UNCHANGED <<leases, now, spend, spent>>

SecretsNext ==
  \/ \E h \in Handles :
       \/ \E scope \in SecretScopes, uses \in 1..MaxUses : Issue(h, scope, uses)
       \/ Revoke(h)
  \/ \E s \in Spenders :
       \/ \E h \in Handles, scope \in SecretScopes : BeginConsume(s, h, scope)
       \/ AdmitUse(s) \/ Deliver(s)
  \/ SecondPasses \/ ToggleAlias

SecretsSpec == SecretsInit /\ [][SecretsNext]_secrets

-----------------------------------------------------------------------------
(* Properties.                                                             *)

SecretsTypeOK ==
  /\ leases \in [Handles -> Lease]
  /\ now \in 0..LastTime /\ alias \in BOOLEAN
  /\ \A s \in Spenders : spend[s].pc \in {"idle", "admitting", "resolving", "delivered",
                                          "failed", "refused"}

(* A handle is never spent more often than the max_uses it was issued      *)
(* with, however many threads consume it at once; no use is lost, and one  *)
(* that the consumer failed stays spent.                                   *)
UsesAreBounded ==
  \A h \in Handles :
    /\ spent[h] <= leases[h].granted
    /\ leases[h].state = "live" =>
         leases[h].remaining >= 1 /\ spent[h] + leases[h].remaining = leases[h].granted

(* The secret reaches only the consumer of the scope the handle was issued *)
(* for, on a call that began before the handle expired.                    *)
DeliveredInScope ==
  \A s \in Spenders :
    spend[s].pc \in {"resolving", "delivered"} =>
      /\ spend[s].scope = leases[spend[s].handle].scope
      /\ spend[s].scope \in Trusted
      /\ spend[s].time < leases[spend[s].handle].expires

(* A handle that was revoked, has expired or is used up admits nobody.     *)
GoneIsGone ==
  [][\A h \in Handles :
       leases[h].state = "gone" => leases'[h] = leases[h] /\ spent'[h] = spent[h]]_secrets

(* A lease is delivered in its scope, as often as it was issued for, and   *)
(* never again once it is gone.                                            *)
SecretsAreBounded == [](SecretsTypeOK /\ UsesAreBounded /\ DeliveredInScope) /\ GoneIsGone
=============================================================================
