------------------------------ MODULE GrantPolicy ------------------------------
(***************************************************************************)
(* PrincipalGrantPolicy (grant_policy.py): documents of grants per         *)
(* identity, replaced by compare and set; a session takes one immutable    *)
(* snapshot, and its decisions (authorization.py) are about a capability   *)
(* together with what it depends on.                                       *)
(***************************************************************************)
EXTENDS Naturals, Sequences, FiniteSets, FiniteSetsExt

CONSTANTS
  Principals, Administrators, \* targets, and actors of set
  MayAdminister,  \* <<actor, target>>: a policy admin of the same tenant
  Documents,      \* provider -> permission -> field -> what is allowed
  Closures,       \* <<capability, its dependencies ...>>
  ProviderOf, PermissionsOf, \* of a manifest
  FieldsOf,       \* permission -> the fields of its category
  Within,         \* <<path, directory>>: is_relative_to, which compares names
  CanonicalOf,    \* where links lead a path; a host or a method as it is spelt
  Arguments,      \* field -> value, for the fields a call has
  PolicySessions, \* authorizers
  MaxRevision

(* A path below a directory is below whatever that one is below.           *)
ASSUME WithinAssumption == \A x, y \in Within : x[2] = y[1] => <<x[1], y[2]>> \in Within

VARIABLES
  policies,  \* principal_grant_policies: principal -> revision and document
  grantAudit,\* principal_grant_audit, with the revision its author had read
  editor,    \* the revision and target each administrator has read
  snapshot,  \* the policy each session was given
  decision   \* the last decision of each session

grantPolicy == <<policies, grantAudit, editor, snapshot, decision>>

NoDecision == [kind |-> "none"]
NoEdit == [target |-> "none"]
FirstPolicy == [revision |-> 0, document |-> <<>>]  \* no row: nothing granted

GrantPolicyInit ==
  /\ policies = [p \in Principals |-> FirstPolicy]
  /\ grantAudit = <<>>
  /\ editor = [a \in Administrators |-> NoEdit]
  /\ snapshot = [s \in PolicySessions |-> FirstPolicy]
  /\ decision = [s \in PolicySessions |-> NoDecision]

-----------------------------------------------------------------------------
(* The store.                                                              *)

(* policy.query of the target, whose revision the caller will expect.      *)
ReadPolicy(a, p) ==
  /\ editor' = [editor EXCEPT ![a] = [target |-> p, revision |-> policies[p].revision]]
  /\ UNCHANGED <<policies, grantAudit, snapshot, decision>>

AsExpectedOrLater(a) ==  \* faulty: a revision that moved on passes
  policies[editor[a].target].revision >= editor[a].revision
AsExpected(a) == policies[editor[a].target].revision = editor[a].revision

(* set, in one transaction: the row, its new revision and its audit row.   *)
SetPolicy(a, document) ==
  LET p == editor[a].target
      revision == policies[p].revision + 1
  IN
  /\ editor[a] # NoEdit /\ <<a, p>> \in MayAdminister
  /\ AsExpected(a) /\ revision <= MaxRevision
  /\ policies' = [policies EXCEPT ![p] = [revision |-> revision, document |-> document]]
  /\ grantAudit' = Append(grantAudit, [target |-> p, revision |-> revision, actor |-> a,
                                       document |-> document, read |-> editor[a].revision])
  /\ UNCHANGED <<editor, snapshot, decision>>

OpenSession(s, p) ==
  /\ snapshot' = [snapshot EXCEPT ![s] = policies[p]]
  /\ decision' = [decision EXCEPT ![s] = NoDecision]
  /\ UNCHANGED <<policies, grantAudit, editor>>

-----------------------------------------------------------------------------
(* PrincipalPolicyAuthorizer: the constraints of each permission of the    *)
(* closure, in its order, and what is left of them together.               *)

NeededPermissions(closure) == UNION {PermissionsOf[closure[i]] : i \in DOMAIN closure}
Grants(document, m) ==
  IF ProviderOf[m] \in DOMAIN document THEN document[ProviderOf[m]] ELSE <<>>
NeededBy(closure, permission) ==
  {i \in DOMAIN closure : permission \in PermissionsOf[closure[i]]}
Ungranted(document, closure, permission) ==
  \E i \in NeededBy(closure, permission) : permission \notin DOMAIN Grants(document, closure[i])

InSome(path, roots) == \E root \in roots : <<path, root>> \in Within

(* _intersect: the first constraint's roots that lie in some root of every *)
(* other one, as they are written, links and all; of the other fields the  *)
(* values that all of them have.                                           *)
Intersect(document, closure, permission, field) ==
  LET users == NeededBy(closure, permission)
      values(i) == Grants(document, closure[i])[permission][field]
  IN {v \in values(Min(users)) :
        \A i \in users \ {Min(users)} : IF field = "path" THEN InSome(v, values(i)) ELSE v \in values(i)}

EffectiveGrants(document, closure) ==
  {permission \in NeededPermissions(closure) :
     /\ ~Ungranted(document, closure, permission)
     /\ \A field \in FieldsOf[permission] : Intersect(document, closure, permission, field) # {}}

Eligible(document, closure) == NeededPermissions(closure) \subseteq EffectiveGrants(document, closure)

(* _normalize_constraint and the reasons: both sides are resolved or spelt *)
(* canonically before they are compared.                                   *)
PermitsValue(field, value, allowed) ==
  LET canonical == {CanonicalOf[x] : x \in allowed} IN
  IF field = "path" THEN InSome(CanonicalOf[value], canonical) ELSE CanonicalOf[value] \in canonical

(* _argument_reasons: no field without a permission of its category, and   *)
(* every field of every permission present and allowed.                    *)
Authorized(document, closure, arguments) ==
  /\ Eligible(document, closure)
  /\ \A field \in DOMAIN arguments : \E permission \in NeededPermissions(closure) : field \in FieldsOf[permission]
  /\ \A permission \in NeededPermissions(closure) : \A field \in FieldsOf[permission] :
       /\ field \in DOMAIN arguments
       /\ PermitsValue(field, arguments[field], Intersect(document, closure, permission, field))

Authorize(s, closure, arguments) ==
  /\ decision' = [decision EXCEPT ![s] =
                    [kind |-> "execute", closure |-> closure, arguments |-> arguments,
                     allowed |-> Authorized(snapshot[s].document, closure, arguments)]]
  /\ UNCHANGED <<policies, grantAudit, editor, snapshot>>

-----------------------------------------------------------------------------
GrantPolicyNext ==
  \/ \E a \in Administrators, p \in Principals : ReadPolicy(a, p)
  \/ \E a \in Administrators, document \in Documents : SetPolicy(a, document)
  \/ \E s \in PolicySessions, p \in Principals : OpenSession(s, p)
  \/ \E s \in PolicySessions, closure \in Closures, arguments \in Arguments :
       Authorize(s, closure, arguments)

GrantPolicySpec == GrantPolicyInit /\ [][GrantPolicyNext]_grantPolicy

-----------------------------------------------------------------------------
(* What one manifest's own grants say of the arguments, some fields left   *)
(* out.                                                                    *)
OwnGrantPermits(document, m, arguments, left) ==
  \A permission \in PermissionsOf[m] :
    /\ permission \in DOMAIN Grants(document, m)
    /\ \A field \in FieldsOf[permission] \ left :
         /\ field \in DOMAIN arguments
         /\ PermitsValue(field, arguments[field], Grants(document, m)[permission][field])

EachPermits(s, left) ==
  \A i \in DOMAIN decision[s].closure :
    OwnGrantPermits(snapshot[s].document, decision[s].closure[i], decision[s].arguments, left)

(* No link leads a root that is left out of one that holds it by name.     *)
NestingKept(document, closure) ==
  \A permission \in EffectiveGrants(document, closure) : "path" \in FieldsOf[permission] =>
    \A root \in Intersect(document, closure, permission, "path"), i \in NeededBy(closure, permission) :
      \A wider \in Grants(document, closure[i])[permission]["path"] :
        <<root, wider>> \in Within => <<CanonicalOf[root], CanonicalOf[wider]>> \in Within

(* The audit of a principal is its revisions in order, the last of them    *)
(* the document in force, each made by an author who had read the one      *)
(* before; a session decides by a revision that was in force, and allows   *)
(* only what the grants of every manifest of the closure allow.  Of paths  *)
(* this holds while no link leads one granted root out of another: the     *)
(* roots are intersected by name (grant_policy.py:264-271) and decided by  *)
(* where they lead (authorization.py:168-172, 267-271).                    *)
GrantsAreExact ==
  /\ \A p \in Principals :
       LET rows == {i \in DOMAIN grantAudit : grantAudit[i].target = p} IN
       /\ {grantAudit[i].revision : i \in rows} = 1 .. policies[p].revision
       /\ \A i \in rows :
            /\ grantAudit[i].read = grantAudit[i].revision - 1
            /\ grantAudit[i].revision = policies[p].revision =>
                 grantAudit[i].document = policies[p].document
            /\ \A j \in rows : j < i => grantAudit[j].revision < grantAudit[i].revision
  /\ \A s \in PolicySessions :
       /\ snapshot[s] # FirstPolicy =>
            \E i \in DOMAIN grantAudit : /\ grantAudit[i].document = snapshot[s].document
                                         /\ grantAudit[i].revision = snapshot[s].revision
       /\ decision[s].kind = "execute" /\ decision[s].allowed =>
            /\ EachPermits(s, {"path"})
            /\ NestingKept(snapshot[s].document, decision[s].closure) => EachPermits(s, {})

(* README.md:71 and architecture.md:371: the effective permission is the   *)
(* intersection, so that what every manifest's grants allow is allowed.    *)
(* The code keeps only roots of the capability's own constraint, and loses *)
(* the narrower root of a dependency.                                      *)
IntersectionIsWhole ==
  \A s \in PolicySessions :
    decision[s].kind = "execute" /\ EachPermits(s, {})
      /\ (\A field \in DOMAIN decision[s].arguments :
            \E permission \in NeededPermissions(decision[s].closure) : field \in FieldsOf[permission])
      => decision[s].allowed
=============================================================================
