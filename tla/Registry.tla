-------------------------------- MODULE Registry --------------------------------
(***************************************************************************)
(* CapabilityRegistry (registry.py) under its administrator, with          *)
(* install_validated (admission.py) and the activation lock                *)
(* (activation_lock.py).  A refused call leaves the registry as it was.    *)
(***************************************************************************)
EXTENDS RegistryRules, SequencesExt

CONSTANT MaxBatch    \* bound: manifests registered or installed at once

VARIABLES
  revisions,   \* _revisions
  active,      \* _active, a dictionary: <<coordinate, manifest>> in its order
  excluded,    \* excluded_coordinates of _projection_resolution
  policy,      \* _projection_policy
  lock         \* an exported activation lock, or NoLock

registryVars == <<revisions, active, excluded, policy, lock>>
NoLock == [taken |-> FALSE]

Selected(act) == [c \in {act[i][1] : i \in DOMAIN act} |->
                    (CHOOSE e \in ToSet(act) : e[1] = c)[2]]

RegistryInit == /\ revisions = {} /\ active = <<>> /\ excluded = {}
                /\ policy \in Policies /\ lock = NoLock

Batches == {b \in SUBSET Manifests : b # {} /\ Cardinality(b) <= MaxBatch}

-----------------------------------------------------------------------------
(* A dictionary keeps the place of a key that is assigned again.           *)
Put(act, c, m) ==
  IF \E i \in DOMAIN act : act[i][1] = c
  THEN [i \in DOMAIN act |-> IF act[i][1] = c THEN <<c, m>> ELSE act[i]]
  ELSE Append(act, <<c, m>>)
Without(act, cs) ==
  LET kept[n \in 0..Len(act)] ==
        IF n = 0 THEN <<>>
        ELSE IF act[n][1] \in cs THEN kept[n - 1] ELSE Append(kept[n - 1], act[n])
  IN kept[Len(act)]

(* The graph is not required to be complete at installation: dependencies  *)
(* may follow.                                                             *)
RegisterMany(batch) ==
  LET staged == Selection(revisions \union batch) IN
  /\ ~batch \subseteq revisions /\ Projectable(staged, policy)
  /\ revisions' = revisions \union batch
  /\ excluded' = ExcludedBy(staged, policy)
  /\ UNCHANGED <<active, policy, lock>>

Candidate(act, c, m) == Without(Put(act, c, m), excluded)

Activate(m) ==
  LET c == CoordinateOf[m]
      candidate == Candidate(active, c, m)
  IN
  /\ m \in revisions /\ c \notin excluded
  /\ Admissible(Selected(candidate), policy)
  /\ active' = candidate
  /\ UNCHANGED <<revisions, excluded, policy, lock>>

Deactivate(c) ==
  /\ c \in DOMAIN Selected(active)
  /\ Admissible(Selected(Without(active, {c})), policy)
  /\ active' = Without(active, {c})
  /\ UNCHANGED <<revisions, excluded, policy, lock>>

(* install_validated builds another registry, which has the default policy *)
(* (isolate, whatever the policy was: nothing is excluded): the additions  *)
(* are valid by themselves, the activations are repeated one by one in     *)
(* their order, then the new ones, and each step must be admissible.       *)
LockReplayed(outcome, m) ==
  LET next == Put(outcome.seq, CoordinateOf[m], m) IN
  [ok |-> outcome.ok /\ Admissible(Selected(next), Isolate), seq |-> next]
ReplayLast(order) ==  \* faulty: only the new activation is made
  LockReplayed([ok |-> TRUE, seq |-> <<>>], Last(order))
Replay(order) ==
  LET done[n \in 0..Len(order)] ==
        IF n = 0 THEN [ok |-> TRUE, seq |-> <<>>] ELSE LockReplayed(done[n - 1], order[n])
  IN done[Len(order)]

Install(batch, m) ==
  LET outcome == Replay([i \in DOMAIN active |-> active[i][2]] \o <<m>>) IN
  /\ Admissible(Selection(batch), Isolate)
  /\ m \in revisions \union batch /\ outcome.ok
  /\ revisions' = revisions \union batch
  /\ active' = outcome.seq /\ excluded' = {} /\ policy' = Isolate
  /\ UNCHANGED lock

-----------------------------------------------------------------------------
(* The activation lock: the active revision of every coordinate with the   *)
(* revisions its dependencies lead to, whatever version they ask for.      *)

Leads(sel, c, e) == e \in DOMAIN sel /\ \E d \in Dependencies[sel[c]] : d.coordinate = e
ClosedUnder(sel, S) == \A s \in S, e \in DOMAIN sel : Leads(sel, s, e) => e \in S
Reached(sel, c) ==
  {e \in DOMAIN sel \ {c} : \A S \in SUBSET DOMAIN sel : c \in S /\ ClosedUnder(sel, S) => e \in S}
LockEntry(sel, c) == [revision |-> sel[c], closure |-> {sel[e] : e \in Reached(sel, c)}]
Export(sel) == [c \in DOMAIN sel |-> LockEntry(sel, c)]

ExportLock ==
  /\ lock' = [taken |-> TRUE, entries |-> Export(Selected(active)), of |-> Selected(active)]
  /\ UNCHANGED <<revisions, active, excluded, policy>>

(* validate_activation_lock: nothing missing, nothing extra, nothing       *)
(* drifted.                                                                *)
LockMatches ==
  LET now == Export(Selected(active)) IN
  /\ DOMAIN lock.entries = DOMAIN now
  /\ \A c \in DOMAIN now : lock.entries[c] = now[c]

RegistryNext ==
  \/ \E batch \in Batches : RegisterMany(batch)
  \/ \E m \in Manifests : Activate(m)
  \/ \E c \in Coordinates : Deactivate(c)
  \/ \E batch \in Batches, m \in Manifests : Install(batch, m)
  \/ ExportLock

RegistrySpec == RegistryInit /\ [][RegistryNext]_registryVars

-----------------------------------------------------------------------------
(* Properties.                                                             *)

(* The active revisions form a complete, acyclic, conflict-free graph      *)
(* after every call (the comment in register_many), whatever was           *)
(* registered, replaced or taken out before, and each is registered.       *)
ActiveIsClosed ==
  /\ Admissible(Selected(active), policy)
  /\ ManifestsIn(Selected(active)) \subseteq revisions

(* An activation is given up only when it is deactivated or excluded: to   *)
(* activate another capability, or to install some, leaves it or replaces  *)
(* it by a revision of the same coordinate.                                *)
ActivationsPersist ==
  [][\A c \in DOMAIN Selected(active) :
       c \in DOMAIN Selected(active)' \/ c \in excluded \/ Deactivate(c)]_registryVars

(* A lock is accepted exactly while the active revisions are those it was  *)
(* exported from.                                                          *)
LockIsExact == lock.taken => (LockMatches <=> lock.of = Selected(active))

(* What is active is closed under its dependencies, the exported lock says *)
(* exactly that, and nothing is deactivated by the way.                    *)
RegistryIsExact == [](ActiveIsClosed /\ LockIsExact) /\ ActivationsPersist
=============================================================================
