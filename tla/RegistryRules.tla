----------------------------- MODULE RegistryRules -----------------------------
(***************************************************************************)
(* What makes a set of active capabilities admissible (registry.py and     *)
(* projections.py): every required dependency is active at an accepted     *)
(* version, there is no cycle, nobody shares an exclusive value, and the   *)
(* resources they claim can be told apart.                                 *)
(***************************************************************************)
EXTENDS Integers, Sequences, FiniteSets

CONSTANTS
  Coordinates,
  Manifests,     \* revisions: immutable, each of one coordinate
  CoordinateOf, VersionOf,
  RankOf,        \* _revision_order: the version, then the revision identity
  Dependencies,  \* manifest -> set of [coordinate, constraint, optional]
  Exclusive,     \* manifest -> exclusive conflict values (conflicts)
  Claims,        \* manifest -> resources (extract_projection_claims)
  Namespaceable  \* resources a namespace can tell apart

ASSUME ManifestAssumption ==
  /\ CoordinateOf \in [Manifests -> Coordinates]
  /\ \A m, n \in Manifests : RankOf[m] = RankOf[n] => m = n

Older(v, w) == \E i \in 1..3 : v[i] < w[i] /\ \A j \in 1..(i - 1) : v[j] = w[j]

(* A constraint is a set of expressions <<op, bound>>; "*" is the empty    *)
(* one.                                                                    *)
Accepts(v, op, bound) ==
  LET atLeast == ~Older(v, bound) IN
  CASE op = "^"  -> atLeast /\ v[1] = bound[1]
    [] op = "~"  -> atLeast /\ v[1] = bound[1] /\ v[2] = bound[2]
    [] op = ">=" -> atLeast
    [] op = ">"  -> Older(bound, v)
    [] op = "<=" -> ~Older(bound, v)
    [] op = "<"  -> Older(v, bound)
    [] op = "="  -> v = bound
Satisfies(v, constraint) == \A e \in constraint : Accepts(v, e[1], e[2])

(* A selection maps some coordinates to one of their manifests.            *)
Latest(ms) == CHOOSE m \in ms : \A n \in ms : RankOf[n] <= RankOf[m]
Selection(ms) == [c \in {CoordinateOf[m] : m \in ms} |-> Latest({m \in ms : CoordinateOf[m] = c})]
ManifestsIn(sel) == {sel[c] : c \in DOMAIN sel}

Met(sel, d) == /\ d.coordinate \in DOMAIN sel
               /\ Satisfies(VersionOf[sel[d.coordinate]], d.constraint)
Complete(sel) == \A m \in ManifestsIn(sel) : \A d \in Dependencies[m] : d.optional \/ Met(sel, d)

Needs(sel, c, e) == \E d \in Dependencies[sel[c]] : d.coordinate = e /\ Met(sel, d)
Acyclic(sel) ==
  ~\E ring \in (SUBSET DOMAIN sel) \ {{}} : \A c \in ring : \E e \in ring : Needs(sel, c, e)

Exclusively(sel) ==
  \A c, e \in DOMAIN sel : c # e => Exclusive[sel[c]] \cap Exclusive[sel[e]] = {}

(* A ProjectionPolicy: its strategy, and the coordinate select-one prefers.*)
NoChoice == "none"
Policies == [strategy : {"deny", "namespace", "isolate"}, chosen : {NoChoice}]
              \union [strategy : {"select-one"}, chosen : Coordinates]
Isolate == [strategy |-> "isolate", chosen |-> NoChoice]

(* resolve_projections: who collides over a resource, whether the policy   *)
(* refuses, and whom it excludes.                                          *)
Claimants(sel, r) == {c \in DOMAIN sel : r \in Claims[sel[c]]}
Contested(sel) == {r \in UNION {Claims[m] : m \in ManifestsIn(sel)} :
                     Cardinality(Claimants(sel, r)) > 1}
Projectable(sel, policy) ==
  CASE policy.strategy = "deny"       -> Contested(sel) = {}
    [] policy.strategy = "namespace"  -> Contested(sel) \subseteq Namespaceable
    [] policy.strategy = "select-one" -> \A r \in Contested(sel) : policy.chosen \in Claimants(sel, r)
    [] policy.strategy = "isolate"    -> TRUE
ExcludedBy(sel, policy) ==
  IF policy.strategy # "select-one" THEN {}
  ELSE (UNION {Claimants(sel, r) : r \in Contested(sel)}) \ {policy.chosen}

Admissible(sel, policy) ==
  Complete(sel) /\ Acyclic(sel) /\ Exclusively(sel) /\ Projectable(sel, policy)
=============================================================================
