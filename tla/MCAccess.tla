---- MODULE MCAccess ----
(***************************************************************************)
(* What stands between a request and its execution, one component at a     *)
(* time: where capabilities come from, who may reach them and what they    *)
(* may cost.  Which is chosen at the start and the others rest.  Threads   *)
(* and requests are p1 and p2, interchangeable in every component.         *)
(***************************************************************************)
EXTENDS Registry, Catalog, Disclosure, MerkleProofs, Transparency, Secrets,
        ControlPlane, Reasoning, BudgetLedger, ApprovedCall, TLC

VARIABLE which

CONSTANTS p1, p2, alpha, beta, gamma, a1, a2, b1, c1, tool, tool1, tool2, read, write, s1, s2,
          Top, Left, Flat

MCProcesses == {p1, p2}
Symmetric   == Permutations(MCProcesses)

(* Registry and Catalog: b1 asks for the first of the revisions of alpha,  *)
(* if alpha is there, a2 needs beta, c1 needs the second revision of       *)
(* alpha; a1 and b1 exclude each other; the revisions of alpha and gamma   *)
(* claim the same route.                                                   *)
MCCoordinateOf == a1 :> alpha @@ a2 :> alpha @@ b1 :> beta @@ c1 :> gamma
MCVersionOf    == a1 :> <<1, 0, 0>> @@ a2 :> <<1, 1, 0>> @@ b1 :> <<1, 0, 0>> @@ c1 :> <<2, 0, 0>>
MCRankOf       == a1 :> 1 @@ a2 :> 2 @@ b1 :> 3 @@ c1 :> 4
Dep(x, op, v, opt) == {[coordinate |-> x, constraint |-> {<<op, v>>}, optional |-> opt]}
MCDependencies == a1 :> {} @@ a2 :> Dep(beta, "^", <<1, 0, 0>>, FALSE)
                    @@ b1 :> Dep(alpha, "~", <<1, 0, 0>>, TRUE)
                    @@ c1 :> Dep(alpha, ">=", <<1, 1, 0>>, FALSE)
MCExclusive    == a1 :> {"x"} @@ a2 :> {} @@ b1 :> {"x"} @@ c1 :> {}
MCClaims       == a1 :> {"r"} @@ a2 :> {"r"} @@ b1 :> {"s"} @@ c1 :> {"r"}
MCOrder        == <<c1, a1, a2, b1>>
MCNameOf       == a1 :> 1 @@ a2 :> 2 @@ b1 :> 3 @@ c1 :> 4
(* An earlier process had activated a1, or nothing and one move is gone.  *)
Found(pointer, gone) ==
  [files |-> {a1, b1, c1}, off |-> {}, edits |-> 0, moves |-> gone,
   pointers |-> [c \in Coordinates |-> IF c = alpha THEN pointer ELSE NoPointer]]
MCSources      == {Found(a1, 0), Found(NoPointer, 1)}

(* Disclosure: a tool of two revisions of which the second has no          *)
(* operations; the first session may use the tool.                         *)
MCCapabilityOf == tool1 :> tool @@ tool2 :> tool
MCOperationsOf == tool1 :> {read, write} @@ tool2 :> {}
MCNeedsOf      == tool1 :> {"p"} @@ tool2 :> {}
MCGrantedTo    == s1 :> {"p"} @@ s2 :> {}

(* Reasoning: a task costs its tier.                                       *)
MCEstimateOf == [t \in 1 .. 3 |-> t]

(* BudgetLedger: a root, a scope below it that has no limit of its own,    *)
(* and a durable scope.                                                    *)
MCParent == Top :> NoScope @@ Left :> Top @@ Flat :> NoScope
MCCaps   == {[s \in Scopes |-> [x \in Counters |-> IF s = Left THEN Unlimited ELSE 1]]}

-----------------------------------------------------------------------------
In(k) ==
  /\ which = k /\ UNCHANGED which
  /\ k # "registry"     => UNCHANGED registryVars
  /\ k # "catalog"      => UNCHANGED catalog
  /\ k # "disclosure"   => UNCHANGED disclosure
  /\ k # "proofs"       => UNCHANGED vector
  /\ k # "transparency" => UNCHANGED transparency
  /\ k # "secrets"      => UNCHANGED secrets
  /\ k # "plane"        => UNCHANGED controlPlane
  /\ k # "reasoning"    => UNCHANGED reasoning
  /\ k # "ledger"       => UNCHANGED ledgerVars
  /\ k # "approved"     => UNCHANGED approvedCalls

AccessInit ==
  /\ which \in {"registry", "catalog", "disclosure", "proofs", "transparency", "secrets",
                "plane", "reasoning", "ledger", "approved"}
  /\ RegistryInit /\ CatalogInit /\ DisclosureInit /\ MerkleInit /\ TransparencyInit
  /\ SecretsInit /\ ControlPlaneInit /\ ReasoningInit /\ LedgerInit /\ ApprovedInit
  (* A component that rests has one initial state.                         *)
  /\ which = "registry"   \/ policy = CHOOSE p \in Policies : TRUE
  /\ which = "catalog"    \/ source.pointers[alpha] = NoPointer
  /\ which = "disclosure" \/ enabled[tool] = tool1
  /\ which = "plane"      \/ plane = "http"

AccessNext ==
  \/ In("registry") /\ RegistryNext
  \/ In("catalog") /\ CatalogNext
  \/ In("disclosure") /\ DisclosureNext
  \/ In("proofs") /\ MerkleNext
  \/ In("transparency") /\ TransparencyNext
  \/ In("secrets") /\ SecretsNext
  \/ In("plane") /\ ControlPlaneNext
  \/ In("reasoning") /\ ReasoningNext
  \/ In("ledger") /\ LedgerNext
  \/ In("approved") /\ ApprovedNext

AccessVars == <<which, registryVars, catalog, disclosure, vector, transparency, secrets,
                   controlPlane, reasoning, ledgerVars, approvedCalls>>
AccessSpec == AccessInit /\ [][AccessNext]_AccessVars
====
