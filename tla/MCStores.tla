---- MODULE MCStores ----
(***************************************************************************)
(* The durable stores, one at a time: which is chosen at the start and     *)
(* the others rest.  Their processes are p1 and p2, interchangeable in     *)
(* every store.                                                            *)
(***************************************************************************)
EXTENDS ApprovalStore, UpdateStore, ScopedState, ContextRemoval, Residency,
        GrantPolicy, RagIndex, Metrics, SecureAudit, Preferences, TLC

VARIABLE which

CONSTANTS p1, p2, tool, lib, tool1, tool2, lib1, lib2, i1

MCProcesses == {p1, p2}
Symmetric   == Permutations(MCProcesses)

(* UpdateStore: two capabilities with two revisions each; the second       *)
(* revision of the first needs the second revision of the other.           *)
MCCoordinateOf == tool1 :> tool @@ tool2 :> tool @@ lib1 :> lib @@ lib2 :> lib
MCNeeds        == tool1 :> {} @@ tool2 :> {lib2} @@ lib1 :> {} @@ lib2 :> {}
MCInstalled    == tool :> tool1 @@ lib :> lib1

(* Residency: four sections of different sizes and worth.                  *)
MCTokens == "a" :> 1 @@ "b" :> 2 @@ "c" :> 2 @@ "d" :> 3
MCWorth  == "a" :> 1 @@ "b" :> 1 @@ "c" :> 2 @@ "d" :> 3

(* GrantPolicy: a manifest m that needs a permission of its own provider   *)
(* and one of the provider of its dependency d; al lies in a by its name   *)
(* and is a link to c.                                                     *)
MCMay           == MCProcesses \X {i1}
MCProviderOf    == "m" :> "own" @@ "d" :> "other"
MCPermissionsOf == "m" :> {"read"} @@ "d" :> {"read", "net"}
MCFieldsOf      == "read" :> {"path"} @@ "net" :> {"host"}
MCWithin        == {<<x, x>> : x \in {"a", "ab", "al", "c"}} \cup {<<"ab", "a">>, <<"al", "a">>}
MCCanonicalOf   == [x \in {"a", "ab", "c", "g", "h"} |-> x] @@ "al" :> "c" @@ "H" :> "h"
GrantDoc(r1, r2, h) ==
  "own" :> ("read" :> ("path" :> r1))
    @@ "other" :> ("read" :> ("path" :> r2) @@ "net" :> ("host" :> h))
MCDocuments ==
  {GrantDoc({"a"}, {"ab"}, {"h"}), GrantDoc({"ab", "al"}, {"a"}, {"h"}),
   GrantDoc({"a", "c"}, {"a"}, {"H", "g"}), "own" :> ("read" :> ("path" :> {"a"}))}
MCClosures  == {<<"m">>, <<"m", "d">>}
MCArguments ==
  {"path" :> p : p \in {"a", "ab", "c"}}
    \cup {"path" :> p @@ "host" :> "g" : p \in {"ab", "c"}}
    \cup {"path" :> p @@ "host" :> "h" : p \in {"ab", "al"}}

(* RagIndex: publications that share identifiers and texts.                *)
Passage(i, x, rs, u) == [id |-> i, text |-> x, readers |-> rs, until |-> u]
MCBatches ==
  {<<Passage(1, "x", {"alice"}, 1), Passage(2, "y", {"any"}, 9)>>,
   <<Passage(1, "y", {"any"}, 9), Passage(2, "y", {"alice"}, 9)>>,
   <<Passage(2, "x", {"bob"}, 1), Passage(2, "y", {"alice"}, 9)>>}

-----------------------------------------------------------------------------
In(k) ==
  /\ which = k /\ UNCHANGED which
  /\ k # "approvals"   => UNCHANGED approvalsVars
  /\ k # "updates"     => UNCHANGED updatesVars
  /\ k # "scoped"      => UNCHANGED scopedState
  /\ k # "removal"     => UNCHANGED contextRemoval
  /\ k # "residency"   => UNCHANGED residency
  /\ k # "grants"      => UNCHANGED grantPolicy
  /\ k # "rag"         => UNCHANGED ragIndex
  /\ k # "metrics"     => UNCHANGED metrics
  /\ k # "audit"       => UNCHANGED audit
  /\ k # "preferences" => UNCHANGED preferences

StoresInit ==
  /\ which \in {"approvals", "updates", "scoped", "removal", "residency", "grants",
                "rag", "metrics", "audit", "preferences"}
  /\ ApprovalsInit /\ UpdatesInit /\ ScopedInit /\ RemovalInit /\ ResidencyInit
  /\ GrantPolicyInit /\ RagInit /\ MetricsInit /\ AuditInit /\ PreferencesInit
  /\ scoped \/ which = "residency"   \* a store that rests has one initial state

StoresNext ==
  \/ In("approvals") /\ ApprovalsNext
  \/ In("updates") /\ UpdatesNext
  \/ In("scoped") /\ ScopedNext
  \/ In("removal") /\ RemovalNext
  \/ In("residency") /\ ResidencyNext
  \/ In("grants") /\ GrantPolicyNext
  \/ In("rag") /\ RagNext
  \/ In("metrics") /\ MetricsNext
  \/ In("audit") /\ AuditNext
  \/ In("preferences") /\ PreferencesNext

StoresVars == <<which, approvalsVars, updatesVars, scopedState, contextRemoval, residency,
                grantPolicy, ragIndex, metrics, audit, preferences>>
StoresSpec == StoresInit /\ [][StoresNext]_StoresVars
====
