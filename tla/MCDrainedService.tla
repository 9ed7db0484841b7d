---- MODULE MCDrainedService ----
(* Two capabilities, one of which has a second revision to switch to.      *)
EXTENDS DrainedService, TLC

CONSTANTS tool, lib, tool1, tool2, lib1, lib2, e1, e2, e3, t1, t2, t3

MCCoordinateOf == tool1 :> tool @@ tool2 :> tool @@ lib1 :> lib @@ lib2 :> lib
MCNeeds        == tool1 :> {} @@ tool2 :> {} @@ lib1 :> {} @@ lib2 :> {}
MCInstalled    == tool :> tool1 @@ lib :> lib1

(* One capability alone, with its two revisions.                           *)
MCLoneCoordinateOf == tool1 :> tool @@ tool2 :> tool
MCLoneNeeds        == tool1 :> {} @@ tool2 :> {}
MCLoneInstalled    == tool :> tool1

(* What the handlers are asked to run; some references are shared.         *)
MCOwnRefs    == t1 :> {e1} @@ t2 :> {e2} @@ t3 :> {e3}
MCMixedRefs  == t1 :> {e1, e3} @@ t2 :> {e1, e2}
MCSharedRefs == t1 :> {e1, e2} @@ t2 :> {e1, e2}

MCRevisionOf     == e1 :> tool1 @@ e2 :> tool2 @@ e3 :> lib1
MCLoneRevisionOf == e1 :> tool1 @@ e2 :> tool2
====
