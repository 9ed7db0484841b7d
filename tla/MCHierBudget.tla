---- MODULE MCHierBudget ----
(* Two shapes of the forest: a tenant root with two sessions below it, and *)
(* one scope alone.  Operators are interchangeable, and so are identities  *)
(* of reservations.                                                        *)
EXTENDS HierBudget, TLC

CONSTANTS Root, Left, Right, r1, r2, o1, o2

MCParent     == Root :> NoScope @@ Left :> Root @@ Right :> Root
MCLoneParent == Root :> NoScope
MCRids       == {r1, r2}
MCOperators  == {o1, o2}
Symmetric    == Permutations(MCRids) \cup Permutations(MCOperators)
====
