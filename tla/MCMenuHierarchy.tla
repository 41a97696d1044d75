-------------------------- MODULE MCMenuHierarchy --------------------------
(***************************************************************************)
(* Small instances of MenuHierarchy.                                       *)
(***************************************************************************)
EXTENDS MenuHierarchy, TLC

CONSTANTS m1, m2, m3, c1, c2

MCMenus == {m1, m2, m3}
MCCalls == {c1, c2}

MenuSymmetry == Permutations(MCMenus) \cup Permutations(MCCalls)
=============================================================================
