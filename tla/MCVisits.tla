------------------------------ MODULE MCVisits ------------------------------
(***************************************************************************)
(* A small instance of Visits: one browser, with or without a visit under  *)
(* way, and two calls; visits and days last two ticks.  The zones keep one *)
(* offset from UTC, behind it, at it and ahead of it.                      *)
(***************************************************************************)
EXTENDS Visits, TLC

CONSTANTS c1, c2

MCCalls == {c1, c2}
MCZones == {-1, 0, 1}
CallSymmetry == Permutations(MCCalls)
=============================================================================
