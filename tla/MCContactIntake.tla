-------------------------- MODULE MCContactIntake --------------------------
(***************************************************************************)
(* Two submissions from one address or from two, whose locks share a key,  *)
(* and one prospect of the sales team.                                     *)
(***************************************************************************)
EXTENDS ContactIntake, TLC

CONSTANTS r1, r2, l1, a, b, k1

MCRequests == {r1, r2}
MCCrmLeads == {l1}
MCEmails == {a, b}
MCLockKeys == {k1}
MCLockKey == (a :> k1) @@ (b :> k1)
=============================================================================
