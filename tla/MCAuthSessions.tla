--------------------------- MODULE MCAuthSessions ---------------------------
(***************************************************************************)
(* Small instances of AuthSessions: one account, whose session is opened,  *)
(* renewed and closed by up to four calls.                                 *)
(***************************************************************************)
EXTENDS AuthSessions, TLC

CONSTANTS u1, c1, c2, c3, c4, t1, t2, t3

MCUsers == {u1}
MCThreeCalls == {c1, c2, c3}
MCFourCalls == {c1, c2, c3, c4}
MCTokens == {t1, t2, t3}

ThreeCallSymmetry == Permutations(MCThreeCalls) \cup Permutations(MCTokens)
FourCallSymmetry == Permutations(MCFourCalls) \cup Permutations(MCTokens)
=============================================================================
