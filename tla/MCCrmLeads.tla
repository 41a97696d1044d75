----------------------------- MODULE MCCrmLeads -----------------------------
(***************************************************************************)
(* Small instances of CrmLeads: two calls on one prospect.                 *)
(***************************************************************************)
EXTENDS CrmLeads, TLC

CONSTANTS l1, c1, c2, new, contacted, x, y

MCLeads == {l1}
MCCalls == {c1, c2}
MCStatuses == {new, contacted}
MCTwoItems == {x, y}
MCOneItem == {x}

TwoItemSymmetry == Permutations(MCCalls) \cup Permutations(MCTwoItems)
OneItemSymmetry == Permutations(MCCalls)

\* A mail server whose answers all arrive: what is wrong with the 502 then is
\* the work of the transaction that comes after them.
HeardSpec == Init /\ [][\E c \in Calls : Comes(c) \/ HeardStep(c)]_vars
=============================================================================
