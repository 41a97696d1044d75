---------------------------- MODULE LeadRegistry ----------------------------
(***************************************************************************)
(* What the public contact form promises to the sales team, with no        *)
(* transaction, lock, timeout or crash in sight: an enquiry is stored      *)
(* together with the prospect it needs, in one step.  A new prospect is    *)
(* opened only when no other enquiry has already opened one that still     *)
(* carries the address, and an enquiry that opens none is one whose        *)
(* address some prospect has carried.  ContactIntake implements this.      *)
(***************************************************************************)
CONSTANTS Requests,   \* POST /contact calls; also the ids of the rows they insert
          CrmLeads,   \* ids of the prospects typed in by hand
          Emails,     \* e-mail addresses, up to letter case
          NoEmail     \* the row does not exist (or has no address)

VARIABLES messageEmail,  \* committed contact_messages rows
          leadEmail,     \* committed crm_leads rows
          leadWriter,    \* who wrote the address of the row last
          everEmail      \* history: the addresses the prospect has carried

registryVars == <<messageEmail, leadEmail, leadWriter, everEmail>>

LeadIds == Requests \cup CrmLeads

Init == /\ messageEmail = [r \in Requests |-> NoEmail]
        /\ leadEmail = [l \in LeadIds |-> NoEmail]
        /\ leadWriter = [l \in LeadIds |-> "nobody"]
        /\ everEmail = [l \in LeadIds |-> {}]

\* Some prospect opened by an enquiry still carries the address.
OpenedByEnquiry(e) == \E l \in LeadIds : leadEmail[l] = e /\ leadWriter[l] = "contact"

\* The row of prospect l gets address e from writer w.
WriteLead(l, e, w) ==
    /\ leadEmail' = [leadEmail EXCEPT ![l] = e]
    /\ leadWriter' = [leadWriter EXCEPT ![l] = w]
    /\ everEmail' = [everEmail EXCEPT ![l] = @ \cup {e}]

\* An enquiry from an address that no enquiry's prospect carries opens one.
StoreAndOpen(r, e) ==
    /\ messageEmail[r] = NoEmail
    /\ ~ OpenedByEnquiry(e)
    /\ messageEmail' = [messageEmail EXCEPT ![r] = e]
    /\ WriteLead(r, e, "contact")

\* An enquiry from an address that sales has known opens none.
StoreOnly(r, e) ==
    /\ messageEmail[r] = NoEmail
    /\ \E l \in LeadIds : e \in everEmail[l]
    /\ messageEmail' = [messageEmail EXCEPT ![r] = e]
    /\ UNCHANGED <<leadEmail, leadWriter, everEmail>>

\* The sales team types in a prospect, or corrects the address of one.
SalesWrites(l, e) == WriteLead(l, e, "crm") /\ UNCHANGED messageEmail

Next == \/ \E r \in Requests, e \in Emails : StoreAndOpen(r, e) \/ StoreOnly(r, e)
        \/ \E l \in LeadIds, e \in Emails : SalesWrites(l, e)

Spec == Init /\ [][Next]_registryVars
=============================================================================
