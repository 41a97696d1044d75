------------------------ MODULE ContactIntakeProofs ------------------------
(***************************************************************************)
(* What TLAPS proves of ContactIntake, for every set of submissions,       *)
(* prospects and addresses and for every hash of addresses to lock keys.   *)
(***************************************************************************)
EXTENDS ContactIntake, TLAPS

\* The steps that only move a submission along, and those that abort it:
\* no table, lock or draft changes.
MovesOn(r) ==
    \/ TurnstilePasses(r) \/ CatalogAccepts(r) \/ FindLead(r)
    \/ ReadInitialStatus(r) \/ ReadCreator(r)
Aborts(r) == CatalogRejects(r) \/ DefaultsMissing(r) \/ TransactionTimeout(r)
Refuses(r) == \E o \in Outcomes : TurnstileRefuses(r, o)
Submits(r) == \E e \in Emails : Submit(r, e)
SalesWrites ==
    \/ \E l \in CrmLeads, e \in Emails : CrmCreates(l, e)
    \/ \E l \in LeadIds, e \in Emails : CrmChangesEmail(l, e)

\* The next-state relation, split the way the proofs split it.
LEMMA NextCases ==
    ASSUME Next
    PROVE  \/ \E r \in Requests :
                \/ SubmitBot(r) \/ Submits(r) \/ Refuses(r) \/ MovesOn(r)
                \/ AcquireLock(r) \/ InsertMessage(r) \/ InsertLead(r)
                \/ Aborts(r) \/ Rollback(r) \/ Commit(r) \/ CommitUnacknowledged(r)
                \/ Answer(r) \/ MailSettles(r)
           \/ Crash \/ SalesWrites \/ SetCreatorActive \/ SetStatusActive
BY DEF Next, Step, Progress, Environment, MovesOn, Aborts, Refuses, Submits, SalesWrites

USE IntakeAssumption

-----------------------------------------------------------------------------
(* Type correctness, with the addresses of the submissions under way.      *)

TypeInv == TypeOK /\ AddressKnown

LEMMA TypeInvInit == Init => TypeInv
BY DEF Init, TypeInv, TypeOK, AddressKnown, Phases, InFlight, InTransaction, Locked,
       Outcomes, LeadIds

LEMMA TypeInvStep == TypeInv /\ [Next]_vars => TypeInv'
<1> SUFFICES ASSUME TypeInv, [Next]_vars PROVE TypeInv'
  OBVIOUS
<1> USE DEF TypeInv, TypeOK, AddressKnown
<1>0. CASE UNCHANGED vars
  BY <1>0 DEF vars, requestVars, txVars, tableVars, catalogVars
<1> USE DEF Phases, InFlight, InTransaction, Locked, Outcomes, Goto,
            requestVars, txVars, tableVars, catalogVars
<1>1. ASSUME NEW r \in Requests,
             SubmitBot(r) \/ Submits(r) \/ Refuses(r) \/ MovesOn(r)
      PROVE  TypeInv'
  BY <1>1 DEF SubmitBot, Submits, Submit, Refuses, TurnstileRefuses, MovesOn,
              TurnstilePasses, CatalogAccepts, FindLead, ReadInitialStatus, ReadCreator
<1>2. ASSUME NEW r \in Requests, AcquireLock(r) \/ InsertMessage(r) \/ InsertLead(r)
      PROVE  TypeInv'
  BY <1>2 DEF AcquireLock, InsertMessage, InsertLead
<1>3. ASSUME NEW r \in Requests, Aborts(r)
      PROVE  TypeInv'
  BY <1>3 DEF Aborts, CatalogRejects, DefaultsMissing, TransactionTimeout, Abort
<1>4. ASSUME NEW r \in Requests, Rollback(r)
      PROVE  TypeInv'
  BY <1>4 DEF Rollback, EndTransaction
<1>5. ASSUME NEW r \in Requests, Commit(r) \/ CommitUnacknowledged(r)
      PROVE  TypeInv'
  <2>1. phase[r] = "commit" /\ Publish(r)
    BY <1>5 DEF Commit, CommitUnacknowledged
  <2>2. /\ messageEmail' \in [Requests -> Emails \cup {NoEmail}]
        /\ holder' \in [LockKeys -> Requests \cup {NoRequest}]
        /\ draft' \in [Requests -> SUBSET {"message", "lead"}]
    BY <2>1 DEF Publish, EndTransaction
  <2>3. /\ leadEmail' \in [LeadIds -> Emails \cup {NoEmail}]
        /\ leadWriter' \in [LeadIds -> {"nobody", "contact", "crm"}]
        /\ everEmail' \in [LeadIds -> SUBSET Emails]
    BY <2>1 DEF Publish, WriteLead, LeadIds
  <2> QED
    BY <1>5, <2>2, <2>3 DEF Commit, CommitUnacknowledged
<1>6. ASSUME NEW r \in Requests, Answer(r) \/ MailSettles(r)
      PROVE  TypeInv'
  BY <1>6 DEF Answer, MailSettles
<1>7. CASE Crash
  BY <1>7 DEF Crash
<1>8. CASE SalesWrites
  BY <1>8 DEF SalesWrites, CrmCreates, CrmChangesEmail, WriteLead, LeadIds
<1>9. CASE SetCreatorActive \/ SetStatusActive
  BY <1>9 DEF SetCreatorActive, SetStatusActive
<1> QED
  BY <1>0, <1>1, <1>2, <1>3, <1>4, <1>5, <1>6, <1>7, <1>8, <1>9, NextCases

\* Every variable keeps its type, in particular: whatever fails and whenever,
\* a lock is held by a submission or free and a row has an address or is not
\* there.
THEOREM TypeCorrect == Spec => []TypeOK
<1>1. TypeInv => TypeOK
  BY DEF TypeInv
<1> QED
  BY <1>1, TypeInvInit, TypeInvStep, PTL DEF Spec

-----------------------------------------------------------------------------
(* The safety invariants.                                                  *)

LEMMA IntakeInvariantInit == Init => IntakeInvariant
<1> SUFFICES ASSUME Init PROVE IntakeInvariant
  OBVIOUS
<1>1. TypeOK /\ AddressKnown
  BY TypeInvInit DEF TypeInv
<1>2. LockHeld /\ DraftFits /\ NoneOpened /\ SalesKnows /\ StoredLate
  BY DEF Init, LockHeld, DraftFits, NoneOpened, WillOpen, SalesKnows, StoredLate, Locked
<1>3. /\ OneLeadPerAddress /\ EveryMessageReachesSales /\ NoLeadWithoutMessage
      /\ AnswersAreTrue /\ OnlyStoredIsAnnounced
  BY DEF Init, OneLeadPerAddress, EveryMessageReachesSales, NoLeadWithoutMessage,
         AnswersAreTrue, OnlyStoredIsAnnounced, LeadIds
<1> QED
  BY <1>1, <1>2, <1>3 DEF IntakeInvariant

\* Two transactions of one address are never past their lock together.
LEMMA LockExcludes ==
    ASSUME TypeInv, LockHeld, NEW r \in Requests, NEW q \in Requests,
           phase[r] \in Locked, phase[q] \in Locked, address[r] = address[q]
    PROVE  r = q
BY DEF LockHeld, TypeInv

LEMMA IntakeInvariantStep == IntakeInvariant /\ [Next]_vars => IntakeInvariant'
<1> SUFFICES ASSUME IntakeInvariant, [Next]_vars PROVE IntakeInvariant'
  OBVIOUS
<1> USE DEF IntakeInvariant
<1>t. TypeInv /\ TypeInv'
  BY TypeInvStep DEF TypeInv
<1> USE DEF TypeInv, TypeOK, AddressKnown, LockHeld, DraftFits, NoneOpened, WillOpen,
            SalesKnows, StoredLate, OneLeadPerAddress, EveryMessageReachesSales,
            NoLeadWithoutMessage, AnswersAreTrue, OnlyStoredIsAnnounced
<1>0. CASE UNCHANGED vars
  BY <1>t, <1>0 DEF vars, requestVars, txVars, tableVars, catalogVars
<1> USE DEF InTransaction, Locked, Goto, requestVars, txVars, tableVars, catalogVars
<1>1. ASSUME NEW r \in Requests, SubmitBot(r) \/ Submits(r) \/ Refuses(r)
      PROVE  IntakeInvariant'
  BY <1>t, <1>1 DEF SubmitBot, Submits, Submit, Refuses, TurnstileRefuses
<1>2. ASSUME NEW r \in Requests, MovesOn(r)
      PROVE  IntakeInvariant'
  <2>1. CASE TurnstilePasses(r) \/ CatalogAccepts(r) \/ ReadInitialStatus(r) \/ ReadCreator(r)
    BY <1>t, <2>1 DEF TurnstilePasses, CatalogAccepts, ReadInitialStatus, ReadCreator
  <2>2. CASE FindLead(r)
    <3>1. /\ phase[r] = "findLead" /\ address[r] \in Emails /\ "lead" \notin draft[r]
          /\ UNCHANGED <<address, outcome, mailing, announced, holder, draft, messageEmail,
                         leadEmail, leadWriter, everEmail>>
          /\ phase' = [phase EXCEPT ![r] = IF LeadKnown(address[r]) THEN "commit" ELSE "status"]
      BY <1>t, <2>2 DEF FindLead
    <3>2. LockHeld' /\ DraftFits' /\ StoredLate'
      BY <1>t, <3>1
    <3>3. NoneOpened'
      BY <1>t, <3>1 DEF LeadKnown
    <3>4. LeadKnown(address[r]) => \E l \in LeadIds : address[r] \in everEmail[l]
      BY <1>t, <3>1 DEF LeadKnown
    <3>5. SalesKnows'
      BY <1>t, <3>1, <3>4
    <3>6. /\ OneLeadPerAddress' /\ EveryMessageReachesSales' /\ NoLeadWithoutMessage'
          /\ AnswersAreTrue' /\ OnlyStoredIsAnnounced'
      BY <1>t, <3>1
    <3> QED
      BY <1>t, <3>2, <3>3, <3>5, <3>6
  <2> QED
    BY <1>2, <2>1, <2>2 DEF MovesOn
<1>3. ASSUME NEW r \in Requests, AcquireLock(r)
      PROVE  IntakeInvariant'
  BY <1>t, <1>3 DEF AcquireLock
<1>4. ASSUME NEW r \in Requests, InsertMessage(r) \/ InsertLead(r)
      PROVE  IntakeInvariant'
  <2>1. CASE InsertMessage(r)
    BY <1>t, <2>1 DEF InsertMessage
  <2>2. CASE InsertLead(r)
    BY <1>t, <2>2 DEF InsertLead
  <2> QED
    BY <1>4, <2>1, <2>2
<1>5. ASSUME NEW r \in Requests, Aborts(r)
      PROVE  IntakeInvariant'
  BY <1>t, <1>5 DEF Aborts, CatalogRejects, DefaultsMissing, TransactionTimeout, Abort
<1>6. ASSUME NEW r \in Requests, Rollback(r)
      PROVE  IntakeInvariant'
  BY <1>t, <1>6 DEF Rollback, EndTransaction
<1>8. ASSUME NEW r \in Requests, Answer(r) \/ MailSettles(r)
      PROVE  IntakeInvariant'
  BY <1>t, <1>8 DEF Answer, MailSettles
<1>9. CASE Crash
  BY <1>t, <1>9 DEF Crash, InFlight
<1>10. CASE SalesWrites
  <2>1. PICK l \in LeadIds, e \in Emails :
           /\ WriteLead(l, e, "crm")
           /\ l \in Requests => leadEmail[l] # NoEmail
           /\ UNCHANGED <<requestVars, txVars, messageEmail>>
    BY <1>10 DEF SalesWrites, CrmCreates, CrmChangesEmail, LeadIds
  <2>2. /\ leadEmail' = [leadEmail EXCEPT ![l] = e]
        /\ leadWriter' = [leadWriter EXCEPT ![l] = "crm"]
        /\ everEmail' = [everEmail EXCEPT ![l] = @ \cup {e}]
    BY <2>1 DEF WriteLead
  <2>3. LockHeld' /\ DraftFits' /\ StoredLate' /\ AnswersAreTrue' /\ OnlyStoredIsAnnounced'
    BY <1>t, <2>1
  <2>4. NoneOpened' /\ OneLeadPerAddress'
    BY <1>t, <2>1, <2>2
  <2>5. \A m \in LeadIds : everEmail[m] \subseteq everEmail'[m]
    BY <1>t, <2>2
  <2>6. \A m \in LeadIds : leadEmail'[m] # NoEmail => leadEmail'[m] \in everEmail'[m]
    BY <1>t, <2>2, <2>5
  <2>7. SalesKnows' /\ EveryMessageReachesSales'
    BY <1>t, <2>1, <2>5, <2>6
  <2>8. NoLeadWithoutMessage'
    BY <1>t, <2>1, <2>2, LeadIds = Requests \cup CrmLeads DEF LeadIds
  <2> QED
    BY <1>t, <2>3, <2>4, <2>7, <2>8
<1>11. CASE SetCreatorActive \/ SetStatusActive
  BY <1>t, <1>11 DEF SetCreatorActive, SetStatusActive
<1>7. ASSUME NEW r \in Requests, Commit(r) \/ CommitUnacknowledged(r)
      PROVE  IntakeInvariant'
  <2>1. /\ phase[r] = "commit" /\ "message" \in draft[r] /\ address[r] \in Emails
        /\ phase' \in {[phase EXCEPT ![r] = "notify"], [phase EXCEPT ![r] = "done"]}
        /\ outcome' \in {outcome, [outcome EXCEPT ![r] = "error"]}
        /\ phase'[r] = "notify" => outcome' = outcome
        /\ Publish(r)
        /\ UNCHANGED <<address, mailing, announced>>
    BY <1>t, <1>7 DEF Commit, CommitUnacknowledged
  <2>2. /\ messageEmail' = [messageEmail EXCEPT ![r] = address[r]]
        /\ holder' = [k \in LockKeys |-> IF holder[k] = r THEN NoRequest ELSE holder[k]]
        /\ draft' = [draft EXCEPT ![r] = {}]
    BY <2>1 DEF Publish, EndTransaction
  <2>3. \/ /\ "lead" \in draft[r]
           /\ leadEmail' = [leadEmail EXCEPT ![r] = address[r]]
           /\ leadWriter' = [leadWriter EXCEPT ![r] = "contact"]
           /\ everEmail' = [everEmail EXCEPT ![r] = @ \cup {address[r]}]
        \/ /\ "lead" \notin draft[r]
           /\ UNCHANGED <<leadEmail, leadWriter, everEmail>>
    BY <2>1 DEF Publish, WriteLead
  <2>r. r \in LeadIds
    BY DEF LeadIds
  <2>4. LockHeld' /\ DraftFits' /\ StoredLate'
    BY <1>t, <2>1, <2>2
  <2>5. OneLeadPerAddress'
    BY <1>t, <2>1, <2>3
  <2>6. ASSUME NEW q \in Requests, WillOpen(q)'
        PROVE  \A l \in LeadIds : leadEmail'[l] = address'[q] => leadWriter'[l] # "contact"
    <3>1. q # r /\ WillOpen(q) /\ phase[q] \in Locked
      BY <1>t, <2>1, <2>2, <2>6
    <3>2. address[q] # address[r]
      BY <1>t, <2>1, <3>1, LockExcludes
    <3> QED
      BY <1>t, <2>1, <2>3, <3>1, <3>2
  <2>7. NoneOpened'
    BY <2>6
  <2>8. \A l \in LeadIds : everEmail[l] \subseteq everEmail'[l]
    BY <1>t, <2>3
  <2>9. \A l \in LeadIds : leadEmail'[l] # NoEmail => leadEmail'[l] \in everEmail'[l]
    BY <1>t, <2>3, <2>8
  <2>10. \E l \in LeadIds : address[r] \in everEmail'[l]
    BY <1>t, <2>1, <2>3, <2>8, <2>r
  <2>11. SalesKnows'
    BY <1>t, <2>1, <2>2, <2>8, <2>9
  <2>12. EveryMessageReachesSales'
    BY <1>t, <2>1, <2>2, <2>8, <2>10
  <2>13. NoLeadWithoutMessage'
    <3>1. messageEmail'[r] # NoEmail
      BY <1>t, <2>1, <2>2
    <3>2. \A q \in Requests \ {r} : leadEmail'[q] = leadEmail[q] /\ messageEmail'[q] = messageEmail[q]
      BY <1>t, <2>2, <2>3, <2>r DEF LeadIds
    <3> QED
      BY <3>1, <3>2
  <2>14. AnswersAreTrue'
    <3>1. outcome'[r] \in {"none", "error"} /\ \A q \in Requests \ {r} : outcome'[q] = outcome[q]
      BY <1>t, <2>1
    <3>2. \A q \in Requests \ {r} : messageEmail'[q] = messageEmail[q]
      BY <1>t, <2>2
    <3> QED
      BY <1>t, <2>1, <3>1, <3>2
  <2>15. OnlyStoredIsAnnounced'
    BY <1>t, <2>1, <2>2
  <2> QED
    BY <1>t, <2>4, <2>5, <2>7, <2>11, <2>12, <2>13, <2>14, <2>15
<1> QED
  BY <1>0, <1>1, <1>2, <1>3, <1>4, <1>5, <1>6, <1>7, <1>8, <1>9, <1>10, <1>11, NextCases

\* The invariants of the intake, for any number of submissions: two
\* simultaneous enquiries never open two prospects, every stored message has
\* its prospect, failures leave nothing behind, and nothing is announced that
\* is not committed.
THEOREM IntakeSafe == Spec => []IntakeInvariant
BY IntakeInvariantInit, IntakeInvariantStep, PTL DEF Spec

\* The advisory lock does what its comment says: at most one prospect still
\* carries the address that an enquiry gave it.
THEOREM NoDuplicateLeads == Spec => []OneLeadPerAddress
<1>1. IntakeInvariant => OneLeadPerAddress
  BY DEF IntakeInvariant
<1> QED
  BY <1>1, IntakeSafe, PTL

\* No enquiry is lost to the sales team.
THEOREM NoEnquiryLost == Spec => []EveryMessageReachesSales
<1>1. IntakeInvariant => EveryMessageReachesSales
  BY DEF IntakeInvariant
<1> QED
  BY <1>1, IntakeSafe, PTL

-----------------------------------------------------------------------------
(* The transactions implement the registry.                                *)

LEMMA RegistryInit == Init => Registry!Init
BY DEF Init, Registry!Init, LeadIds, Registry!LeadIds

\* A step that leaves the tables alone is a stutter of the registry, a commit
\* is one of its two ways to store an enquiry, and the CRM's writes are the
\* sales team's.
LEMMA RegistryStep ==
    IntakeInvariant /\ [Next]_vars => [Registry!Next]_Registry!registryVars
<1> SUFFICES ASSUME IntakeInvariant, [Next]_vars
             PROVE  [Registry!Next]_Registry!registryVars
  OBVIOUS
<1> USE DEF Registry!registryVars, tableVars
<1>0. CASE UNCHANGED vars
  BY <1>0 DEF vars
<1>1. ASSUME NEW r \in Requests,
             \/ SubmitBot(r) \/ Submits(r) \/ Refuses(r) \/ MovesOn(r)
             \/ AcquireLock(r) \/ InsertMessage(r) \/ InsertLead(r)
             \/ Aborts(r) \/ Rollback(r) \/ Answer(r) \/ MailSettles(r)
      PROVE  UNCHANGED Registry!registryVars
  BY <1>1 DEF SubmitBot, Submits, Submit, Refuses, TurnstileRefuses, MovesOn, TurnstilePasses,
       CatalogAccepts, FindLead, ReadInitialStatus, ReadCreator, AcquireLock, InsertMessage,
       InsertLead, Aborts, CatalogRejects, DefaultsMissing, TransactionTimeout, Abort,
       Rollback, Answer, MailSettles
<1>2. ASSUME NEW r \in Requests, Commit(r) \/ CommitUnacknowledged(r)
      PROVE  Registry!Next
  <2> DEFINE e == address[r]
  <2>1. /\ phase[r] = "commit" /\ "message" \in draft[r] /\ e \in Emails
        /\ messageEmail[r] = NoEmail
    BY <1>2 DEF Commit, CommitUnacknowledged, Goto, IntakeInvariant, DraftFits, AddressKnown,
                StoredLate, InTransaction, Locked
  <2>2. Publish(r) /\ messageEmail' = [messageEmail EXCEPT ![r] = e]
    BY <1>2, <2>1 DEF Commit, CommitUnacknowledged, Publish
  <2>3. CASE "lead" \in draft[r]
    <3>1. ~ Registry!OpenedByEnquiry(e)
      BY <2>1, <2>3 DEF IntakeInvariant, NoneOpened, WillOpen, Registry!OpenedByEnquiry,
                        LeadIds, Registry!LeadIds
    <3>2. Registry!WriteLead(r, e, "contact")
      BY <2>2, <2>3 DEF Publish, WriteLead, Registry!WriteLead
    <3> QED
      BY <2>1, <2>2, <3>1, <3>2 DEF Registry!Next, Registry!StoreAndOpen
  <2>4. CASE "lead" \notin draft[r]
    <3>1. \E l \in Registry!LeadIds : e \in everEmail[l]
      BY <2>1, <2>4 DEF IntakeInvariant, SalesKnows, LeadIds, Registry!LeadIds
    <3>2. UNCHANGED <<leadEmail, leadWriter, everEmail>>
      BY <2>2, <2>4 DEF Publish
    <3> QED
      BY <2>1, <2>2, <3>1, <3>2 DEF Registry!Next, Registry!StoreOnly
  <2> QED
    BY <2>3, <2>4
<1>3. CASE Crash \/ SetCreatorActive \/ SetStatusActive
  BY <1>3 DEF Crash, SetCreatorActive, SetStatusActive
<1>4. CASE SalesWrites
  <2>1. PICK l \in LeadIds, e \in Emails : WriteLead(l, e, "crm") /\ UNCHANGED messageEmail
    BY <1>4 DEF SalesWrites, CrmCreates, CrmChangesEmail, LeadIds
  <2>2. Registry!SalesWrites(l, e)
    BY <2>1 DEF Registry!SalesWrites, WriteLead, Registry!WriteLead
  <2> QED
    BY <2>2 DEF Registry!Next, LeadIds, Registry!LeadIds
<1> QED
  BY <1>0, <1>1, <1>2, <1>3, <1>4, NextCases

\* The intake, with its lock, timeouts and crashes, implements the registry
\* that stores an enquiry and its prospect in one step.
THEOREM IntakeImplementsRegistry == Spec => ImplementsRegistry
BY RegistryInit, RegistryStep, IntakeSafe, PTL DEF Spec, ImplementsRegistry, Registry!Spec

\* The registry never takes a row back, hence neither does the intake.
LEMMA CommittedStaysStep ==
    ASSUME IntakeInvariant, [Next]_vars
    PROVE  /\ \A r \in Requests : messageEmail[r] # NoEmail => messageEmail'[r] = messageEmail[r]
           /\ \A l \in LeadIds : leadEmail[l] # NoEmail => leadEmail'[l] # NoEmail
<1> USE DEF IntakeInvariant, TypeOK, Registry!registryVars
<1>1. CASE UNCHANGED <<messageEmail, leadEmail, leadWriter, everEmail>>
  BY <1>1
<1>2. CASE Registry!Next
  BY <1>2 DEF Registry!Next, Registry!StoreAndOpen, Registry!StoreOnly, Registry!SalesWrites,
              Registry!WriteLead, Registry!LeadIds, LeadIds
<1> QED
  BY <1>1, <1>2, RegistryStep

\* No step takes back a message or a prospect that was committed.
THEOREM CommittedRowsStay == Spec => CommittedStays
<1>1. IntakeInvariant /\ [Next]_vars =>
        [/\ \A r \in Requests : messageEmail[r] # NoEmail => messageEmail'[r] = messageEmail[r]
         /\ \A l \in LeadIds : leadEmail[l] # NoEmail => leadEmail'[l] # NoEmail]_vars
  BY CommittedStaysStep
<1> QED
  BY <1>1, IntakeSafe, PTL DEF Spec, CommittedStays

\* Nobody opens a prospect whose enquiry was not stored.
THEOREM NoOrphanLead == Spec => []NoLeadWithoutMessage
<1>1. IntakeInvariant => NoLeadWithoutMessage
  BY DEF IntakeInvariant
<1> QED
  BY IntakeSafe, <1>1, PTL

\* A reference that is given is that of a stored message, and a 400 or a 503
\* leaves nothing behind.
THEOREM AnswersHold == Spec => []AnswersAreTrue
<1>1. IntakeInvariant => AnswersAreTrue
  BY DEF IntakeInvariant
<1> QED
  BY IntakeSafe, <1>1, PTL

\* Dashboards and inboxes hear only of messages that are committed.
THEOREM AnnouncedIsStored == Spec => []OnlyStoredIsAnnounced
<1>1. IntakeInvariant => OnlyStoredIsAnnounced
  BY DEF IntakeInvariant
<1> QED
  BY IntakeSafe, <1>1, PTL
=============================================================================
