--------------------------- MODULE ContactIntake ---------------------------
(***************************************************************************)
(* ContactService.create: the public contact form.  Every submission is a  *)
(* process that gives way at each await.  Between the anti-bot check and   *)
(* the answer it runs one interactive PostgreSQL transaction (READ         *)
(* COMMITTED: each statement sees what is committed when it runs), whose   *)
(* first statement takes an advisory lock on the address; the lock goes    *)
(* with the transaction.  The CRM writes prospects without that lock.      *)
(*                                                                         *)
(* A submission inserts at most one message and one prospect, so the name  *)
(* of the submission serves as the id of both rows.                        *)
(***************************************************************************)
CONSTANTS Requests,   \* POST /contact calls; also the ids of the rows they insert
          CrmLeads,   \* ids of the prospects that POST /crm/leads creates
          Emails,     \* e-mail addresses, up to letter case
          LockKeys,   \* the 64-bit keys of the advisory locks
          LockKey,    \* hashtextextended: addresses may share a key
          NoEmail, NoRequest

ASSUME IntakeAssumption ==
    /\ Requests \cap CrmLeads = {}
    /\ LockKey \in [Emails -> LockKeys]
    /\ NoEmail \notin Emails
    /\ NoRequest \notin Requests

VARIABLES
    \* The submissions, in the Node process.
    phase,         \* where the handler of each submission stands
    address,       \* dto.email.toLowerCase()
    outcome,       \* what the caller was (or is about to be) told
    mailing,       \* the e-mails sent in the background after the answer
    announced,     \* submissions pushed to the dashboards over the socket
    \* The database: locks and uncommitted rows ...
    holder,        \* the transaction that holds each advisory lock
    draft,         \* rows a transaction has inserted and not committed
    \* ... committed rows ...
    messageEmail, leadEmail,
    statusActive,  \* crm_lead_statuses: the row with code NEW is active
    creatorActive, \* users: the account CRM_CONTACT_CREATOR_USER_ID is active
    \* ... and history.
    leadWriter,    \* who wrote the address of the prospect last
    everEmail      \* the addresses the prospect has carried

requestVars == <<phase, address, outcome, mailing, announced>>
txVars == <<holder, draft>>
tableVars == <<messageEmail, leadEmail, leadWriter, everEmail>>
catalogVars == <<statusActive, creatorActive>>
vars == <<requestVars, txVars, tableVars, catalogVars>>

LeadIds == Requests \cup CrmLeads

\* The transaction holds the lock of its address in all of these.
Locked == {"catalog", "message", "findLead", "status", "creator", "lead", "commit"}
InTransaction == Locked \cup {"waiting"}
InFlight == InTransaction \cup {"turnstile", "rollback", "notify"}
Phases == InFlight \cup {"idle", "done"}
Outcomes == {"none", "fake", "stored", "rejected", "unavailable", "error", "lost"}

Init == /\ phase = [r \in Requests |-> "idle"]
        /\ address = [r \in Requests |-> NoEmail]
        /\ outcome = [r \in Requests |-> "none"]
        /\ mailing = [r \in Requests |-> "none"]
        /\ announced = {}
        /\ holder = [k \in LockKeys |-> NoRequest]
        /\ draft = [r \in Requests |-> {}]
        /\ messageEmail = [r \in Requests |-> NoEmail]
        /\ leadEmail = [l \in LeadIds |-> NoEmail]
        /\ leadWriter = [l \in LeadIds |-> "nobody"]
        /\ everEmail = [l \in LeadIds |-> {}]
        /\ statusActive \in BOOLEAN
        /\ creatorActive \in BOOLEAN

-----------------------------------------------------------------------------
(* Before the transaction.                                                 *)

Goto(r, from, to) == phase[r] = from /\ phase' = [phase EXCEPT ![r] = to]

\* A form whose hidden field is filled is answered at once with a made-up
\* reference; nothing is stored.
SubmitBot(r) ==
    /\ Goto(r, "idle", "done")
    /\ outcome' = [outcome EXCEPT ![r] = "fake"]
    /\ UNCHANGED <<address, mailing, announced, txVars, tableVars, catalogVars>>

Submit(r, e) ==
    /\ Goto(r, "idle", "turnstile")
    /\ address' = [address EXCEPT ![r] = e]
    /\ UNCHANGED <<outcome, mailing, announced, txVars, tableVars, catalogVars>>

\* TurnstileService.verify resolves (or is disabled): open the transaction
\* and queue for the lock of the address.
TurnstilePasses(r) ==
    /\ Goto(r, "turnstile", "waiting")
    /\ UNCHANGED <<address, outcome, mailing, announced, txVars, tableVars, catalogVars>>

\* It throws: 400 for a bad token, 503 when the service fails or takes 8 s.
TurnstileRefuses(r, o) ==
    /\ o \in {"rejected", "unavailable"}
    /\ Goto(r, "turnstile", "done")
    /\ outcome' = [outcome EXCEPT ![r] = o]
    /\ UNCHANGED <<address, mailing, announced, txVars, tableVars, catalogVars>>

-----------------------------------------------------------------------------
(* The transaction, one statement at a time.                               *)

\* Mutant: the lock is not waited for.
AcquireLockAtOnce(r) ==
    /\ Goto(r, "waiting", "catalog")
    /\ holder' = [holder EXCEPT ![LockKey[address[r]]] = r]
    /\ UNCHANGED <<address, outcome, mailing, announced, draft, tableVars, catalogVars>>

AcquireLock(r) ==
    /\ Goto(r, "waiting", "catalog")
    /\ holder[LockKey[address[r]]] = NoRequest
    /\ holder' = [holder EXCEPT ![LockKey[address[r]]] = r]
    /\ UNCHANGED <<address, outcome, mailing, announced, draft, tableVars, catalogVars>>

\* The project stage and every chosen option exist and are active ...
CatalogAccepts(r) ==
    /\ Goto(r, "catalog", "message")
    /\ UNCHANGED <<address, outcome, mailing, announced, txVars, tableVars, catalogVars>>

InsertMessage(r) ==
    /\ Goto(r, "message", "findLead")
    /\ draft' = [draft EXCEPT ![r] = @ \cup {"message"}]
    /\ UNCHANGED <<address, outcome, mailing, announced, holder, tableVars, catalogVars>>

\* crmLead.findFirst, insensitive to case, over what is committed now.
LeadKnown(e) == \E l \in LeadIds : leadEmail[l] = e

\* Mutant: a prospect is opened whether or not the address has one.
FindLeadNever(r) ==
    /\ Goto(r, "findLead", "status")
    /\ UNCHANGED <<address, outcome, mailing, announced, txVars, tableVars, catalogVars>>

FindLead(r) ==
    /\ Goto(r, "findLead", IF LeadKnown(address[r]) THEN "commit" ELSE "status")
    /\ UNCHANGED <<address, outcome, mailing, announced, txVars, tableVars, catalogVars>>

ReadInitialStatus(r) ==
    /\ statusActive
    /\ Goto(r, "status", "creator")
    /\ UNCHANGED <<address, outcome, mailing, announced, txVars, tableVars, catalogVars>>

ReadCreator(r) ==
    /\ creatorActive
    /\ Goto(r, "creator", "lead")
    /\ UNCHANGED <<address, outcome, mailing, announced, txVars, tableVars, catalogVars>>

InsertLead(r) ==
    /\ Goto(r, "lead", "commit")
    /\ draft' = [draft EXCEPT ![r] = @ \cup {"lead"}]
    /\ UNCHANGED <<address, outcome, mailing, announced, holder, tableVars, catalogVars>>

\* Mutant: the callback returns instead of throwing.
AbortReturns(r, o) ==
    /\ phase' = [phase EXCEPT ![r] = "commit"]
    /\ outcome' = [outcome EXCEPT ![r] = o]
    /\ UNCHANGED <<address, mailing, announced, txVars, tableVars, catalogVars>>

\* An exception in the callback, or none of its own making: the transaction
\* is to be rolled back and the caller will be told o.
Abort(r, o) ==
    /\ phase' = [phase EXCEPT ![r] = "rollback"]
    /\ outcome' = [outcome EXCEPT ![r] = o]
    /\ UNCHANGED <<address, mailing, announced, txVars, tableVars, catalogVars>>

\* ... or they are not: 400.
CatalogRejects(r) == phase[r] = "catalog" /\ Abort(r, "rejected")

\* Mutant: without its defaults the prospect is skipped, not the message.
DefaultsMissingIgnored(r) ==
    /\ \/ phase[r] = "status" /\ ~ statusActive
       \/ phase[r] = "creator" /\ ~ creatorActive
    /\ phase' = [phase EXCEPT ![r] = "commit"]
    /\ UNCHANGED <<address, outcome, mailing, announced, txVars, tableVars, catalogVars>>

DefaultsMissing(r) ==
    /\ \/ phase[r] = "status" /\ ~ statusActive
       \/ phase[r] = "creator" /\ ~ creatorActive
    /\ Abort(r, "unavailable")

\* Prisma gives up on an interactive transaction after its default 5 s, and
\* on one that gets no connection after 2 s.
TransactionTimeout(r) == phase[r] \in InTransaction /\ Abort(r, "error")

\* Locks and uncommitted rows vanish with the transaction.
EndTransaction(r) ==
    /\ holder' = [k \in LockKeys |-> IF holder[k] = r THEN NoRequest ELSE holder[k]]
    /\ draft' = [draft EXCEPT ![r] = {}]

\* Mutants: the failed transaction is announced; or its end waits for the lock.
RollbackGoesOn(r) ==
    /\ Goto(r, "rollback", "notify")
    /\ EndTransaction(r)
    /\ UNCHANGED <<address, outcome, mailing, announced, tableVars, catalogVars>>

RollbackNeedsLock(r) ==
    /\ Goto(r, "rollback", "done")
    /\ holder[LockKey[address[r]]] = r
    /\ EndTransaction(r)
    /\ UNCHANGED <<address, outcome, mailing, announced, tableVars, catalogVars>>

Rollback(r) ==
    /\ Goto(r, "rollback", "done")
    /\ EndTransaction(r)
    /\ UNCHANGED <<address, outcome, mailing, announced, tableVars, catalogVars>>

\* The rows of prospect l get address e from writer w.
WriteLead(l, e, w) ==
    /\ leadEmail' = [leadEmail EXCEPT ![l] = e]
    /\ leadWriter' = [leadWriter EXCEPT ![l] = w]
    /\ everEmail' = [everEmail EXCEPT ![l] = @ \cup {e}]

\* Mutant: the message is written by a client outside of the transaction.
PublishLeadOnly(r) ==
    /\ UNCHANGED messageEmail
    /\ IF "lead" \in draft[r]
       THEN WriteLead(r, address[r], "contact")
       ELSE UNCHANGED <<leadEmail, leadWriter, everEmail>>
    /\ EndTransaction(r)

Publish(r) ==
    /\ messageEmail' = IF "message" \in draft[r]
                       THEN [messageEmail EXCEPT ![r] = address[r]] ELSE messageEmail
    /\ IF "lead" \in draft[r]
       THEN WriteLead(r, address[r], "contact")
       ELSE UNCHANGED <<leadEmail, leadWriter, everEmail>>
    /\ EndTransaction(r)

Commit(r) ==
    /\ Goto(r, "commit", "notify")
    /\ Publish(r)
    /\ UNCHANGED <<address, outcome, mailing, announced, catalogVars>>

\* The server commits and the connection breaks before it says so: the
\* caller gets a 500 for a message that is stored.
CommitUnacknowledged(r) ==
    /\ Goto(r, "commit", "done")
    /\ Publish(r)
    /\ outcome' = [outcome EXCEPT ![r] = "error"]
    /\ UNCHANGED <<address, mailing, announced, catalogVars>>

-----------------------------------------------------------------------------
(* After the transaction: announce, start the e-mails, answer.  No await    *)
(* separates the three.                                                    *)

Answer(r) ==
    /\ Goto(r, "notify", "done")
    /\ announced' = announced \cup {r}
    /\ mailing' = [mailing EXCEPT ![r] = "sending"]
    /\ outcome' = [outcome EXCEPT ![r] = "stored"]
    /\ UNCHANGED <<address, txVars, tableVars, catalogVars>>

\* MailService.sendContactEmails: both sends settled, failures only logged.
MailSettles(r) ==
    /\ mailing[r] = "sending"
    /\ mailing' = [mailing EXCEPT ![r] = "settled"]
    /\ UNCHANGED <<phase, address, outcome, announced, txVars, tableVars, catalogVars>>

-----------------------------------------------------------------------------
(* The rest of the world.                                                  *)

\* Mutant: the lock belongs to the process and not to the transaction.
CrashKeepsLocks ==
    /\ \E r \in Requests : phase[r] \in InFlight \/ mailing[r] = "sending"
    /\ phase' = [r \in Requests |-> IF phase[r] \in InFlight THEN "done" ELSE phase[r]]
    /\ outcome' = [r \in Requests |-> IF phase[r] \in InFlight THEN "lost" ELSE outcome[r]]
    /\ mailing' = [r \in Requests |-> IF mailing[r] = "sending" THEN "lost" ELSE mailing[r]]
    /\ UNCHANGED <<address, announced, txVars, tableVars, catalogVars>>

\* The Node process dies: open transactions are left to the server to roll
\* back, callers get no answer, unsent e-mails are forgotten.
Crash ==
    /\ \E r \in Requests : phase[r] \in InFlight \/ mailing[r] = "sending"
    /\ phase' = [r \in Requests |->
                   IF phase[r] \in InTransaction THEN "rollback"
                   ELSE IF phase[r] \in {"turnstile", "notify"} THEN "done"
                   ELSE phase[r]]
    /\ outcome' = [r \in Requests |->
                     IF phase[r] \in InFlight THEN "lost" ELSE outcome[r]]
    /\ mailing' = [r \in Requests |->
                     IF mailing[r] = "sending" THEN "lost" ELSE mailing[r]]
    /\ UNCHANGED <<address, announced, txVars, tableVars, catalogVars>>

\* CrmService.create inserts a prospect with its address ...
CrmCreates(l, e) ==
    /\ leadEmail[l] = NoEmail
    /\ WriteLead(l, e, "crm")
    /\ UNCHANGED <<requestVars, txVars, messageEmail, catalogVars>>

\* Mutant: an address left out of the request is written as null.
CrmClearsEmail(l, e) ==
    /\ leadEmail[l] \in Emails \ {e}
    /\ leadEmail' = [leadEmail EXCEPT ![l] = NoEmail]
    /\ UNCHANGED <<requestVars, txVars, messageEmail, leadWriter, everEmail, catalogVars>>

\* ... and CrmService.update overwrites the address of any prospect (an
\* absent or null address in the request leaves it alone).
CrmChangesEmail(l, e) ==
    /\ leadEmail[l] \in Emails \ {e}
    /\ WriteLead(l, e, "crm")
    /\ UNCHANGED <<requestVars, txVars, messageEmail, catalogVars>>

\* UsersService.setActive on the creator account.
SetCreatorActive ==
    /\ creatorActive' = ~ creatorActive
    /\ UNCHANGED <<requestVars, txVars, tableVars, statusActive>>

\* The row of the initial status is switched on or off.
SetStatusActive ==
    /\ statusActive' = ~ statusActive
    /\ UNCHANGED <<requestVars, txVars, tableVars, creatorActive>>

-----------------------------------------------------------------------------
\* What the event loop and the server do for submission r without its caller.
Progress(r) ==
    \/ TurnstilePasses(r) \/ \E o \in Outcomes : TurnstileRefuses(r, o)
    \/ AcquireLock(r) \/ CatalogAccepts(r) \/ CatalogRejects(r)
    \/ InsertMessage(r) \/ FindLead(r) \/ ReadInitialStatus(r) \/ ReadCreator(r)
    \/ DefaultsMissing(r) \/ InsertLead(r) \/ Commit(r) \/ Rollback(r) \/ Answer(r)

Step(r) ==
    \/ SubmitBot(r) \/ \E e \in Emails : Submit(r, e)
    \/ Progress(r) \/ TransactionTimeout(r) \/ CommitUnacknowledged(r) \/ MailSettles(r)

Environment ==
    \/ \E l \in CrmLeads, e \in Emails : CrmCreates(l, e)
    \/ \E l \in LeadIds, e \in Emails : CrmChangesEmail(l, e)
    \/ SetCreatorActive \/ SetStatusActive

Next == (\E r \in Requests : Step(r)) \/ Crash \/ Environment

Spec == Init /\ [][Next]_vars

\* Every await of a live process settles, and no transaction outlives the
\* 5 s of Prisma.  Neither the callers nor the sales team are obliged to act.
Fairness == \A r \in Requests : WF_vars(Progress(r)) /\ WF_vars(TransactionTimeout(r))

FairSpec == Spec /\ Fairness

-----------------------------------------------------------------------------
(* Properties.                                                             *)

TypeOK ==
    /\ phase \in [Requests -> Phases]
    /\ address \in [Requests -> Emails \cup {NoEmail}]
    /\ outcome \in [Requests -> Outcomes]
    /\ mailing \in [Requests -> {"none", "sending", "settled", "lost"}]
    /\ announced \subseteq Requests
    /\ holder \in [LockKeys -> Requests \cup {NoRequest}]
    /\ draft \in [Requests -> SUBSET {"message", "lead"}]
    /\ messageEmail \in [Requests -> Emails \cup {NoEmail}]
    /\ leadEmail \in [LeadIds -> Emails \cup {NoEmail}]
    /\ leadWriter \in [LeadIds -> {"nobody", "contact", "crm"}]
    /\ everEmail \in [LeadIds -> SUBSET Emails]
    /\ statusActive \in BOOLEAN
    /\ creatorActive \in BOOLEAN

\* Two simultaneous submissions of one address never both open a prospect
\* (comment of the advisory lock): at most one prospect still carries the
\* address that an enquiry gave it, whatever the CRM writes meanwhile.
OneLeadPerAddress ==
    \A l, m \in LeadIds :
        (leadWriter[l] = "contact" /\ leadWriter[m] = "contact"
            /\ leadEmail[l] = leadEmail[m]) => l = m

\* No enquiry is lost to sales: the address of a stored message is one that
\* some prospect carries, or carried until the CRM changed it.
EveryMessageReachesSales ==
    \A r \in Requests :
        messageEmail[r] # NoEmail => \E l \in LeadIds : messageEmail[r] \in everEmail[l]

\* Message and prospect stand or fall together, through rollbacks, timeouts
\* and crashes: a prospect opened by a submission has its message.
NoLeadWithoutMessage ==
    \A r \in Requests : leadEmail[r] # NoEmail => messageEmail[r] # NoEmail

\* What the caller is told is so: a reference is that of a stored message
\* (unless it went to a bot), and a 400 or a 503 leaves nothing behind, so
\* that sending the form again does not store the enquiry twice.
AnswersAreTrue ==
    \A r \in Requests :
        /\ outcome[r] = "stored" => messageEmail[r] = address[r]
        /\ outcome[r] \in {"fake", "rejected", "unavailable"} => messageEmail[r] = NoEmail

\* Dashboards and inboxes hear only of messages that are committed.
OnlyStoredIsAnnounced ==
    \A r \in Requests :
        (r \in announced \/ mailing[r] # "none") => messageEmail[r] # NoEmail

-----------------------------------------------------------------------------
(* The inductive invariant that carries the invariants above.              *)

\* A submission that has passed the bots has an address.
AddressKnown ==
    \A r \in Requests :
        phase[r] \in InTransaction \cup {"turnstile"} => address[r] \in Emails

\* The lock is held from the first statement after it to the last.
LockHeld == \A r \in Requests : phase[r] \in Locked => holder[LockKey[address[r]]] = r

DraftFits ==
    \A r \in Requests :
        /\ phase[r] \in {"findLead", "status", "creator", "lead", "commit"}
              => "message" \in draft[r]
        /\ "lead" \in draft[r] => phase[r] \in {"commit", "rollback"}

\* What findFirst saw still holds when the prospect is committed: since then
\* no other submission has opened one for the address.
WillOpen(r) == \/ phase[r] \in {"status", "creator", "lead"}
               \/ phase[r] = "commit" /\ "lead" \in draft[r]
NoneOpened ==
    \A r \in Requests : WillOpen(r) =>
        \A l \in LeadIds : leadEmail[l] = address[r] => leadWriter[l] # "contact"

\* A submission that opens none goes by a prospect that has the address, or
\* had it until the CRM changed it.
SalesKnows ==
    /\ \A l \in LeadIds : leadEmail[l] # NoEmail => leadEmail[l] \in everEmail[l]
    /\ \A r \in Requests : phase[r] = "commit" /\ "lead" \notin draft[r] =>
          \E l \in LeadIds : address[r] \in everEmail[l]

\* Messages are there after the commit and not before; answers come last.
StoredLate ==
    \A r \in Requests :
        /\ messageEmail[r] # NoEmail =>
              phase[r] \in {"notify", "done"} /\ messageEmail[r] = address[r]
        /\ phase[r] = "notify" => messageEmail[r] # NoEmail
        /\ outcome[r] # "none" => phase[r] \in {"rollback", "done"}

IntakeInvariant ==
    /\ TypeOK
    /\ AddressKnown /\ LockHeld /\ DraftFits /\ NoneOpened /\ SalesKnows /\ StoredLate
    /\ OneLeadPerAddress /\ EveryMessageReachesSales /\ NoLeadWithoutMessage
    /\ AnswersAreTrue /\ OnlyStoredIsAnnounced

-----------------------------------------------------------------------------
(* Properties of steps and of behaviours.                                  *)

\* No step takes back a message or a prospect that was committed, and a
\* message keeps the address it was sent from.
CommittedStays ==
    [][/\ \A r \in Requests : messageEmail[r] # NoEmail => messageEmail'[r] = messageEmail[r]
       /\ \A l \in LeadIds : leadEmail[l] # NoEmail => leadEmail'[l] # NoEmail]_vars

\* The transactions, with their lock, do what the registry does in one step.
Registry == INSTANCE LeadRegistry WITH
    messageEmail <- messageEmail, leadEmail <- leadEmail,
    leadWriter <- leadWriter, everEmail <- everEmail
ImplementsRegistry == Registry!Spec

\* Every submission comes to an end, even one that queues for the lock of a
\* busy address, and no dead transaction keeps a lock for good.
EverySubmissionEnds ==
    \A r \in Requests : phase[r] = "turnstile" ~> phase[r] = "done"
LocksAreReturned ==
    \A k \in LockKeys : \A r \in Requests : holder[k] = r ~> holder[k] # r
=============================================================================
