------------------------------ MODULE CrmLeads ------------------------------
(***************************************************************************)
(* CrmService: prospects, their relations, their history of activities and *)
(* the e-mails sent to them.  A call reads the prospect outside of any     *)
(* transaction, works, and writes in a transaction at the end, so what it  *)
(* read may be out of date by then.  Transactions are READ COMMITTED; the  *)
(* UPDATE of the prospect's row locks the row until the transaction ends.  *)
(* Prisma sends none when the request names no column of the row: then it  *)
(* only reads the row.                                                     *)
(*                                                                         *)
(* A call inserts at most one e-mail, one note and one activity of each    *)
(* type, so the name of the call serves as the id of those rows.           *)
(* Categories, digital assets, offerings and links are replaced the same   *)
(* way; Items stands for one of them.                                      *)
(***************************************************************************)
CONSTANTS Leads, Calls, Statuses, Items,
          Contacted,   \* the status with code CONTACTED
          Absent,      \* a field the request leaves out, a row that is not there
          NoCall

ActivityTypes == {"NOTE", "EMAIL", "STATUS_CHANGE", "CALL"}
Operations == {"create", "update", "note", "activity", "email"}
EmailStates == {"PENDING", "SENT", "FAILED"}

ASSUME CrmAssumption ==
    /\ Contacted \in Statuses
    /\ Absent \notin Statuses \cup Leads \cup Operations \cup EmailStates
    /\ \A s \in SUBSET Items : Absent # s
    /\ NoCall \notin Calls

VARIABLES
    \* The database.
    status,      \* crm_leads.status_id, Absent when there is no such prospect
    items,       \* its committed relation rows
    activities,  \* crm_lead_activities: who inserted the row, and its type
    notes,       \* crm_lead_notes
    emailRow,    \* crm_emails.status of the row the call inserted
    rowLock,     \* the transaction that has updated the prospect's row
    \* The calls.
    op, phase, lead,
    want,        \* dto.statusId
    list,        \* dto.categoryIds and the like
    touches,     \* the request names a column of the prospect's row
    seen,        \* the status that requireLead returned
    deleted,     \* the rows that deleteMany is to delete or has deleted
    answer,
    \* The mail server, and history.
    accepted,    \* calls whose message the SMTP server has taken
    lastList     \* the list of the last call that committed one

leadVars == <<status, items, lastList>>
recordVars == <<activities, notes, emailRow>>
requestVars == <<op, lead, want, list, touches>>
callVars == <<requestVars, phase, seen, deleted, answer>>
vars == <<leadVars, recordVars, rowLock, callVars, accepted>>

Lists == {Absent} \cup (SUBSET Items)

Init == /\ status \in [Leads -> Statuses \cup {Absent}]
        /\ items = [l \in Leads |-> {}]
        /\ lastList = [l \in Leads |-> {}]
        /\ activities = {}
        /\ notes = {}
        /\ emailRow = [c \in Calls |-> Absent]
        /\ rowLock = [l \in Leads |-> NoCall]
        /\ op = [c \in Calls |-> Absent]
        /\ phase = [c \in Calls |-> "idle"]
        /\ lead = [c \in Calls |-> Absent]
        /\ want = [c \in Calls |-> Absent]
        /\ list = [c \in Calls |-> Absent]
        /\ touches = [c \in Calls |-> FALSE]
        /\ seen = [c \in Calls |-> Absent]
        /\ deleted = [c \in Calls |-> {}]
        /\ answer = [c \in Calls |-> "none"]
        /\ accepted = {}

Goto(c, from, to) == phase[c] = from /\ phase' = [phase EXCEPT ![c] = to]

Finish(c, from, a) ==
    /\ Goto(c, from, "done")
    /\ answer' = [answer EXCEPT ![c] = a]

-----------------------------------------------------------------------------
(* A call arrives; all but create begin with requireLead.                  *)

Arrive(c, o, l, w, i, t) ==
    /\ Goto(c, "idle", IF o = "create" THEN "validate" ELSE "read")
    /\ o = "create" => status[l] = Absent /\ w # Absent
    /\ o \in {"note", "activity", "email"} => w = Absent /\ i = Absent
    /\ o # "update" \/ w # Absent => t
    /\ op' = [op EXCEPT ![c] = o]
    /\ lead' = [lead EXCEPT ![c] = l]
    /\ want' = [want EXCEPT ![c] = w]
    /\ list' = [list EXCEPT ![c] = i]
    /\ touches' = [touches EXCEPT ![c] = t]
    /\ UNCHANGED <<leadVars, recordVars, rowLock, seen, deleted, answer, accepted>>

AfterRead == [update |-> "validate", note |-> "note", activity |-> "activity",
              email |-> "queue"]

ReadLead(c) ==
    /\ phase[c] = "read"
    /\ status[lead[c]] # Absent
    /\ phase' = [phase EXCEPT ![c] = AfterRead[op[c]]]
    /\ seen' = [seen EXCEPT ![c] = status[lead[c]]]
    /\ UNCHANGED <<leadVars, recordVars, rowLock, requestVars, deleted, answer, accepted>>

\* 404 when there is no prospect, 400 for references that are not active or
\* listed twice, and for an e-mail to a prospect that has no address.
Refuse(c) ==
    /\ \/ phase[c] = "read" /\ status[lead[c]] = Absent
       \/ phase[c] \in {"validate", "queue"}
    /\ Finish(c, phase[c], "rejected")
    /\ UNCHANGED <<leadVars, recordVars, rowLock, requestVars, seen, deleted, accepted>>

\* validateReferences finds every reference active, outside the transaction.
Validate(c) ==
    /\ Goto(c, "validate", IF op[c] = "create" THEN "insertLead" ELSE "lock")
    /\ UNCHANGED <<leadVars, recordVars, rowLock, requestVars, seen, deleted, answer, accepted>>

\* One nested insert, which Prisma runs in a transaction of its own.
CreateLead(c) ==
    /\ Finish(c, "insertLead", "ok")
    /\ status[lead[c]] = Absent
    /\ status' = [status EXCEPT ![lead[c]] = want[c]]
    /\ items' = [items EXCEPT ![lead[c]] = IF list[c] = Absent THEN {} ELSE list[c]]
    /\ lastList' = [lastList EXCEPT ![lead[c]] = items'[lead[c]]]
    /\ UNCHANGED <<recordVars, rowLock, requestVars, seen, deleted, accepted>>

-----------------------------------------------------------------------------
(* Notes and activities.                                                   *)

\* The note and its activity are committed together.
AddNote(c) ==
    /\ Finish(c, "note", "ok")
    /\ notes' = notes \cup {c}
    /\ activities' = activities \cup {<<c, "NOTE">>}
    /\ UNCHANGED <<leadVars, emailRow, rowLock, requestVars, seen, deleted, accepted>>

AddActivity(c, t) ==
    /\ Finish(c, "activity", "ok")
    /\ activities' = activities \cup {<<c, t>>}
    /\ UNCHANGED <<leadVars, notes, emailRow, rowLock, requestVars, seen, deleted, accepted>>

-----------------------------------------------------------------------------
(* Sending an e-mail.                                                      *)

\* The row is stored as PENDING before the message goes out.
QueueEmail(c) ==
    /\ Goto(c, "queue", "smtp")
    /\ emailRow' = [emailRow EXCEPT ![c] = "PENDING"]
    /\ UNCHANGED <<leadVars, activities, notes, rowLock, requestVars, seen, deleted,
                   answer, accepted>>

SmtpAccepts(c) ==
    /\ Goto(c, "smtp", "lock")
    /\ accepted' = accepted \cup {c}
    /\ UNCHANGED <<leadVars, recordVars, rowLock, requestVars, seen, deleted, answer>>

\* Mutant: the error of the server is swallowed.
SmtpRefusesUnnoticed(c) ==
    /\ Goto(c, "smtp", "lock")
    /\ UNCHANGED <<leadVars, recordVars, rowLock, requestVars, seen, deleted, answer, accepted>>

\* The server refuses the message, or mail is disabled ...
SmtpRefuses(c) ==
    /\ Goto(c, "smtp", "markFailed")
    /\ UNCHANGED <<leadVars, recordVars, rowLock, requestVars, seen, deleted, answer, accepted>>

\* ... or takes it and the connection breaks before it says so.
SmtpAnswerLost(c) ==
    /\ Goto(c, "smtp", "markFailed")
    /\ accepted' = accepted \cup {c}
    /\ UNCHANGED <<leadVars, recordVars, rowLock, requestVars, seen, deleted, answer>>

\* Mutant: the catch block leaves the row alone.
MarkFailedForgotten(c) ==
    /\ Finish(c, "markFailed", "badGateway")
    /\ UNCHANGED <<leadVars, recordVars, rowLock, requestVars, seen, deleted, accepted>>

\* The catch block, which any failure after the insert leads to.
MarkFailed(c) ==
    /\ Finish(c, "markFailed", "badGateway")
    /\ emailRow' = [emailRow EXCEPT ![c] = "FAILED"]
    /\ UNCHANGED <<leadVars, activities, notes, rowLock, requestVars, seen, deleted, accepted>>

-----------------------------------------------------------------------------
(* The transactions of update and sendEmail.                               *)

\* Mutant: the relations are replaced before the row is updated.
LockLeadLater(c) ==
    /\ Goto(c, "lock", IF list[c] = Absent THEN "commit" ELSE "delete")
    /\ touches[c]
    /\ UNCHANGED <<leadVars, recordVars, rowLock, requestVars, seen, deleted, answer, accepted>>

\* UPDATE crm_leads waits until no other transaction has the row ...
LockLead(c) ==
    /\ Goto(c, "lock", IF list[c] = Absent THEN "commit" ELSE "delete")
    /\ touches[c]
    /\ rowLock[lead[c]] = NoCall
    /\ rowLock' = [rowLock EXCEPT ![lead[c]] = c]
    /\ UNCHANGED <<leadVars, recordVars, requestVars, seen, deleted, answer, accepted>>

\* ... or is not sent at all.
ReadLeadAgain(c) ==
    /\ Goto(c, "lock", IF list[c] = Absent THEN "commit" ELSE "delete")
    /\ ~ touches[c]
    /\ UNCHANGED <<leadVars, recordVars, rowLock, requestVars, seen, deleted, answer, accepted>>

\* Another transaction on the same prospect has deleted rows, or also inserted
\* its own.
HasDeleted(d, c) == d # c /\ lead[d] = lead[c] /\ phase[d] \in {"insert", "commit"}
HasInserted(d, c) == HasDeleted(d, c) /\ phase[d] = "commit" /\ list[d] # Absent

\* deleteMany finds the rows committed by now ...
FindItems(c) ==
    /\ Goto(c, "delete", "deleting")
    /\ deleted' = [deleted EXCEPT ![c] = items[lead[c]]]
    /\ UNCHANGED <<leadVars, recordVars, rowLock, requestVars, seen, answer, accepted>>

\* ... and waits for those that others are deleting.
DeleteItems(c) ==
    /\ Goto(c, "deleting", "insert")
    /\ \A d \in Calls : HasDeleted(d, c) => deleted[d] \cap deleted[c] = {}
    /\ UNCHANGED <<leadVars, recordVars, rowLock, requestVars, seen, deleted, answer, accepted>>

\* createMany waits for others that have deleted or inserted a row with the
\* same key, and violates the primary key if such a row is there.
InsertItems(c) ==
    /\ Goto(c, "insert", "commit")
    /\ \A d \in Calls :
          /\ HasDeleted(d, c) => deleted[d] \cap list[c] = {}
          /\ HasInserted(d, c) => list[d] \cap list[c] = {}
    /\ list[c] \cap (items[lead[c]] \ deleted[c]) = {}
    /\ UNCHANGED <<leadVars, recordVars, rowLock, requestVars, seen, deleted, answer, accepted>>

Unlock(c) == rowLock' = [l \in Leads |-> IF rowLock[l] = c THEN NoCall ELSE rowLock[l]]

\* Mutant: the change of status is not recorded.
WriteUpdateSilently(c) ==
    /\ status' = IF want[c] = Absent THEN status
                 ELSE [status EXCEPT ![lead[c]] = want[c]]
    /\ items' = IF list[c] = Absent THEN items
                ELSE [items EXCEPT ![lead[c]] = (@ \ deleted[c]) \cup list[c]]
    /\ lastList' = IF list[c] = Absent THEN lastList
                   ELSE [lastList EXCEPT ![lead[c]] = list[c]]
    /\ UNCHANGED <<activities, emailRow>>

WriteUpdate(c) ==
    /\ status' = IF want[c] = Absent THEN status
                 ELSE [status EXCEPT ![lead[c]] = want[c]]
    /\ items' = IF list[c] = Absent THEN items
                ELSE [items EXCEPT ![lead[c]] = (@ \ deleted[c]) \cup list[c]]
    /\ lastList' = IF list[c] = Absent THEN lastList
                   ELSE [lastList EXCEPT ![lead[c]] = list[c]]
    /\ activities' = IF want[c] \in {Absent, seen[c]} THEN activities
                     ELSE activities \cup {<<c, "STATUS_CHANGE">>}
    /\ UNCHANGED emailRow

\* Mutant: the code of the status is stored for its id.
WriteSentByCode(c) ==
    /\ emailRow' = [emailRow EXCEPT ![c] = "SENT"]
    /\ status' = [status EXCEPT ![lead[c]] = "CONTACTED"]
    /\ activities' = activities \cup {<<c, "EMAIL">>} \cup
                     (IF seen[c] = Contacted THEN {} ELSE {<<c, "STATUS_CHANGE">>})
    /\ UNCHANGED <<items, lastList>>

WriteSent(c) ==
    /\ emailRow' = [emailRow EXCEPT ![c] = "SENT"]
    /\ status' = [status EXCEPT ![lead[c]] = Contacted]
    /\ activities' = activities \cup {<<c, "EMAIL">>} \cup
                     (IF seen[c] = Contacted THEN {} ELSE {<<c, "STATUS_CHANGE">>})
    /\ UNCHANGED <<items, lastList>>

\* A deleteMany that waited passes over the rows that are gone when it goes
\* on, and does not see those that have come.
LosesSight(c) ==
    deleted' = [d \in Calls |-> IF phase[d] = "deleting" /\ lead[d] = lead[c]
                               THEN deleted[d] \ deleted[c] ELSE deleted[d]]

Write(c) == /\ IF op[c] = "email" THEN WriteSent(c) ELSE WriteUpdate(c)
            /\ Unlock(c)
            /\ LosesSight(c)
            /\ UNCHANGED <<notes, requestVars, seen, accepted>>

Commit(c) == Finish(c, "commit", "ok") /\ Write(c)

\* An exception: update answers 500, sendEmail goes to its catch block.
Throw(c) ==
    /\ phase' = [phase EXCEPT ![c] = IF op[c] = "email" THEN "markFailed" ELSE "done"]
    /\ answer' = [answer EXCEPT ![c] = IF op[c] = "email" THEN @ ELSE "error"]

\* The database commits and the connection breaks before it says so.
CommitUnacknowledged(c) == phase[c] = "commit" /\ Throw(c) /\ Write(c)

\* A statement fails or the 5 s of the transaction are over: rolled back.
TransactionFails(c) ==
    /\ phase[c] \in {"lock", "delete", "deleting", "insert", "commit"}
    /\ Throw(c)
    /\ Unlock(c)
    /\ UNCHANGED <<leadVars, recordVars, requestVars, seen, deleted, accepted>>

\* The process dies, or a statement outside the transactions fails.
Dies(c) ==
    /\ phase[c] \notin {"idle", "done"}
    /\ Finish(c, phase[c], "error")
    /\ Unlock(c)
    /\ UNCHANGED <<leadVars, recordVars, requestVars, seen, deleted, accepted>>

-----------------------------------------------------------------------------
\* All that a call may do but for losing the answer of the mail server.
HeardStep(c) ==
    \/ ReadLead(c) \/ Refuse(c) \/ Validate(c) \/ CreateLead(c)
    \/ AddNote(c) \/ \E t \in ActivityTypes : AddActivity(c, t)
    \/ QueueEmail(c) \/ SmtpAccepts(c) \/ SmtpRefuses(c) \/ MarkFailed(c)
    \/ LockLead(c) \/ ReadLeadAgain(c) \/ FindItems(c) \/ DeleteItems(c) \/ InsertItems(c)
    \/ Commit(c) \/ CommitUnacknowledged(c) \/ TransactionFails(c) \/ Dies(c)

Step(c) == HeardStep(c) \/ SmtpAnswerLost(c)

Comes(c) ==
    \E o \in Operations, l \in Leads, w \in Statuses \cup {Absent}, i \in Lists, t \in BOOLEAN :
        Arrive(c, o, l, w, i, t)

Next == \E c \in Calls : Comes(c) \/ Step(c)

Spec == Init /\ [][Next]_vars

-----------------------------------------------------------------------------
(* Properties.                                                             *)

Phases == {"idle", "read", "validate", "insertLead", "note", "activity", "queue", "smtp",
           "markFailed", "lock", "delete", "deleting", "insert", "commit", "done"}

TypeOK ==
    /\ status \in [Leads -> Statuses \cup {Absent}]
    /\ items \in [Leads -> SUBSET Items]
    /\ lastList \in [Leads -> SUBSET Items]
    /\ activities \subseteq Calls \X ActivityTypes
    /\ notes \subseteq Calls
    /\ emailRow \in [Calls -> EmailStates \cup {Absent}]
    /\ rowLock \in [Leads -> Calls \cup {NoCall}]
    /\ op \in [Calls -> Operations \cup {Absent}]
    /\ phase \in [Calls -> Phases]
    /\ lead \in [Calls -> Leads \cup {Absent}]
    /\ want \in [Calls -> Statuses \cup {Absent}]
    /\ list \in [Calls -> Lists]
    /\ touches \in [Calls -> BOOLEAN]
    /\ seen \in [Calls -> Statuses \cup {Absent}]
    /\ deleted \in [Calls -> SUBSET Items]
    /\ answer \in [Calls -> {"none", "ok", "rejected", "badGateway", "error"}]
    /\ accepted \subseteq Calls

\* An edit that gives a list and names no column of the prospect.
ListOnly(c) == op[c] = "update" /\ list[c] # Absent /\ ~ touches[c]

\* Simultaneous edits of a prospect do not mix their lists of relations, which
\* update replaces with deleteMany and createMany: the prospect has exactly
\* the relations of the last edit that gave a list, unless one of its edits
\* gave nothing but lists and so did not lock the prospect.
RelationsNeverMix ==
    \A l \in Leads :
        items[l] # lastList[l] => \E c \in Calls : lead[c] = l /\ ListOnly(c)

\* The history never claims an e-mail that did not go out, and an e-mail kept
\* as SENT (hasSentEmails) is in the history.
MailRecordIsTrue ==
    \A c \in Calls :
        /\ (op[c] = "email" /\ <<c, "EMAIL">> \in activities) => c \in accepted
        /\ emailRow[c] = "SENT" => <<c, "EMAIL">> \in activities

\* An e-mail whose call has answered is settled, as the answer says; a PENDING
\* row is one of a call under way or of one that died.
AnsweredMailIsSettled ==
    \A c \in Calls : op[c] = "email" =>
        /\ answer[c] = "ok" => emailRow[c] = "SENT"
        /\ answer[c] = "badGateway" => emailRow[c] = "FAILED"
        /\ emailRow[c] = "PENDING" => phase[c] # "done" \/ answer[c] = "error"

\* The status of a prospect changes without a STATUS_CHANGE in its history only
\* when another call has changed it behind the back of the writer, which
\* compares with the status it read before its transaction.
SilentChangeNeedsRace ==
    [][\A l \in Leads :
          (status[l] # Absent /\ status'[l] # status[l] /\ activities' = activities) =>
             \E c \in Calls : /\ rowLock[l] = c /\ rowLock'[l] # c
                              /\ seen[c] # status[l]]_vars

-----------------------------------------------------------------------------
(* What carries them.                                                      *)

InTransaction(c) == phase[c] \in {"delete", "deleting", "insert", "commit"}

\* Where each operation can stand, and what it has brought along.
CallFits(c) ==
    /\ phase[c] = "idle" => op[c] = Absent /\ list[c] = Absent
    /\ phase[c] # "idle" => op[c] \in Operations /\ lead[c] \in Leads
    /\ op[c] = "create" => phase[c] \in {"validate", "insertLead", "done"}
    /\ op[c] = "email" => phase[c] \in {"read", "queue", "smtp", "lock", "commit", "markFailed",
                                       "done"}
    /\ op[c] \in {"note", "activity", "email"} => list[c] = Absent
    /\ phase[c] = "note" => op[c] = "note"
    /\ phase[c] = "activity" => op[c] = "activity"
    /\ phase[c] = "insertLead" => op[c] = "create" /\ want[c] # Absent
    /\ phase[c] = "validate" => op[c] \in {"create", "update"}
    /\ phase[c] \in {"queue", "smtp", "markFailed"} => op[c] = "email"
    /\ phase[c] = "lock" \/ InTransaction(c) => op[c] \in {"update", "email"}
    /\ phase[c] \in {"delete", "deleting", "insert"} => list[c] # Absent
    /\ op[c] # "update" \/ want[c] # Absent => touches[c] \/ op[c] = Absent
    /\ list[c] = Absent => deleted[c] = {}
    /\ op[c] = "create" => want[c] # Absent
    /\ answer[c] # "none" => phase[c] = "done"

\* The prospect of a call that has found it stays: no operation deletes one.
FoundStays(c) ==
    (op[c] # "create" /\ phase[c] \notin {"idle", "read", "done"}) => status[lead[c]] # Absent

\* A call records nothing in the history before it ends.
HistoryAtEnd(c) ==
    phase[c] \notin {"markFailed", "done"} => \A t \in ActivityTypes : <<c, t>> \notin activities

\* The row of an e-mail is PENDING, and the mail server has the message, when
\* the transaction that records it is under way.
MailUnderWay(c) ==
    /\ phase[c] \in {"idle", "read", "queue"} => emailRow[c] = Absent
    /\ op[c] = "email" =>
        (phase[c] = "lock" \/ InTransaction(c) => c \in accepted)

HoldsRow(c) == (InTransaction(c) /\ touches[c]) => rowLock[lead[c]] = c

\* Where all edits of a prospect lock it, the rows that one of them replaces
\* are those that are there.
ReplacesAll(c) ==
    (/\ phase[c] \in {"deleting", "insert", "commit"} /\ list[c] # Absent
     /\ \A d \in Calls : lead[d] = lead[c] => ~ ListOnly(d))
    => deleted[c] = items[lead[c]]

CrmInvariant ==
    /\ TypeOK
    /\ \A c \in Calls : /\ CallFits(c) /\ FoundStays(c) /\ HistoryAtEnd(c)
                         /\ MailUnderWay(c) /\ HoldsRow(c) /\ ReplacesAll(c)
    /\ RelationsNeverMix /\ MailRecordIsTrue /\ AnsweredMailIsSettled

-----------------------------------------------------------------------------
\* What the 502 of sendEmail says, 'No fue posible enviar el correo': the
\* message did not go out.  The code does not keep this when the server says
\* that it has taken the message and the transaction that is to record it,
\* which stands in the same try block, fails.
FailedMailDidNotGoOut ==
    \A c \in Calls : (op[c] = "email" /\ answer[c] = "badGateway") => c \notin accepted
=============================================================================
