--------------------------- MODULE CrmLeadsProofs ---------------------------
(***************************************************************************)
(* What TLAPS proves of CrmLeads, for every set of prospects, calls,       *)
(* statuses and related rows.                                              *)
(***************************************************************************)
EXTENDS CrmLeads, TLAPS

USE CrmAssumption

-----------------------------------------------------------------------------
(* Every step keeps each part of the invariant.                            *)

\* Every variable keeps its type.
LEMMA TypeKept ==
    ASSUME CrmInvariant, [Next]_vars
    PROVE  TypeOK'
<1>1. ASSUME NEW c \in Calls, NEW o \in Operations, NEW l \in Leads,
             NEW w \in Statuses \cup {Absent}, NEW i \in Lists, NEW t \in BOOLEAN,
             Arrive(c, o, l, w, i, t)
      PROVE  TypeOK'
  BY <1>1
  DEF CrmInvariant, TypeOK, Lists, Operations, ActivityTypes, EmailStates, Phases,
      CallFits, Arrive, Goto, leadVars, recordVars, requestVars
<1>2. ASSUME NEW c \in Calls, ReadLead(c)
      PROVE  TypeOK'
  BY <1>2
  DEF CrmInvariant, TypeOK, Lists, Operations, ActivityTypes, EmailStates, Phases,
      CallFits, ReadLead, AfterRead, leadVars, recordVars, requestVars
<1>3. ASSUME NEW c \in Calls, Refuse(c)
      PROVE  TypeOK'
  BY <1>3
  DEF CrmInvariant, TypeOK, Lists, Operations, ActivityTypes, EmailStates, Phases,
      CallFits, Refuse, Finish, Goto, leadVars, recordVars, requestVars
<1>4. ASSUME NEW c \in Calls, Validate(c)
      PROVE  TypeOK'
  BY <1>4
  DEF CrmInvariant, TypeOK, Lists, Operations, ActivityTypes, EmailStates, Phases,
      CallFits, Validate, Goto, leadVars, recordVars, requestVars
<1>5. ASSUME NEW c \in Calls, CreateLead(c)
      PROVE  TypeOK'
  BY <1>5
  DEF CrmInvariant, TypeOK, Lists, Operations, ActivityTypes, EmailStates, Phases,
      CallFits, CreateLead, Finish, Goto, leadVars, recordVars, requestVars
<1>6. ASSUME NEW c \in Calls, AddNote(c)
      PROVE  TypeOK'
  BY <1>6
  DEF CrmInvariant, TypeOK, Lists, Operations, ActivityTypes, EmailStates, Phases,
      CallFits, AddNote, Finish, Goto, leadVars, recordVars, requestVars
<1>7. ASSUME NEW c \in Calls, NEW t \in ActivityTypes, AddActivity(c, t)
      PROVE  TypeOK'
  BY <1>7
  DEF CrmInvariant, TypeOK, Lists, Operations, ActivityTypes, EmailStates, Phases,
      CallFits, AddActivity, Finish, Goto, leadVars, recordVars, requestVars
<1>8. ASSUME NEW c \in Calls, QueueEmail(c)
      PROVE  TypeOK'
  BY <1>8
  DEF CrmInvariant, TypeOK, Lists, Operations, ActivityTypes, EmailStates, Phases,
      CallFits, QueueEmail, Goto, leadVars, recordVars, requestVars
<1>9. ASSUME NEW c \in Calls, SmtpAccepts(c)
      PROVE  TypeOK'
  BY <1>9
  DEF CrmInvariant, TypeOK, Lists, Operations, ActivityTypes, EmailStates, Phases,
      CallFits, SmtpAccepts, Goto, leadVars, recordVars, requestVars
<1>10. ASSUME NEW c \in Calls, SmtpRefuses(c)
      PROVE  TypeOK'
  BY <1>10
  DEF CrmInvariant, TypeOK, Lists, Operations, ActivityTypes, EmailStates, Phases,
      CallFits, SmtpRefuses, Goto, leadVars, recordVars, requestVars
<1>11. ASSUME NEW c \in Calls, SmtpAnswerLost(c)
      PROVE  TypeOK'
  BY <1>11
  DEF CrmInvariant, TypeOK, Lists, Operations, ActivityTypes, EmailStates, Phases,
      CallFits, SmtpAnswerLost, Goto, leadVars, recordVars, requestVars
<1>12. ASSUME NEW c \in Calls, MarkFailed(c)
      PROVE  TypeOK'
  BY <1>12
  DEF CrmInvariant, TypeOK, Lists, Operations, ActivityTypes, EmailStates, Phases,
      CallFits, MarkFailed, Finish, Goto, leadVars, recordVars, requestVars
<1>13. ASSUME NEW c \in Calls, LockLead(c)
      PROVE  TypeOK'
  BY <1>13
  DEF CrmInvariant, TypeOK, Lists, Operations, ActivityTypes, EmailStates, Phases,
      CallFits, LockLead, Goto, leadVars, recordVars, requestVars
<1>14. ASSUME NEW c \in Calls, ReadLeadAgain(c)
      PROVE  TypeOK'
  BY <1>14
  DEF CrmInvariant, TypeOK, Lists, Operations, ActivityTypes, EmailStates, Phases,
      CallFits, ReadLeadAgain, Goto, leadVars, recordVars, requestVars
<1>15. ASSUME NEW c \in Calls, FindItems(c)
      PROVE  TypeOK'
  BY <1>15
  DEF CrmInvariant, TypeOK, Lists, Operations, ActivityTypes, EmailStates, Phases,
      CallFits, FindItems, Goto, leadVars, recordVars, requestVars
<1>16. ASSUME NEW c \in Calls, DeleteItems(c)
      PROVE  TypeOK'
  BY <1>16
  DEF CrmInvariant, TypeOK, Lists, Operations, ActivityTypes, EmailStates, Phases,
      CallFits, DeleteItems, Goto, leadVars, recordVars, requestVars
<1>17. ASSUME NEW c \in Calls, InsertItems(c)
      PROVE  TypeOK'
  BY <1>17
  DEF CrmInvariant, TypeOK, Lists, Operations, ActivityTypes, EmailStates, Phases,
      CallFits, InsertItems, Goto, leadVars, recordVars, requestVars
<1>18. ASSUME NEW c \in Calls, Commit(c)
      PROVE  TypeOK'
  <2>1. CASE op[c] = "email"
    BY <1>18, <2>1
    DEF CrmInvariant, TypeOK, Lists, Operations, ActivityTypes, EmailStates, Phases,
        CallFits, Commit, Finish, Goto, Write, WriteSent, WriteUpdate, Unlock,
        LosesSight, leadVars, recordVars, requestVars
  <2>2. CASE op[c] = "update"
    BY <1>18, <2>2
    DEF CrmInvariant, TypeOK, Lists, Operations, ActivityTypes, EmailStates, Phases,
        CallFits, Commit, Finish, Goto, Write, WriteSent, WriteUpdate, Unlock,
        LosesSight, leadVars, recordVars, requestVars
  <2> QED
    BY <1>18, <2>1, <2>2 DEF CrmInvariant, CallFits, InTransaction, Commit, Finish, Goto
<1>19. ASSUME NEW c \in Calls, CommitUnacknowledged(c)
      PROVE  TypeOK'
  BY <1>19
  DEF CrmInvariant, TypeOK, Lists, Operations, ActivityTypes, EmailStates, Phases,
      CallFits, CommitUnacknowledged, Throw, Write, WriteSent, WriteUpdate, Unlock,
      LosesSight, leadVars, recordVars, requestVars
<1>20. ASSUME NEW c \in Calls, TransactionFails(c)
      PROVE  TypeOK'
  BY <1>20
  DEF CrmInvariant, TypeOK, Lists, Operations, ActivityTypes, EmailStates, Phases,
      CallFits, TransactionFails, Throw, Unlock, leadVars, recordVars, requestVars
<1>21. ASSUME NEW c \in Calls, Dies(c)
      PROVE  TypeOK'
  BY <1>21
  DEF CrmInvariant, TypeOK, Lists, Operations, ActivityTypes, EmailStates, Phases,
      CallFits, Dies, Finish, Goto, Unlock, leadVars, recordVars, requestVars
<1>22. CASE UNCHANGED vars
  BY <1>22
  DEF CrmInvariant, TypeOK, Lists, Operations, ActivityTypes, EmailStates, Phases,
      CallFits, vars, leadVars, recordVars, requestVars, callVars
<1> QED
  BY <1>1, <1>2, <1>3, <1>4, <1>5, <1>6, <1>7, <1>8, <1>9, <1>10, <1>11, <1>12, <1>13,
      <1>14, <1>15, <1>16, <1>17, <1>18, <1>19, <1>20, <1>21, <1>22
  DEF Next, Comes, Step, HeardStep

\* A call stands where its operation can stand.
LEMMA FitsKept ==
    ASSUME CrmInvariant, [Next]_vars
    PROVE  (\A d \in Calls : CallFits(d))'
<1>1. ASSUME NEW c \in Calls, NEW o \in Operations, NEW l \in Leads,
             NEW w \in Statuses \cup {Absent}, NEW i \in Lists, NEW t \in BOOLEAN,
             Arrive(c, o, l, w, i, t)
      PROVE  (\A d \in Calls : CallFits(d))'
  <2> SUFFICES ASSUME NEW d \in Calls
               PROVE  CallFits(d)'
    OBVIOUS
  <2>1. CASE d = c
    BY <1>1, <2>1
    DEF CrmInvariant, TypeOK, CallFits, InTransaction, Operations, Lists, Phases,
        Arrive, Goto, leadVars, recordVars, requestVars
  <2>2. CASE d # c
    BY <1>1, <2>2
    DEF CrmInvariant, TypeOK, CallFits, InTransaction, Operations, Lists, Phases,
        Arrive, Goto, leadVars, recordVars, requestVars
  <2> QED
    BY <2>1, <2>2
<1>2. ASSUME NEW c \in Calls, ReadLead(c)
      PROVE  (\A d \in Calls : CallFits(d))'
  BY <1>2
  DEF CrmInvariant, TypeOK, CallFits, InTransaction, Operations, Lists, Phases,
      ReadLead, AfterRead, leadVars, recordVars, requestVars
<1>3. ASSUME NEW c \in Calls, Refuse(c)
      PROVE  (\A d \in Calls : CallFits(d))'
  BY <1>3
  DEF CrmInvariant, TypeOK, CallFits, InTransaction, Operations, Lists, Phases, Refuse,
      Finish, Goto, leadVars, recordVars, requestVars
<1>4. ASSUME NEW c \in Calls, Validate(c)
      PROVE  (\A d \in Calls : CallFits(d))'
  BY <1>4
  DEF CrmInvariant, TypeOK, CallFits, InTransaction, Operations, Lists, Phases,
      Validate, Goto, leadVars, recordVars, requestVars
<1>5. ASSUME NEW c \in Calls, CreateLead(c)
      PROVE  (\A d \in Calls : CallFits(d))'
  BY <1>5
  DEF CrmInvariant, TypeOK, CallFits, InTransaction, Operations, Lists, Phases,
      CreateLead, Finish, Goto, leadVars, recordVars, requestVars
<1>6. ASSUME NEW c \in Calls, AddNote(c)
      PROVE  (\A d \in Calls : CallFits(d))'
  BY <1>6
  DEF CrmInvariant, TypeOK, CallFits, InTransaction, Operations, Lists, Phases,
      AddNote, Finish, Goto, leadVars, recordVars, requestVars
<1>7. ASSUME NEW c \in Calls, NEW t \in ActivityTypes, AddActivity(c, t)
      PROVE  (\A d \in Calls : CallFits(d))'
  BY <1>7
  DEF CrmInvariant, TypeOK, CallFits, InTransaction, Operations, Lists, Phases,
      AddActivity, Finish, Goto, leadVars, recordVars, requestVars
<1>8. ASSUME NEW c \in Calls, QueueEmail(c)
      PROVE  (\A d \in Calls : CallFits(d))'
  BY <1>8
  DEF CrmInvariant, TypeOK, CallFits, InTransaction, Operations, Lists, Phases,
      QueueEmail, Goto, leadVars, recordVars, requestVars
<1>9. ASSUME NEW c \in Calls, SmtpAccepts(c)
      PROVE  (\A d \in Calls : CallFits(d))'
  BY <1>9
  DEF CrmInvariant, TypeOK, CallFits, InTransaction, Operations, Lists, Phases,
      SmtpAccepts, Goto, leadVars, recordVars, requestVars
<1>10. ASSUME NEW c \in Calls, SmtpRefuses(c)
      PROVE  (\A d \in Calls : CallFits(d))'
  BY <1>10
  DEF CrmInvariant, TypeOK, CallFits, InTransaction, Operations, Lists, Phases,
      SmtpRefuses, Goto, leadVars, recordVars, requestVars
<1>11. ASSUME NEW c \in Calls, SmtpAnswerLost(c)
      PROVE  (\A d \in Calls : CallFits(d))'
  BY <1>11
  DEF CrmInvariant, TypeOK, CallFits, InTransaction, Operations, Lists, Phases,
      SmtpAnswerLost, Goto, leadVars, recordVars, requestVars
<1>12. ASSUME NEW c \in Calls, MarkFailed(c)
      PROVE  (\A d \in Calls : CallFits(d))'
  BY <1>12
  DEF CrmInvariant, TypeOK, CallFits, InTransaction, Operations, Lists, Phases,
      MarkFailed, Finish, Goto, leadVars, recordVars, requestVars
<1>13. ASSUME NEW c \in Calls, LockLead(c)
      PROVE  (\A d \in Calls : CallFits(d))'
  BY <1>13
  DEF CrmInvariant, TypeOK, CallFits, InTransaction, Operations, Lists, Phases,
      LockLead, Goto, leadVars, recordVars, requestVars
<1>14. ASSUME NEW c \in Calls, ReadLeadAgain(c)
      PROVE  (\A d \in Calls : CallFits(d))'
  BY <1>14
  DEF CrmInvariant, TypeOK, CallFits, InTransaction, Operations, Lists, Phases,
      ReadLeadAgain, Goto, leadVars, recordVars, requestVars
<1>15. ASSUME NEW c \in Calls, FindItems(c)
      PROVE  (\A d \in Calls : CallFits(d))'
  BY <1>15
  DEF CrmInvariant, TypeOK, CallFits, InTransaction, Operations, Lists, Phases,
      FindItems, Goto, leadVars, recordVars, requestVars
<1>16. ASSUME NEW c \in Calls, DeleteItems(c)
      PROVE  (\A d \in Calls : CallFits(d))'
  BY <1>16
  DEF CrmInvariant, TypeOK, CallFits, InTransaction, Operations, Lists, Phases,
      DeleteItems, Goto, leadVars, recordVars, requestVars
<1>17. ASSUME NEW c \in Calls, InsertItems(c)
      PROVE  (\A d \in Calls : CallFits(d))'
  BY <1>17
  DEF CrmInvariant, TypeOK, CallFits, InTransaction, Operations, Lists, Phases,
      InsertItems, Goto, leadVars, recordVars, requestVars
<1>18. ASSUME NEW c \in Calls, Commit(c)
      PROVE  (\A d \in Calls : CallFits(d))'
  <2> SUFFICES ASSUME NEW d \in Calls
               PROVE  CallFits(d)'
    OBVIOUS
  <2>1. CASE d = c
    BY <1>18, <2>1
    DEF CrmInvariant, TypeOK, CallFits, InTransaction, Operations, Lists, Phases,
        Commit, Finish, Goto, Write, WriteSent, WriteUpdate, Unlock, LosesSight,
        leadVars, recordVars, requestVars
  <2>2. CASE d # c
    BY <1>18, <2>2
    DEF CrmInvariant, TypeOK, CallFits, InTransaction, Operations, Lists, Phases,
        Commit, Finish, Goto, Write, WriteSent, WriteUpdate, Unlock, LosesSight,
        leadVars, recordVars, requestVars
  <2> QED
    BY <2>1, <2>2
<1>19. ASSUME NEW c \in Calls, CommitUnacknowledged(c)
      PROVE  (\A d \in Calls : CallFits(d))'
  <2> SUFFICES ASSUME NEW d \in Calls
               PROVE  CallFits(d)'
    OBVIOUS
  <2>1. CASE d = c
    BY <1>19, <2>1
    DEF CrmInvariant, TypeOK, CallFits, InTransaction, Operations, Lists, Phases,
        CommitUnacknowledged, Throw, Write, WriteSent, WriteUpdate, Unlock, LosesSight,
        leadVars, recordVars, requestVars
  <2>2. CASE d # c
    BY <1>19, <2>2
    DEF CrmInvariant, TypeOK, CallFits, InTransaction, Operations, Lists, Phases,
        CommitUnacknowledged, Throw, Write, WriteSent, WriteUpdate, Unlock, LosesSight,
        leadVars, recordVars, requestVars
  <2> QED
    BY <2>1, <2>2
<1>20. ASSUME NEW c \in Calls, TransactionFails(c)
      PROVE  (\A d \in Calls : CallFits(d))'
  <2> SUFFICES ASSUME NEW d \in Calls
               PROVE  CallFits(d)'
    OBVIOUS
  <2>1. CASE d = c
    BY <1>20, <2>1
    DEF CrmInvariant, TypeOK, CallFits, InTransaction, Operations, Lists, Phases,
        TransactionFails, Throw, Unlock, leadVars, recordVars, requestVars
  <2>2. CASE d # c
    BY <1>20, <2>2
    DEF CrmInvariant, TypeOK, CallFits, InTransaction, Operations, Lists, Phases,
        TransactionFails, Throw, Unlock, leadVars, recordVars, requestVars
  <2> QED
    BY <2>1, <2>2
<1>21. ASSUME NEW c \in Calls, Dies(c)
      PROVE  (\A d \in Calls : CallFits(d))'
  BY <1>21
  DEF CrmInvariant, TypeOK, CallFits, InTransaction, Operations, Lists, Phases, Dies,
      Finish, Goto, Unlock, leadVars, recordVars, requestVars
<1>22. CASE UNCHANGED vars
  BY <1>22
  DEF CrmInvariant, TypeOK, CallFits, InTransaction, Operations, Lists, Phases, vars,
      leadVars, recordVars, requestVars, callVars
<1> QED
  BY <1>1, <1>2, <1>3, <1>4, <1>5, <1>6, <1>7, <1>8, <1>9, <1>10, <1>11, <1>12, <1>13,
      <1>14, <1>15, <1>16, <1>17, <1>18, <1>19, <1>20, <1>21, <1>22
  DEF Next, Comes, Step, HeardStep

\* A prospect that was found is there.
LEMMA FoundKept ==
    ASSUME CrmInvariant, [Next]_vars
    PROVE  (\A d \in Calls : FoundStays(d))'
<1>1. ASSUME NEW c \in Calls, NEW o \in Operations, NEW l \in Leads,
             NEW w \in Statuses \cup {Absent}, NEW i \in Lists, NEW t \in BOOLEAN,
             Arrive(c, o, l, w, i, t)
      PROVE  (\A d \in Calls : FoundStays(d))'
  BY <1>1
  DEF CrmInvariant, TypeOK, FoundStays, CallFits, Operations, Phases, Arrive, Goto,
      leadVars, recordVars, requestVars
<1>2. ASSUME NEW c \in Calls, ReadLead(c)
      PROVE  (\A d \in Calls : FoundStays(d))'
  BY <1>2
  DEF CrmInvariant, TypeOK, FoundStays, CallFits, Operations, Phases, ReadLead,
      AfterRead, leadVars, recordVars, requestVars
<1>3. ASSUME NEW c \in Calls, Refuse(c)
      PROVE  (\A d \in Calls : FoundStays(d))'
  BY <1>3
  DEF CrmInvariant, TypeOK, FoundStays, CallFits, Operations, Phases, Refuse, Finish,
      Goto, leadVars, recordVars, requestVars
<1>4. ASSUME NEW c \in Calls, Validate(c)
      PROVE  (\A d \in Calls : FoundStays(d))'
  BY <1>4
  DEF CrmInvariant, TypeOK, FoundStays, CallFits, Operations, Phases, Validate, Goto,
      leadVars, recordVars, requestVars
<1>5. ASSUME NEW c \in Calls, CreateLead(c)
      PROVE  (\A d \in Calls : FoundStays(d))'
  BY <1>5
  DEF CrmInvariant, TypeOK, FoundStays, CallFits, Operations, Phases, CreateLead,
      Finish, Goto, leadVars, recordVars, requestVars
<1>6. ASSUME NEW c \in Calls, AddNote(c)
      PROVE  (\A d \in Calls : FoundStays(d))'
  BY <1>6
  DEF CrmInvariant, TypeOK, FoundStays, CallFits, Operations, Phases, AddNote, Finish,
      Goto, leadVars, recordVars, requestVars
<1>7. ASSUME NEW c \in Calls, NEW t \in ActivityTypes, AddActivity(c, t)
      PROVE  (\A d \in Calls : FoundStays(d))'
  BY <1>7
  DEF CrmInvariant, TypeOK, FoundStays, CallFits, Operations, Phases, AddActivity,
      Finish, Goto, leadVars, recordVars, requestVars
<1>8. ASSUME NEW c \in Calls, QueueEmail(c)
      PROVE  (\A d \in Calls : FoundStays(d))'
  BY <1>8
  DEF CrmInvariant, TypeOK, FoundStays, CallFits, Operations, Phases, QueueEmail, Goto,
      leadVars, recordVars, requestVars
<1>9. ASSUME NEW c \in Calls, SmtpAccepts(c)
      PROVE  (\A d \in Calls : FoundStays(d))'
  BY <1>9
  DEF CrmInvariant, TypeOK, FoundStays, CallFits, Operations, Phases, SmtpAccepts,
      Goto, leadVars, recordVars, requestVars
<1>10. ASSUME NEW c \in Calls, SmtpRefuses(c)
      PROVE  (\A d \in Calls : FoundStays(d))'
  BY <1>10
  DEF CrmInvariant, TypeOK, FoundStays, CallFits, Operations, Phases, SmtpRefuses,
      Goto, leadVars, recordVars, requestVars
<1>11. ASSUME NEW c \in Calls, SmtpAnswerLost(c)
      PROVE  (\A d \in Calls : FoundStays(d))'
  BY <1>11
  DEF CrmInvariant, TypeOK, FoundStays, CallFits, Operations, Phases, SmtpAnswerLost,
      Goto, leadVars, recordVars, requestVars
<1>12. ASSUME NEW c \in Calls, MarkFailed(c)
      PROVE  (\A d \in Calls : FoundStays(d))'
  BY <1>12
  DEF CrmInvariant, TypeOK, FoundStays, CallFits, Operations, Phases, MarkFailed,
      Finish, Goto, leadVars, recordVars, requestVars
<1>13. ASSUME NEW c \in Calls, LockLead(c)
      PROVE  (\A d \in Calls : FoundStays(d))'
  BY <1>13
  DEF CrmInvariant, TypeOK, FoundStays, CallFits, Operations, Phases, LockLead, Goto,
      leadVars, recordVars, requestVars
<1>14. ASSUME NEW c \in Calls, ReadLeadAgain(c)
      PROVE  (\A d \in Calls : FoundStays(d))'
  BY <1>14
  DEF CrmInvariant, TypeOK, FoundStays, CallFits, Operations, Phases, ReadLeadAgain,
      Goto, leadVars, recordVars, requestVars
<1>15. ASSUME NEW c \in Calls, FindItems(c)
      PROVE  (\A d \in Calls : FoundStays(d))'
  BY <1>15
  DEF CrmInvariant, TypeOK, FoundStays, CallFits, Operations, Phases, FindItems, Goto,
      leadVars, recordVars, requestVars
<1>16. ASSUME NEW c \in Calls, DeleteItems(c)
      PROVE  (\A d \in Calls : FoundStays(d))'
  BY <1>16
  DEF CrmInvariant, TypeOK, FoundStays, CallFits, Operations, Phases, DeleteItems,
      Goto, leadVars, recordVars, requestVars
<1>17. ASSUME NEW c \in Calls, InsertItems(c)
      PROVE  (\A d \in Calls : FoundStays(d))'
  BY <1>17
  DEF CrmInvariant, TypeOK, FoundStays, CallFits, Operations, Phases, InsertItems,
      Goto, leadVars, recordVars, requestVars
<1>18. ASSUME NEW c \in Calls, Commit(c)
      PROVE  (\A d \in Calls : FoundStays(d))'
  BY <1>18
  DEF CrmInvariant, TypeOK, FoundStays, CallFits, Operations, Phases, Commit, Finish,
      Goto, Write, WriteSent, WriteUpdate, Unlock, LosesSight, leadVars, recordVars,
      requestVars
<1>19. ASSUME NEW c \in Calls, CommitUnacknowledged(c)
      PROVE  (\A d \in Calls : FoundStays(d))'
  BY <1>19
  DEF CrmInvariant, TypeOK, FoundStays, CallFits, Operations, Phases,
      CommitUnacknowledged, Throw, Write, WriteSent, WriteUpdate, Unlock, LosesSight,
      leadVars, recordVars, requestVars
<1>20. ASSUME NEW c \in Calls, TransactionFails(c)
      PROVE  (\A d \in Calls : FoundStays(d))'
  BY <1>20
  DEF CrmInvariant, TypeOK, FoundStays, CallFits, Operations, Phases, TransactionFails,
      Throw, Unlock, leadVars, recordVars, requestVars
<1>21. ASSUME NEW c \in Calls, Dies(c)
      PROVE  (\A d \in Calls : FoundStays(d))'
  BY <1>21
  DEF CrmInvariant, TypeOK, FoundStays, CallFits, Operations, Phases, Dies, Finish,
      Goto, Unlock, leadVars, recordVars, requestVars
<1>22. CASE UNCHANGED vars
  BY <1>22
  DEF CrmInvariant, TypeOK, FoundStays, CallFits, Operations, Phases, vars, leadVars,
      recordVars, requestVars, callVars
<1> QED
  BY <1>1, <1>2, <1>3, <1>4, <1>5, <1>6, <1>7, <1>8, <1>9, <1>10, <1>11, <1>12, <1>13,
      <1>14, <1>15, <1>16, <1>17, <1>18, <1>19, <1>20, <1>21, <1>22
  DEF Next, Comes, Step, HeardStep

\* Nothing is recorded early.
LEMMA HistoryKept ==
    ASSUME CrmInvariant, [Next]_vars
    PROVE  (\A d \in Calls : HistoryAtEnd(d))'
<1>1. ASSUME NEW c \in Calls, NEW o \in Operations, NEW l \in Leads,
             NEW w \in Statuses \cup {Absent}, NEW i \in Lists, NEW t \in BOOLEAN,
             Arrive(c, o, l, w, i, t)
      PROVE  (\A d \in Calls : HistoryAtEnd(d))'
  BY <1>1
  DEF CrmInvariant, TypeOK, HistoryAtEnd, CallFits, Phases, Arrive, Goto, leadVars,
      recordVars, requestVars
<1>2. ASSUME NEW c \in Calls, ReadLead(c)
      PROVE  (\A d \in Calls : HistoryAtEnd(d))'
  BY <1>2
  DEF CrmInvariant, TypeOK, HistoryAtEnd, CallFits, Phases, ReadLead, AfterRead,
      leadVars, recordVars, requestVars
<1>3. ASSUME NEW c \in Calls, Refuse(c)
      PROVE  (\A d \in Calls : HistoryAtEnd(d))'
  BY <1>3
  DEF CrmInvariant, TypeOK, HistoryAtEnd, CallFits, Phases, Refuse, Finish, Goto,
      leadVars, recordVars, requestVars
<1>4. ASSUME NEW c \in Calls, Validate(c)
      PROVE  (\A d \in Calls : HistoryAtEnd(d))'
  BY <1>4
  DEF CrmInvariant, TypeOK, HistoryAtEnd, CallFits, Phases, Validate, Goto, leadVars,
      recordVars, requestVars
<1>5. ASSUME NEW c \in Calls, CreateLead(c)
      PROVE  (\A d \in Calls : HistoryAtEnd(d))'
  BY <1>5
  DEF CrmInvariant, TypeOK, HistoryAtEnd, CallFits, Phases, CreateLead, Finish, Goto,
      leadVars, recordVars, requestVars
<1>6. ASSUME NEW c \in Calls, AddNote(c)
      PROVE  (\A d \in Calls : HistoryAtEnd(d))'
  BY <1>6
  DEF CrmInvariant, TypeOK, HistoryAtEnd, CallFits, Phases, AddNote, Finish, Goto,
      leadVars, recordVars, requestVars
<1>7. ASSUME NEW c \in Calls, NEW t \in ActivityTypes, AddActivity(c, t)
      PROVE  (\A d \in Calls : HistoryAtEnd(d))'
  BY <1>7
  DEF CrmInvariant, TypeOK, HistoryAtEnd, CallFits, Phases, AddActivity, Finish, Goto,
      leadVars, recordVars, requestVars
<1>8. ASSUME NEW c \in Calls, QueueEmail(c)
      PROVE  (\A d \in Calls : HistoryAtEnd(d))'
  BY <1>8
  DEF CrmInvariant, TypeOK, HistoryAtEnd, CallFits, Phases, QueueEmail, Goto, leadVars,
      recordVars, requestVars
<1>9. ASSUME NEW c \in Calls, SmtpAccepts(c)
      PROVE  (\A d \in Calls : HistoryAtEnd(d))'
  BY <1>9
  DEF CrmInvariant, TypeOK, HistoryAtEnd, CallFits, Phases, SmtpAccepts, Goto,
      leadVars, recordVars, requestVars
<1>10. ASSUME NEW c \in Calls, SmtpRefuses(c)
      PROVE  (\A d \in Calls : HistoryAtEnd(d))'
  BY <1>10
  DEF CrmInvariant, TypeOK, HistoryAtEnd, CallFits, Phases, SmtpRefuses, Goto,
      leadVars, recordVars, requestVars
<1>11. ASSUME NEW c \in Calls, SmtpAnswerLost(c)
      PROVE  (\A d \in Calls : HistoryAtEnd(d))'
  BY <1>11
  DEF CrmInvariant, TypeOK, HistoryAtEnd, CallFits, Phases, SmtpAnswerLost, Goto,
      leadVars, recordVars, requestVars
<1>12. ASSUME NEW c \in Calls, MarkFailed(c)
      PROVE  (\A d \in Calls : HistoryAtEnd(d))'
  BY <1>12
  DEF CrmInvariant, TypeOK, HistoryAtEnd, CallFits, Phases, MarkFailed, Finish, Goto,
      leadVars, recordVars, requestVars
<1>13. ASSUME NEW c \in Calls, LockLead(c)
      PROVE  (\A d \in Calls : HistoryAtEnd(d))'
  BY <1>13
  DEF CrmInvariant, TypeOK, HistoryAtEnd, CallFits, Phases, LockLead, Goto, leadVars,
      recordVars, requestVars
<1>14. ASSUME NEW c \in Calls, ReadLeadAgain(c)
      PROVE  (\A d \in Calls : HistoryAtEnd(d))'
  BY <1>14
  DEF CrmInvariant, TypeOK, HistoryAtEnd, CallFits, Phases, ReadLeadAgain, Goto,
      leadVars, recordVars, requestVars
<1>15. ASSUME NEW c \in Calls, FindItems(c)
      PROVE  (\A d \in Calls : HistoryAtEnd(d))'
  BY <1>15
  DEF CrmInvariant, TypeOK, HistoryAtEnd, CallFits, Phases, FindItems, Goto, leadVars,
      recordVars, requestVars
<1>16. ASSUME NEW c \in Calls, DeleteItems(c)
      PROVE  (\A d \in Calls : HistoryAtEnd(d))'
  BY <1>16
  DEF CrmInvariant, TypeOK, HistoryAtEnd, CallFits, Phases, DeleteItems, Goto,
      leadVars, recordVars, requestVars
<1>17. ASSUME NEW c \in Calls, InsertItems(c)
      PROVE  (\A d \in Calls : HistoryAtEnd(d))'
  BY <1>17
  DEF CrmInvariant, TypeOK, HistoryAtEnd, CallFits, Phases, InsertItems, Goto,
      leadVars, recordVars, requestVars
<1>18. ASSUME NEW c \in Calls, Commit(c)
      PROVE  (\A d \in Calls : HistoryAtEnd(d))'
  <2> SUFFICES ASSUME NEW d \in Calls
               PROVE  HistoryAtEnd(d)'
    OBVIOUS
  <2>1. CASE d = c
    BY <1>18, <2>1
    DEF CrmInvariant, TypeOK, HistoryAtEnd, CallFits, Phases, Commit, Finish, Goto,
        Write, WriteSent, WriteUpdate, Unlock, LosesSight, leadVars, recordVars,
        requestVars
  <2>2. CASE d # c
    BY <1>18, <2>2
    DEF CrmInvariant, TypeOK, HistoryAtEnd, CallFits, Phases, Commit, Finish, Goto,
        Write, WriteSent, WriteUpdate, Unlock, LosesSight, leadVars, recordVars,
        requestVars
  <2> QED
    BY <2>1, <2>2
<1>19. ASSUME NEW c \in Calls, CommitUnacknowledged(c)
      PROVE  (\A d \in Calls : HistoryAtEnd(d))'
  <2> SUFFICES ASSUME NEW d \in Calls
               PROVE  HistoryAtEnd(d)'
    OBVIOUS
  <2>1. CASE d = c
    BY <1>19, <2>1
    DEF CrmInvariant, TypeOK, HistoryAtEnd, CallFits, Phases, CommitUnacknowledged,
        Throw, Write, WriteSent, WriteUpdate, Unlock, LosesSight, leadVars, recordVars,
        requestVars
  <2>2. CASE d # c
    BY <1>19, <2>2
    DEF CrmInvariant, TypeOK, HistoryAtEnd, CallFits, Phases, CommitUnacknowledged,
        Throw, Write, WriteSent, WriteUpdate, Unlock, LosesSight, leadVars, recordVars,
        requestVars
  <2> QED
    BY <2>1, <2>2
<1>20. ASSUME NEW c \in Calls, TransactionFails(c)
      PROVE  (\A d \in Calls : HistoryAtEnd(d))'
  BY <1>20
  DEF CrmInvariant, TypeOK, HistoryAtEnd, CallFits, Phases, TransactionFails, Throw,
      Unlock, leadVars, recordVars, requestVars
<1>21. ASSUME NEW c \in Calls, Dies(c)
      PROVE  (\A d \in Calls : HistoryAtEnd(d))'
  BY <1>21
  DEF CrmInvariant, TypeOK, HistoryAtEnd, CallFits, Phases, Dies, Finish, Goto, Unlock,
      leadVars, recordVars, requestVars
<1>22. CASE UNCHANGED vars
  BY <1>22
  DEF CrmInvariant, TypeOK, HistoryAtEnd, CallFits, Phases, vars, leadVars, recordVars,
      requestVars, callVars
<1> QED
  BY <1>1, <1>2, <1>3, <1>4, <1>5, <1>6, <1>7, <1>8, <1>9, <1>10, <1>11, <1>12, <1>13,
      <1>14, <1>15, <1>16, <1>17, <1>18, <1>19, <1>20, <1>21, <1>22
  DEF Next, Comes, Step, HeardStep

\* The record of an e-mail goes with its call.
LEMMA MailKept ==
    ASSUME CrmInvariant, [Next]_vars
    PROVE  (\A d \in Calls : MailUnderWay(d))'
<1>1. ASSUME NEW c \in Calls, NEW o \in Operations, NEW l \in Leads,
             NEW w \in Statuses \cup {Absent}, NEW i \in Lists, NEW t \in BOOLEAN,
             Arrive(c, o, l, w, i, t)
      PROVE  (\A d \in Calls : MailUnderWay(d))'
  BY <1>1
  DEF CrmInvariant, TypeOK, MailUnderWay, MailRecordIsTrue, InTransaction, CallFits,
      Operations, Arrive, Goto, leadVars, recordVars, requestVars
<1>2. ASSUME NEW c \in Calls, ReadLead(c)
      PROVE  (\A d \in Calls : MailUnderWay(d))'
  BY <1>2
  DEF CrmInvariant, TypeOK, MailUnderWay, MailRecordIsTrue, InTransaction, CallFits,
      Operations, ReadLead, AfterRead, leadVars, recordVars, requestVars
<1>3. ASSUME NEW c \in Calls, Refuse(c)
      PROVE  (\A d \in Calls : MailUnderWay(d))'
  BY <1>3
  DEF CrmInvariant, TypeOK, MailUnderWay, MailRecordIsTrue, InTransaction, CallFits,
      Operations, Refuse, Finish, Goto, leadVars, recordVars, requestVars
<1>4. ASSUME NEW c \in Calls, Validate(c)
      PROVE  (\A d \in Calls : MailUnderWay(d))'
  BY <1>4
  DEF CrmInvariant, TypeOK, MailUnderWay, MailRecordIsTrue, InTransaction, CallFits,
      Operations, Validate, Goto, leadVars, recordVars, requestVars
<1>5. ASSUME NEW c \in Calls, CreateLead(c)
      PROVE  (\A d \in Calls : MailUnderWay(d))'
  BY <1>5
  DEF CrmInvariant, TypeOK, MailUnderWay, MailRecordIsTrue, InTransaction, CallFits,
      Operations, CreateLead, Finish, Goto, leadVars, recordVars, requestVars
<1>6. ASSUME NEW c \in Calls, AddNote(c)
      PROVE  (\A d \in Calls : MailUnderWay(d))'
  BY <1>6
  DEF CrmInvariant, TypeOK, MailUnderWay, MailRecordIsTrue, InTransaction, CallFits,
      Operations, AddNote, Finish, Goto, leadVars, recordVars, requestVars
<1>7. ASSUME NEW c \in Calls, NEW t \in ActivityTypes, AddActivity(c, t)
      PROVE  (\A d \in Calls : MailUnderWay(d))'
  BY <1>7
  DEF CrmInvariant, TypeOK, MailUnderWay, MailRecordIsTrue, InTransaction, CallFits,
      Operations, AddActivity, Finish, Goto, leadVars, recordVars, requestVars
<1>8. ASSUME NEW c \in Calls, QueueEmail(c)
      PROVE  (\A d \in Calls : MailUnderWay(d))'
  BY <1>8
  DEF CrmInvariant, TypeOK, MailUnderWay, MailRecordIsTrue, InTransaction, CallFits,
      Operations, QueueEmail, Goto, leadVars, recordVars, requestVars
<1>9. ASSUME NEW c \in Calls, SmtpAccepts(c)
      PROVE  (\A d \in Calls : MailUnderWay(d))'
  BY <1>9
  DEF CrmInvariant, TypeOK, MailUnderWay, MailRecordIsTrue, InTransaction, CallFits,
      Operations, SmtpAccepts, Goto, leadVars, recordVars, requestVars
<1>10. ASSUME NEW c \in Calls, SmtpRefuses(c)
      PROVE  (\A d \in Calls : MailUnderWay(d))'
  BY <1>10
  DEF CrmInvariant, TypeOK, MailUnderWay, MailRecordIsTrue, InTransaction, CallFits,
      Operations, SmtpRefuses, Goto, leadVars, recordVars, requestVars
<1>11. ASSUME NEW c \in Calls, SmtpAnswerLost(c)
      PROVE  (\A d \in Calls : MailUnderWay(d))'
  BY <1>11
  DEF CrmInvariant, TypeOK, MailUnderWay, MailRecordIsTrue, InTransaction, CallFits,
      Operations, SmtpAnswerLost, Goto, leadVars, recordVars, requestVars
<1>12. ASSUME NEW c \in Calls, MarkFailed(c)
      PROVE  (\A d \in Calls : MailUnderWay(d))'
  BY <1>12
  DEF CrmInvariant, TypeOK, MailUnderWay, MailRecordIsTrue, InTransaction, CallFits,
      Operations, MarkFailed, Finish, Goto, leadVars, recordVars, requestVars
<1>13. ASSUME NEW c \in Calls, LockLead(c)
      PROVE  (\A d \in Calls : MailUnderWay(d))'
  BY <1>13
  DEF CrmInvariant, TypeOK, MailUnderWay, MailRecordIsTrue, InTransaction, CallFits,
      Operations, LockLead, Goto, leadVars, recordVars, requestVars
<1>14. ASSUME NEW c \in Calls, ReadLeadAgain(c)
      PROVE  (\A d \in Calls : MailUnderWay(d))'
  BY <1>14
  DEF CrmInvariant, TypeOK, MailUnderWay, MailRecordIsTrue, InTransaction, CallFits,
      Operations, ReadLeadAgain, Goto, leadVars, recordVars, requestVars
<1>15. ASSUME NEW c \in Calls, FindItems(c)
      PROVE  (\A d \in Calls : MailUnderWay(d))'
  BY <1>15
  DEF CrmInvariant, TypeOK, MailUnderWay, MailRecordIsTrue, InTransaction, CallFits,
      Operations, FindItems, Goto, leadVars, recordVars, requestVars
<1>16. ASSUME NEW c \in Calls, DeleteItems(c)
      PROVE  (\A d \in Calls : MailUnderWay(d))'
  BY <1>16
  DEF CrmInvariant, TypeOK, MailUnderWay, MailRecordIsTrue, InTransaction, CallFits,
      Operations, DeleteItems, Goto, leadVars, recordVars, requestVars
<1>17. ASSUME NEW c \in Calls, InsertItems(c)
      PROVE  (\A d \in Calls : MailUnderWay(d))'
  BY <1>17
  DEF CrmInvariant, TypeOK, MailUnderWay, MailRecordIsTrue, InTransaction, CallFits,
      Operations, InsertItems, Goto, leadVars, recordVars, requestVars
<1>18. ASSUME NEW c \in Calls, Commit(c)
      PROVE  (\A d \in Calls : MailUnderWay(d))'
  BY <1>18
  DEF CrmInvariant, TypeOK, MailUnderWay, MailRecordIsTrue, InTransaction, CallFits,
      Operations, Commit, Finish, Goto, Write, WriteSent, WriteUpdate, Unlock,
      LosesSight, leadVars, recordVars, requestVars
<1>19. ASSUME NEW c \in Calls, CommitUnacknowledged(c)
      PROVE  (\A d \in Calls : MailUnderWay(d))'
  BY <1>19
  DEF CrmInvariant, TypeOK, MailUnderWay, MailRecordIsTrue, InTransaction, CallFits,
      Operations, CommitUnacknowledged, Throw, Write, WriteSent, WriteUpdate, Unlock,
      LosesSight, leadVars, recordVars, requestVars
<1>20. ASSUME NEW c \in Calls, TransactionFails(c)
      PROVE  (\A d \in Calls : MailUnderWay(d))'
  BY <1>20
  DEF CrmInvariant, TypeOK, MailUnderWay, MailRecordIsTrue, InTransaction, CallFits,
      Operations, TransactionFails, Throw, Unlock, leadVars, recordVars, requestVars
<1>21. ASSUME NEW c \in Calls, Dies(c)
      PROVE  (\A d \in Calls : MailUnderWay(d))'
  BY <1>21
  DEF CrmInvariant, TypeOK, MailUnderWay, MailRecordIsTrue, InTransaction, CallFits,
      Operations, Dies, Finish, Goto, Unlock, leadVars, recordVars, requestVars
<1>22. CASE UNCHANGED vars
  BY <1>22
  DEF CrmInvariant, TypeOK, MailUnderWay, MailRecordIsTrue, InTransaction, CallFits,
      Operations, vars, leadVars, recordVars, requestVars, callVars
<1> QED
  BY <1>1, <1>2, <1>3, <1>4, <1>5, <1>6, <1>7, <1>8, <1>9, <1>10, <1>11, <1>12, <1>13,
      <1>14, <1>15, <1>16, <1>17, <1>18, <1>19, <1>20, <1>21, <1>22
  DEF Next, Comes, Step, HeardStep

\* A transaction that has updated a prospect holds its row.
LEMMA RowKept ==
    ASSUME CrmInvariant, [Next]_vars
    PROVE  (\A d \in Calls : HoldsRow(d))'
<1>1. ASSUME NEW c \in Calls, NEW o \in Operations, NEW l \in Leads,
             NEW w \in Statuses \cup {Absent}, NEW i \in Lists, NEW t \in BOOLEAN,
             Arrive(c, o, l, w, i, t)
      PROVE  (\A d \in Calls : HoldsRow(d))'
  BY <1>1
  DEF CrmInvariant, TypeOK, HoldsRow, InTransaction, CallFits, Operations, Arrive,
      Goto, leadVars, recordVars, requestVars
<1>2. ASSUME NEW c \in Calls, ReadLead(c)
      PROVE  (\A d \in Calls : HoldsRow(d))'
  BY <1>2
  DEF CrmInvariant, TypeOK, HoldsRow, InTransaction, CallFits, Operations, ReadLead,
      AfterRead, leadVars, recordVars, requestVars
<1>3. ASSUME NEW c \in Calls, Refuse(c)
      PROVE  (\A d \in Calls : HoldsRow(d))'
  BY <1>3
  DEF CrmInvariant, TypeOK, HoldsRow, InTransaction, CallFits, Operations, Refuse,
      Finish, Goto, leadVars, recordVars, requestVars
<1>4. ASSUME NEW c \in Calls, Validate(c)
      PROVE  (\A d \in Calls : HoldsRow(d))'
  BY <1>4
  DEF CrmInvariant, TypeOK, HoldsRow, InTransaction, CallFits, Operations, Validate,
      Goto, leadVars, recordVars, requestVars
<1>5. ASSUME NEW c \in Calls, CreateLead(c)
      PROVE  (\A d \in Calls : HoldsRow(d))'
  BY <1>5
  DEF CrmInvariant, TypeOK, HoldsRow, InTransaction, CallFits, Operations, CreateLead,
      Finish, Goto, leadVars, recordVars, requestVars
<1>6. ASSUME NEW c \in Calls, AddNote(c)
      PROVE  (\A d \in Calls : HoldsRow(d))'
  BY <1>6
  DEF CrmInvariant, TypeOK, HoldsRow, InTransaction, CallFits, Operations, AddNote,
      Finish, Goto, leadVars, recordVars, requestVars
<1>7. ASSUME NEW c \in Calls, NEW t \in ActivityTypes, AddActivity(c, t)
      PROVE  (\A d \in Calls : HoldsRow(d))'
  BY <1>7
  DEF CrmInvariant, TypeOK, HoldsRow, InTransaction, CallFits, Operations, AddActivity,
      Finish, Goto, leadVars, recordVars, requestVars
<1>8. ASSUME NEW c \in Calls, QueueEmail(c)
      PROVE  (\A d \in Calls : HoldsRow(d))'
  BY <1>8
  DEF CrmInvariant, TypeOK, HoldsRow, InTransaction, CallFits, Operations, QueueEmail,
      Goto, leadVars, recordVars, requestVars
<1>9. ASSUME NEW c \in Calls, SmtpAccepts(c)
      PROVE  (\A d \in Calls : HoldsRow(d))'
  BY <1>9
  DEF CrmInvariant, TypeOK, HoldsRow, InTransaction, CallFits, Operations, SmtpAccepts,
      Goto, leadVars, recordVars, requestVars
<1>10. ASSUME NEW c \in Calls, SmtpRefuses(c)
      PROVE  (\A d \in Calls : HoldsRow(d))'
  BY <1>10
  DEF CrmInvariant, TypeOK, HoldsRow, InTransaction, CallFits, Operations, SmtpRefuses,
      Goto, leadVars, recordVars, requestVars
<1>11. ASSUME NEW c \in Calls, SmtpAnswerLost(c)
      PROVE  (\A d \in Calls : HoldsRow(d))'
  BY <1>11
  DEF CrmInvariant, TypeOK, HoldsRow, InTransaction, CallFits, Operations,
      SmtpAnswerLost, Goto, leadVars, recordVars, requestVars
<1>12. ASSUME NEW c \in Calls, MarkFailed(c)
      PROVE  (\A d \in Calls : HoldsRow(d))'
  BY <1>12
  DEF CrmInvariant, TypeOK, HoldsRow, InTransaction, CallFits, Operations, MarkFailed,
      Finish, Goto, leadVars, recordVars, requestVars
<1>13. ASSUME NEW c \in Calls, LockLead(c)
      PROVE  (\A d \in Calls : HoldsRow(d))'
  BY <1>13
  DEF CrmInvariant, TypeOK, HoldsRow, InTransaction, CallFits, Operations, LockLead,
      Goto, leadVars, recordVars, requestVars
<1>14. ASSUME NEW c \in Calls, ReadLeadAgain(c)
      PROVE  (\A d \in Calls : HoldsRow(d))'
  BY <1>14
  DEF CrmInvariant, TypeOK, HoldsRow, InTransaction, CallFits, Operations,
      ReadLeadAgain, Goto, leadVars, recordVars, requestVars
<1>15. ASSUME NEW c \in Calls, FindItems(c)
      PROVE  (\A d \in Calls : HoldsRow(d))'
  BY <1>15
  DEF CrmInvariant, TypeOK, HoldsRow, InTransaction, CallFits, Operations, FindItems,
      Goto, leadVars, recordVars, requestVars
<1>16. ASSUME NEW c \in Calls, DeleteItems(c)
      PROVE  (\A d \in Calls : HoldsRow(d))'
  BY <1>16
  DEF CrmInvariant, TypeOK, HoldsRow, InTransaction, CallFits, Operations, DeleteItems,
      Goto, leadVars, recordVars, requestVars
<1>17. ASSUME NEW c \in Calls, InsertItems(c)
      PROVE  (\A d \in Calls : HoldsRow(d))'
  BY <1>17
  DEF CrmInvariant, TypeOK, HoldsRow, InTransaction, CallFits, Operations, InsertItems,
      Goto, leadVars, recordVars, requestVars
<1>18. ASSUME NEW c \in Calls, Commit(c)
      PROVE  (\A d \in Calls : HoldsRow(d))'
  <2> SUFFICES ASSUME NEW d \in Calls
               PROVE  HoldsRow(d)'
    OBVIOUS
  <2>1. CASE d = c
    BY <1>18, <2>1
    DEF CrmInvariant, TypeOK, HoldsRow, InTransaction, CallFits, Operations, Commit,
        Finish, Goto, Write, WriteSent, WriteUpdate, Unlock, LosesSight, leadVars,
        recordVars, requestVars
  <2>2. CASE d # c
    BY <1>18, <2>2
    DEF CrmInvariant, TypeOK, HoldsRow, InTransaction, CallFits, Operations, Commit,
        Finish, Goto, Write, WriteSent, WriteUpdate, Unlock, LosesSight, leadVars,
        recordVars, requestVars
  <2> QED
    BY <2>1, <2>2
<1>19. ASSUME NEW c \in Calls, CommitUnacknowledged(c)
      PROVE  (\A d \in Calls : HoldsRow(d))'
  <2> SUFFICES ASSUME NEW d \in Calls
               PROVE  HoldsRow(d)'
    OBVIOUS
  <2>1. CASE d = c
    BY <1>19, <2>1
    DEF CrmInvariant, TypeOK, HoldsRow, InTransaction, CallFits, Operations,
        CommitUnacknowledged, Throw, Write, WriteSent, WriteUpdate, Unlock, LosesSight,
        leadVars, recordVars, requestVars
  <2>2. CASE d # c
    BY <1>19, <2>2
    DEF CrmInvariant, TypeOK, HoldsRow, InTransaction, CallFits, Operations,
        CommitUnacknowledged, Throw, Write, WriteSent, WriteUpdate, Unlock, LosesSight,
        leadVars, recordVars, requestVars
  <2> QED
    BY <2>1, <2>2
<1>20. ASSUME NEW c \in Calls, TransactionFails(c)
      PROVE  (\A d \in Calls : HoldsRow(d))'
  <2> SUFFICES ASSUME NEW d \in Calls
               PROVE  HoldsRow(d)'
    OBVIOUS
  <2>1. CASE d = c
    BY <1>20, <2>1
    DEF CrmInvariant, TypeOK, HoldsRow, InTransaction, CallFits, Operations,
        TransactionFails, Throw, Unlock, leadVars, recordVars, requestVars
  <2>2. CASE d # c
    BY <1>20, <2>2
    DEF CrmInvariant, TypeOK, HoldsRow, InTransaction, CallFits, Operations,
        TransactionFails, Throw, Unlock, leadVars, recordVars, requestVars
  <2> QED
    BY <2>1, <2>2
<1>21. ASSUME NEW c \in Calls, Dies(c)
      PROVE  (\A d \in Calls : HoldsRow(d))'
  <2> SUFFICES ASSUME NEW d \in Calls
               PROVE  HoldsRow(d)'
    OBVIOUS
  <2>1. CASE d = c
    BY <1>21, <2>1
    DEF CrmInvariant, TypeOK, HoldsRow, InTransaction, CallFits, Operations, Dies,
        Finish, Goto, Unlock, leadVars, recordVars, requestVars
  <2>2. CASE d # c
    BY <1>21, <2>2
    DEF CrmInvariant, TypeOK, HoldsRow, InTransaction, CallFits, Operations, Dies,
        Finish, Goto, Unlock, leadVars, recordVars, requestVars
  <2> QED
    BY <2>1, <2>2
<1>22. CASE UNCHANGED vars
  BY <1>22
  DEF CrmInvariant, TypeOK, HoldsRow, InTransaction, CallFits, Operations, vars,
      leadVars, recordVars, requestVars, callVars
<1> QED
  BY <1>1, <1>2, <1>3, <1>4, <1>5, <1>6, <1>7, <1>8, <1>9, <1>10, <1>11, <1>12, <1>13,
      <1>14, <1>15, <1>16, <1>17, <1>18, <1>19, <1>20, <1>21, <1>22
  DEF Next, Comes, Step, HeardStep

\* What is needed of the types here.
LEMMA CallTypes ==
    ASSUME CrmInvariant
    PROVE  /\ phase \in [Calls -> Phases] /\ deleted \in [Calls -> SUBSET Items]
           /\ items \in [Leads -> SUBSET Items] /\ lastList \in [Leads -> SUBSET Items]
  BY DEF CrmInvariant, TypeOK

\* The transactions that end leave the list of the last of them.
LEMMA ListsWritten ==
    ASSUME CrmInvariant, NEW c \in Calls, phase[c] = "commit", Write(c)
    PROVE  RelationsNeverMix'
<1>1. lead[c] \in Leads /\ op[c] \in {"email", "update"}
  BY DEF CrmInvariant, CallFits, InTransaction, Operations
<1> SUFFICES ASSUME NEW l \in Leads, items'[l] # lastList'[l]
             PROVE  \E d \in Calls : lead'[d] = l /\ ListOnly(d)'
  BY DEF RelationsNeverMix
<1>2. lead' = lead /\ \A d \in Calls : ListOnly(d) <=> ListOnly(d)'
  BY DEF Write, requestVars, ListOnly
<1>3. CASE items'[l] = items[l] /\ lastList'[l] = lastList[l]
  BY <1>2, <1>3 DEF CrmInvariant, RelationsNeverMix
<1>4. CASE op[c] = "email" \/ list[c] = Absent \/ l # lead[c]
  <2>1. items'[l] = items[l] /\ lastList'[l] = lastList[l]
    BY <1>1, <1>4, CallTypes DEF Write, WriteSent, WriteUpdate
  <2> QED
    BY <1>3, <2>1
<1>5. CASE op[c] = "update" /\ list[c] # Absent /\ l = lead[c]
  <2>1. /\ items'[l] = (items[l] \ deleted[c]) \cup list[c]
        /\ lastList'[l] = list[c]
    BY <1>1, <1>5, CallTypes DEF Write, WriteUpdate
  <2>2. deleted[c] # items[l]
    BY <2>1
  <2>3. \E d \in Calls : lead[d] = l /\ ListOnly(d)
    BY <1>5, <2>2 DEF CrmInvariant, ReplacesAll
  <2> QED
    BY <1>2, <2>3
<1> QED
  BY <1>1, <1>4, <1>5

\* They record an e-mail that the mail server has taken.
LEMMA MailWritten ==
    ASSUME CrmInvariant, NEW c \in Calls, phase[c] = "commit", Write(c)
    PROVE  MailRecordIsTrue'
<1>1. op[c] \in {"email", "update"} /\ op' = op /\ accepted' = accepted
  BY DEF CrmInvariant, CallFits, InTransaction, Operations, Write, requestVars
<1>2. CASE op[c] = "email"
  <2>1. c \in accepted
    BY <1>2 DEF CrmInvariant, MailUnderWay, InTransaction
  <2>2. \A d \in Calls : <<d, "EMAIL">> \in activities'
                             <=> d = c \/ <<d, "EMAIL">> \in activities
    BY <1>2 DEF Write, WriteSent
  <2>3. \A d \in Calls : d # c => emailRow'[d] = emailRow[d]
    BY <1>2 DEF CrmInvariant, TypeOK, Write, WriteSent
  <2> QED
    BY <1>1, <2>1, <2>2, <2>3 DEF CrmInvariant, MailRecordIsTrue
<1>3. CASE op[c] = "update"
  <2>1. emailRow' = emailRow
    BY <1>3 DEF Write, WriteUpdate
  <2>2. \A d \in Calls : <<d, "EMAIL">> \in activities' <=> <<d,
      "EMAIL">> \in activities
    BY <1>3 DEF Write, WriteUpdate
  <2> QED
    BY <1>1, <2>1, <2>2 DEF CrmInvariant, MailRecordIsTrue
<1> QED
  BY <1>1, <1>2, <1>3

\* What an edit replaces is all there is.
LEMMA ReplacesKept ==
    ASSUME CrmInvariant, [Next]_vars
    PROVE  (\A d \in Calls : ReplacesAll(d))'
<1>1. ASSUME NEW c \in Calls, NEW o \in Operations, NEW l \in Leads,
             NEW w \in Statuses \cup {Absent}, NEW i \in Lists, NEW t \in BOOLEAN,
             Arrive(c, o, l, w, i, t)
      PROVE  (\A d \in Calls : ReplacesAll(d))'
  BY <1>1
  DEF CrmInvariant, TypeOK, ReplacesAll, HoldsRow, InTransaction, ListOnly, CallFits,
      FoundStays, Operations, Arrive, Goto, leadVars, recordVars, requestVars
<1>2. ASSUME NEW c \in Calls, ReadLead(c)
      PROVE  (\A d \in Calls : ReplacesAll(d))'
  BY <1>2
  DEF CrmInvariant, TypeOK, ReplacesAll, HoldsRow, InTransaction, ListOnly, CallFits,
      FoundStays, Operations, ReadLead, AfterRead, leadVars, recordVars, requestVars
<1>3. ASSUME NEW c \in Calls, Refuse(c)
      PROVE  (\A d \in Calls : ReplacesAll(d))'
  BY <1>3
  DEF CrmInvariant, TypeOK, ReplacesAll, HoldsRow, InTransaction, ListOnly, CallFits,
      FoundStays, Operations, Refuse, Finish, Goto, leadVars, recordVars, requestVars
<1>4. ASSUME NEW c \in Calls, Validate(c)
      PROVE  (\A d \in Calls : ReplacesAll(d))'
  BY <1>4
  DEF CrmInvariant, TypeOK, ReplacesAll, HoldsRow, InTransaction, ListOnly, CallFits,
      FoundStays, Operations, Validate, Goto, leadVars, recordVars, requestVars
<1>5. ASSUME NEW c \in Calls, CreateLead(c)
      PROVE  (\A d \in Calls : ReplacesAll(d))'
  BY <1>5
  DEF CrmInvariant, TypeOK, ReplacesAll, HoldsRow, InTransaction, ListOnly, CallFits,
      FoundStays, Operations, CreateLead, Finish, Goto, leadVars, recordVars,
      requestVars
<1>6. ASSUME NEW c \in Calls, AddNote(c)
      PROVE  (\A d \in Calls : ReplacesAll(d))'
  BY <1>6
  DEF CrmInvariant, TypeOK, ReplacesAll, HoldsRow, InTransaction, ListOnly, CallFits,
      FoundStays, Operations, AddNote, Finish, Goto, leadVars, recordVars, requestVars
<1>7. ASSUME NEW c \in Calls, NEW t \in ActivityTypes, AddActivity(c, t)
      PROVE  (\A d \in Calls : ReplacesAll(d))'
  BY <1>7
  DEF CrmInvariant, TypeOK, ReplacesAll, HoldsRow, InTransaction, ListOnly, CallFits,
      FoundStays, Operations, AddActivity, Finish, Goto, leadVars, recordVars,
      requestVars
<1>8. ASSUME NEW c \in Calls, QueueEmail(c)
      PROVE  (\A d \in Calls : ReplacesAll(d))'
  BY <1>8
  DEF CrmInvariant, TypeOK, ReplacesAll, HoldsRow, InTransaction, ListOnly, CallFits,
      FoundStays, Operations, QueueEmail, Goto, leadVars, recordVars, requestVars
<1>9. ASSUME NEW c \in Calls, SmtpAccepts(c)
      PROVE  (\A d \in Calls : ReplacesAll(d))'
  BY <1>9
  DEF CrmInvariant, TypeOK, ReplacesAll, HoldsRow, InTransaction, ListOnly, CallFits,
      FoundStays, Operations, SmtpAccepts, Goto, leadVars, recordVars, requestVars
<1>10. ASSUME NEW c \in Calls, SmtpRefuses(c)
      PROVE  (\A d \in Calls : ReplacesAll(d))'
  BY <1>10
  DEF CrmInvariant, TypeOK, ReplacesAll, HoldsRow, InTransaction, ListOnly, CallFits,
      FoundStays, Operations, SmtpRefuses, Goto, leadVars, recordVars, requestVars
<1>11. ASSUME NEW c \in Calls, SmtpAnswerLost(c)
      PROVE  (\A d \in Calls : ReplacesAll(d))'
  BY <1>11
  DEF CrmInvariant, TypeOK, ReplacesAll, HoldsRow, InTransaction, ListOnly, CallFits,
      FoundStays, Operations, SmtpAnswerLost, Goto, leadVars, recordVars, requestVars
<1>12. ASSUME NEW c \in Calls, MarkFailed(c)
      PROVE  (\A d \in Calls : ReplacesAll(d))'
  BY <1>12
  DEF CrmInvariant, TypeOK, ReplacesAll, HoldsRow, InTransaction, ListOnly, CallFits,
      FoundStays, Operations, MarkFailed, Finish, Goto, leadVars, recordVars,
      requestVars
<1>13. ASSUME NEW c \in Calls, LockLead(c)
      PROVE  (\A d \in Calls : ReplacesAll(d))'
  BY <1>13
  DEF CrmInvariant, TypeOK, ReplacesAll, HoldsRow, InTransaction, ListOnly, CallFits,
      FoundStays, Operations, LockLead, Goto, leadVars, recordVars, requestVars
<1>14. ASSUME NEW c \in Calls, ReadLeadAgain(c)
      PROVE  (\A d \in Calls : ReplacesAll(d))'
  BY <1>14
  DEF CrmInvariant, TypeOK, ReplacesAll, HoldsRow, InTransaction, ListOnly, CallFits,
      FoundStays, Operations, ReadLeadAgain, Goto, leadVars, recordVars, requestVars
<1>15. ASSUME NEW c \in Calls, FindItems(c)
      PROVE  (\A d \in Calls : ReplacesAll(d))'
  BY <1>15
  DEF CrmInvariant, TypeOK, ReplacesAll, HoldsRow, InTransaction, ListOnly, CallFits,
      FoundStays, Operations, FindItems, Goto, leadVars, recordVars, requestVars
<1>16. ASSUME NEW c \in Calls, DeleteItems(c)
      PROVE  (\A d \in Calls : ReplacesAll(d))'
  BY <1>16
  DEF CrmInvariant, TypeOK, ReplacesAll, HoldsRow, InTransaction, ListOnly, CallFits,
      FoundStays, Operations, DeleteItems, Goto, leadVars, recordVars, requestVars
<1>17. ASSUME NEW c \in Calls, InsertItems(c)
      PROVE  (\A d \in Calls : ReplacesAll(d))'
  BY <1>17
  DEF CrmInvariant, TypeOK, ReplacesAll, HoldsRow, InTransaction, ListOnly, CallFits,
      FoundStays, Operations, InsertItems, Goto, leadVars, recordVars, requestVars
<1>18. ASSUME NEW c \in Calls, Commit(c)
      PROVE  (\A d \in Calls : ReplacesAll(d))'
  <2> SUFFICES ASSUME NEW d \in Calls
               PROVE  ReplacesAll(d)'
    OBVIOUS
  <2>1. CASE d = c \/ lead[d] # lead[c]
    BY <1>18, <2>1
    DEF CrmInvariant, TypeOK, ReplacesAll, HoldsRow, InTransaction, ListOnly, CallFits,
        FoundStays, Operations, Commit, Finish, Goto, Write, WriteSent, WriteUpdate,
        Unlock, LosesSight, leadVars, recordVars, requestVars
  <2>2. CASE d # c /\ lead[d] = lead[c] /\ touches[c]
    BY <1>18, <2>2
    DEF CrmInvariant, TypeOK, ReplacesAll, HoldsRow, InTransaction, ListOnly, CallFits,
        FoundStays, Operations, Commit, Finish, Goto, Write, WriteSent, WriteUpdate,
        Unlock, LosesSight, leadVars, recordVars, requestVars
  <2>3. CASE d # c /\ lead[d] = lead[c] /\ ~ touches[c]
    <3>1. CASE ListOnly(c)
      <4>1. lead'[c] = lead'[d] /\ ListOnly(c)'
        BY <1>18, <2>3, <3>1 DEF ListOnly, Commit, Write, requestVars
      <4> QED
        BY <4>1 DEF ReplacesAll
    <3>2. CASE ~ ListOnly(c)
      <4>1. op[c] = "update" /\ list[c] = Absent /\ want[c] = Absent
        BY <1>18, <2>3, <3>2
        DEF CrmInvariant, ListOnly, CallFits, InTransaction, Operations, Commit,
            Finish, Goto
      <4>2. items' = items /\ deleted'[d] = deleted[d]
        BY <1>18, <4>1, CallTypes
        DEF CrmInvariant, CallFits, Commit, Write, WriteUpdate, LosesSight
      <4>3. phase'[d] = phase[d]
        BY <1>18, <2>3, CallTypes DEF Commit, Finish, Goto, Throw
      <4> QED
        BY <1>18, <4>2, <4>3
        DEF CrmInvariant, ReplacesAll, ListOnly, Commit, Write, requestVars
    <3> QED
      BY <3>1, <3>2
  <2> QED
    BY <2>1, <2>2, <2>3 DEF CrmInvariant, TypeOK
<1>19. ASSUME NEW c \in Calls, CommitUnacknowledged(c)
      PROVE  (\A d \in Calls : ReplacesAll(d))'
  <2> SUFFICES ASSUME NEW d \in Calls
               PROVE  ReplacesAll(d)'
    OBVIOUS
  <2>1. CASE d = c \/ lead[d] # lead[c]
    BY <1>19, <2>1
    DEF CrmInvariant, TypeOK, ReplacesAll, HoldsRow, InTransaction, ListOnly, CallFits,
        FoundStays, Operations, CommitUnacknowledged, Throw, Write, WriteSent,
        WriteUpdate, Unlock, LosesSight, leadVars, recordVars, requestVars
  <2>2. CASE d # c /\ lead[d] = lead[c] /\ touches[c]
    BY <1>19, <2>2
    DEF CrmInvariant, TypeOK, ReplacesAll, HoldsRow, InTransaction, ListOnly, CallFits,
        FoundStays, Operations, CommitUnacknowledged, Throw, Write, WriteSent,
        WriteUpdate, Unlock, LosesSight, leadVars, recordVars, requestVars
  <2>3. CASE d # c /\ lead[d] = lead[c] /\ ~ touches[c]
    <3>1. CASE ListOnly(c)
      <4>1. lead'[c] = lead'[d] /\ ListOnly(c)'
        BY <1>19, <2>3, <3>1 DEF ListOnly, CommitUnacknowledged, Write, requestVars
      <4> QED
        BY <4>1 DEF ReplacesAll
    <3>2. CASE ~ ListOnly(c)
      <4>1. op[c] = "update" /\ list[c] = Absent /\ want[c] = Absent
        BY <1>19, <2>3, <3>2
        DEF CrmInvariant, ListOnly, CallFits, InTransaction, Operations,
            CommitUnacknowledged, Finish, Goto
      <4>2. items' = items /\ deleted'[d] = deleted[d]
        BY <1>19, <4>1, CallTypes
        DEF CrmInvariant, CallFits, CommitUnacknowledged, Write, WriteUpdate, LosesSight
      <4>3. phase'[d] = phase[d]
        BY <1>19, <2>3, CallTypes DEF CommitUnacknowledged, Finish, Goto, Throw
      <4> QED
        BY <1>19, <4>2, <4>3
        DEF CrmInvariant, ReplacesAll, ListOnly, CommitUnacknowledged, Write,
            requestVars
    <3> QED
      BY <3>1, <3>2
  <2> QED
    BY <2>1, <2>2, <2>3 DEF CrmInvariant, TypeOK
<1>20. ASSUME NEW c \in Calls, TransactionFails(c)
      PROVE  (\A d \in Calls : ReplacesAll(d))'
  BY <1>20
  DEF CrmInvariant, TypeOK, ReplacesAll, HoldsRow, InTransaction, ListOnly, CallFits,
      FoundStays, Operations, TransactionFails, Throw, Unlock, leadVars, recordVars,
      requestVars
<1>21. ASSUME NEW c \in Calls, Dies(c)
      PROVE  (\A d \in Calls : ReplacesAll(d))'
  BY <1>21
  DEF CrmInvariant, TypeOK, ReplacesAll, HoldsRow, InTransaction, ListOnly, CallFits,
      FoundStays, Operations, Dies, Finish, Goto, Unlock, leadVars, recordVars,
      requestVars
<1>22. CASE UNCHANGED vars
  BY <1>22
  DEF CrmInvariant, TypeOK, ReplacesAll, HoldsRow, InTransaction, ListOnly, CallFits,
      FoundStays, Operations, vars, leadVars, recordVars, requestVars, callVars
<1> QED
  BY <1>1, <1>2, <1>3, <1>4, <1>5, <1>6, <1>7, <1>8, <1>9, <1>10, <1>11, <1>12, <1>13,
      <1>14, <1>15, <1>16, <1>17, <1>18, <1>19, <1>20, <1>21, <1>22
  DEF Next, Comes, Step, HeardStep

\* Lists do not mix.
LEMMA RelationsKept ==
    ASSUME CrmInvariant, [Next]_vars
    PROVE  RelationsNeverMix'
<1>1. ASSUME NEW c \in Calls, NEW o \in Operations, NEW l \in Leads,
             NEW w \in Statuses \cup {Absent}, NEW i \in Lists, NEW t \in BOOLEAN,
             Arrive(c, o, l, w, i, t)
      PROVE  RelationsNeverMix'
  BY <1>1
  DEF CrmInvariant, TypeOK, RelationsNeverMix, ReplacesAll, InTransaction, ListOnly,
      CallFits, Operations, Lists, Arrive, Goto, leadVars, recordVars, requestVars
<1>2. ASSUME NEW c \in Calls, CreateLead(c)
      PROVE  RelationsNeverMix'
  BY <1>2
  DEF CrmInvariant, TypeOK, RelationsNeverMix, ReplacesAll, InTransaction, ListOnly,
      CallFits, Operations, Lists, CreateLead, Finish, Goto, leadVars, recordVars,
      requestVars
<1>3. ASSUME NEW c \in Calls, Commit(c)
      PROVE  RelationsNeverMix'
  BY <1>3, ListsWritten DEF Commit, Finish, Goto
<1>4. ASSUME NEW c \in Calls, CommitUnacknowledged(c)
      PROVE  RelationsNeverMix'
  BY <1>4, ListsWritten DEF CommitUnacknowledged
<1>5. CASE UNCHANGED <<leadVars, requestVars>>
  BY <1>5
  DEF CrmInvariant, TypeOK, RelationsNeverMix, ReplacesAll, InTransaction, ListOnly,
      CallFits, Operations, Lists, vars, leadVars, recordVars, requestVars, callVars
<1> QED
  BY <1>1, <1>2, <1>3, <1>4, <1>5
  DEF Next, Comes, Step, HeardStep, vars, leadVars, recordVars, requestVars, callVars,
      ReadLead, Refuse,
      Validate, AddNote, AddActivity, QueueEmail, SmtpAccepts, SmtpRefuses,
      SmtpAnswerLost, MarkFailed, LockLead, ReadLeadAgain, FindItems, DeleteItems,
      InsertItems, TransactionFails, Dies

\* The record of e-mails is true.
LEMMA MailTrueKept ==
    ASSUME CrmInvariant, [Next]_vars
    PROVE  MailRecordIsTrue'
<1>1. ASSUME NEW c \in Calls, NEW o \in Operations, NEW l \in Leads,
             NEW w \in Statuses \cup {Absent}, NEW i \in Lists, NEW t \in BOOLEAN,
             Arrive(c, o, l, w, i, t)
      PROVE  MailRecordIsTrue'
  BY <1>1
  DEF CrmInvariant, TypeOK, MailRecordIsTrue, MailUnderWay, HistoryAtEnd,
      InTransaction, CallFits, ActivityTypes, Arrive, Goto, leadVars, recordVars,
      requestVars
<1>2. ASSUME NEW c \in Calls, AddNote(c)
      PROVE  MailRecordIsTrue'
  BY <1>2
  DEF CrmInvariant, TypeOK, MailRecordIsTrue, MailUnderWay, HistoryAtEnd,
      InTransaction, CallFits, ActivityTypes, AddNote, Finish, Goto, leadVars,
      recordVars, requestVars
<1>3. ASSUME NEW c \in Calls, NEW t \in ActivityTypes, AddActivity(c, t)
      PROVE  MailRecordIsTrue'
  BY <1>3
  DEF CrmInvariant, TypeOK, MailRecordIsTrue, MailUnderWay, HistoryAtEnd,
      InTransaction, CallFits, ActivityTypes, AddActivity, Finish, Goto, leadVars,
      recordVars, requestVars
<1>4. ASSUME NEW c \in Calls, QueueEmail(c)
      PROVE  MailRecordIsTrue'
  BY <1>4
  DEF CrmInvariant, TypeOK, MailRecordIsTrue, MailUnderWay, HistoryAtEnd,
      InTransaction, CallFits, ActivityTypes, QueueEmail, Goto, leadVars, recordVars,
      requestVars
<1>5. ASSUME NEW c \in Calls, SmtpAccepts(c)
      PROVE  MailRecordIsTrue'
  BY <1>5
  DEF CrmInvariant, TypeOK, MailRecordIsTrue, MailUnderWay, HistoryAtEnd,
      InTransaction, CallFits, ActivityTypes, SmtpAccepts, Goto, leadVars, recordVars,
      requestVars
<1>6. ASSUME NEW c \in Calls, SmtpAnswerLost(c)
      PROVE  MailRecordIsTrue'
  BY <1>6
  DEF CrmInvariant, TypeOK, MailRecordIsTrue, MailUnderWay, HistoryAtEnd,
      InTransaction, CallFits, ActivityTypes, SmtpAnswerLost, Goto, leadVars,
      recordVars, requestVars
<1>7. ASSUME NEW c \in Calls, MarkFailed(c)
      PROVE  MailRecordIsTrue'
  BY <1>7
  DEF CrmInvariant, TypeOK, MailRecordIsTrue, MailUnderWay, HistoryAtEnd,
      InTransaction, CallFits, ActivityTypes, MarkFailed, Finish, Goto, leadVars,
      recordVars, requestVars
<1>8. ASSUME NEW c \in Calls, Commit(c)
      PROVE  MailRecordIsTrue'
  BY <1>8, MailWritten DEF Commit, Finish, Goto
<1>9. ASSUME NEW c \in Calls, CommitUnacknowledged(c)
      PROVE  MailRecordIsTrue'
  BY <1>9, MailWritten DEF CommitUnacknowledged
<1>10. CASE UNCHANGED <<op, activities, emailRow, accepted>>
  BY <1>10
  DEF CrmInvariant, TypeOK, MailRecordIsTrue, MailUnderWay, HistoryAtEnd,
      InTransaction, CallFits, ActivityTypes, vars, leadVars, recordVars, requestVars,
      callVars
<1> QED
  BY <1>1, <1>2, <1>3, <1>4, <1>5, <1>6, <1>7, <1>8, <1>9, <1>10
  DEF Next, Comes, Step, HeardStep, vars, leadVars, recordVars, requestVars, callVars,
      ReadLead, Refuse,
      Validate, CreateLead, SmtpRefuses, LockLead, ReadLeadAgain, FindItems,
      DeleteItems, InsertItems, TransactionFails, Dies

\* Answered e-mails are settled.
LEMMA SettledKept ==
    ASSUME CrmInvariant, [Next]_vars
    PROVE  AnsweredMailIsSettled'
<1>1. ASSUME NEW c \in Calls, NEW o \in Operations, NEW l \in Leads,
             NEW w \in Statuses \cup {Absent}, NEW i \in Lists, NEW t \in BOOLEAN,
             Arrive(c, o, l, w, i, t)
      PROVE  AnsweredMailIsSettled'
  BY <1>1
  DEF CrmInvariant, TypeOK, AnsweredMailIsSettled, MailUnderWay, InTransaction,
      CallFits, Operations, EmailStates, Arrive, Goto, leadVars, recordVars, requestVars
<1>2. ASSUME NEW c \in Calls, ReadLead(c)
      PROVE  AnsweredMailIsSettled'
  BY <1>2
  DEF CrmInvariant, TypeOK, AnsweredMailIsSettled, MailUnderWay, InTransaction,
      CallFits, Operations, EmailStates, ReadLead, AfterRead, leadVars, recordVars,
      requestVars
<1>3. ASSUME NEW c \in Calls, Refuse(c)
      PROVE  AnsweredMailIsSettled'
  BY <1>3
  DEF CrmInvariant, TypeOK, AnsweredMailIsSettled, MailUnderWay, InTransaction,
      CallFits, Operations, EmailStates, Refuse, Finish, Goto, leadVars, recordVars,
      requestVars
<1>4. ASSUME NEW c \in Calls, Validate(c)
      PROVE  AnsweredMailIsSettled'
  BY <1>4
  DEF CrmInvariant, TypeOK, AnsweredMailIsSettled, MailUnderWay, InTransaction,
      CallFits, Operations, EmailStates, Validate, Goto, leadVars, recordVars,
      requestVars
<1>5. ASSUME NEW c \in Calls, CreateLead(c)
      PROVE  AnsweredMailIsSettled'
  BY <1>5
  DEF CrmInvariant, TypeOK, AnsweredMailIsSettled, MailUnderWay, InTransaction,
      CallFits, Operations, EmailStates, CreateLead, Finish, Goto, leadVars,
      recordVars, requestVars
<1>6. ASSUME NEW c \in Calls, AddNote(c)
      PROVE  AnsweredMailIsSettled'
  BY <1>6
  DEF CrmInvariant, TypeOK, AnsweredMailIsSettled, MailUnderWay, InTransaction,
      CallFits, Operations, EmailStates, AddNote, Finish, Goto, leadVars, recordVars,
      requestVars
<1>7. ASSUME NEW c \in Calls, NEW t \in ActivityTypes, AddActivity(c, t)
      PROVE  AnsweredMailIsSettled'
  BY <1>7
  DEF CrmInvariant, TypeOK, AnsweredMailIsSettled, MailUnderWay, InTransaction,
      CallFits, Operations, EmailStates, AddActivity, Finish, Goto, leadVars,
      recordVars, requestVars
<1>8. ASSUME NEW c \in Calls, QueueEmail(c)
      PROVE  AnsweredMailIsSettled'
  BY <1>8
  DEF CrmInvariant, TypeOK, AnsweredMailIsSettled, MailUnderWay, InTransaction,
      CallFits, Operations, EmailStates, QueueEmail, Goto, leadVars, recordVars,
      requestVars
<1>9. ASSUME NEW c \in Calls, SmtpAccepts(c)
      PROVE  AnsweredMailIsSettled'
  BY <1>9
  DEF CrmInvariant, TypeOK, AnsweredMailIsSettled, MailUnderWay, InTransaction,
      CallFits, Operations, EmailStates, SmtpAccepts, Goto, leadVars, recordVars,
      requestVars
<1>10. ASSUME NEW c \in Calls, SmtpRefuses(c)
      PROVE  AnsweredMailIsSettled'
  BY <1>10
  DEF CrmInvariant, TypeOK, AnsweredMailIsSettled, MailUnderWay, InTransaction,
      CallFits, Operations, EmailStates, SmtpRefuses, Goto, leadVars, recordVars,
      requestVars
<1>11. ASSUME NEW c \in Calls, SmtpAnswerLost(c)
      PROVE  AnsweredMailIsSettled'
  BY <1>11
  DEF CrmInvariant, TypeOK, AnsweredMailIsSettled, MailUnderWay, InTransaction,
      CallFits, Operations, EmailStates, SmtpAnswerLost, Goto, leadVars, recordVars,
      requestVars
<1>12. ASSUME NEW c \in Calls, MarkFailed(c)
      PROVE  AnsweredMailIsSettled'
  BY <1>12
  DEF CrmInvariant, TypeOK, AnsweredMailIsSettled, MailUnderWay, InTransaction,
      CallFits, Operations, EmailStates, MarkFailed, Finish, Goto, leadVars,
      recordVars, requestVars
<1>13. ASSUME NEW c \in Calls, LockLead(c)
      PROVE  AnsweredMailIsSettled'
  BY <1>13
  DEF CrmInvariant, TypeOK, AnsweredMailIsSettled, MailUnderWay, InTransaction,
      CallFits, Operations, EmailStates, LockLead, Goto, leadVars, recordVars,
      requestVars
<1>14. ASSUME NEW c \in Calls, ReadLeadAgain(c)
      PROVE  AnsweredMailIsSettled'
  BY <1>14
  DEF CrmInvariant, TypeOK, AnsweredMailIsSettled, MailUnderWay, InTransaction,
      CallFits, Operations, EmailStates, ReadLeadAgain, Goto, leadVars, recordVars,
      requestVars
<1>15. ASSUME NEW c \in Calls, FindItems(c)
      PROVE  AnsweredMailIsSettled'
  BY <1>15
  DEF CrmInvariant, TypeOK, AnsweredMailIsSettled, MailUnderWay, InTransaction,
      CallFits, Operations, EmailStates, FindItems, Goto, leadVars, recordVars,
      requestVars
<1>16. ASSUME NEW c \in Calls, DeleteItems(c)
      PROVE  AnsweredMailIsSettled'
  BY <1>16
  DEF CrmInvariant, TypeOK, AnsweredMailIsSettled, MailUnderWay, InTransaction,
      CallFits, Operations, EmailStates, DeleteItems, Goto, leadVars, recordVars,
      requestVars
<1>17. ASSUME NEW c \in Calls, InsertItems(c)
      PROVE  AnsweredMailIsSettled'
  BY <1>17
  DEF CrmInvariant, TypeOK, AnsweredMailIsSettled, MailUnderWay, InTransaction,
      CallFits, Operations, EmailStates, InsertItems, Goto, leadVars, recordVars,
      requestVars
<1>18. ASSUME NEW c \in Calls, Commit(c)
      PROVE  AnsweredMailIsSettled'
  BY <1>18
  DEF CrmInvariant, TypeOK, AnsweredMailIsSettled, MailUnderWay, InTransaction,
      CallFits, Operations, EmailStates, Commit, Finish, Goto, Write, WriteSent,
      WriteUpdate, Unlock, LosesSight, leadVars, recordVars, requestVars
<1>19. ASSUME NEW c \in Calls, CommitUnacknowledged(c)
      PROVE  AnsweredMailIsSettled'
  BY <1>19
  DEF CrmInvariant, TypeOK, AnsweredMailIsSettled, MailUnderWay, InTransaction,
      CallFits, Operations, EmailStates, CommitUnacknowledged, Throw, Write, WriteSent,
      WriteUpdate, Unlock, LosesSight, leadVars, recordVars, requestVars
<1>20. ASSUME NEW c \in Calls, TransactionFails(c)
      PROVE  AnsweredMailIsSettled'
  BY <1>20
  DEF CrmInvariant, TypeOK, AnsweredMailIsSettled, MailUnderWay, InTransaction,
      CallFits, Operations, EmailStates, TransactionFails, Throw, Unlock, leadVars,
      recordVars, requestVars
<1>21. ASSUME NEW c \in Calls, Dies(c)
      PROVE  AnsweredMailIsSettled'
  BY <1>21
  DEF CrmInvariant, TypeOK, AnsweredMailIsSettled, MailUnderWay, InTransaction,
      CallFits, Operations, EmailStates, Dies, Finish, Goto, Unlock, leadVars,
      recordVars, requestVars
<1>22. CASE UNCHANGED vars
  BY <1>22
  DEF CrmInvariant, TypeOK, AnsweredMailIsSettled, MailUnderWay, InTransaction,
      CallFits, Operations, EmailStates, vars, leadVars, recordVars, requestVars,
      callVars
<1> QED
  BY <1>1, <1>2, <1>3, <1>4, <1>5, <1>6, <1>7, <1>8, <1>9, <1>10, <1>11, <1>12, <1>13,
      <1>14, <1>15, <1>16, <1>17, <1>18, <1>19, <1>20, <1>21, <1>22
  DEF Next, Comes, Step, HeardStep

-----------------------------------------------------------------------------
(* Theorems.                                                               *)

\* The invariant holds at the start.
LEMMA InitialState == Init => CrmInvariant
<1> SUFFICES ASSUME Init
             PROVE  CrmInvariant
  OBVIOUS
<1>1. TypeOK
  BY DEF Init, TypeOK, Lists, Phases, EmailStates, Operations
<1>2. \A c \in Calls : /\ CallFits(c) /\ FoundStays(c) /\ HistoryAtEnd(c)
                       /\ MailUnderWay(c) /\ HoldsRow(c) /\ ReplacesAll(c)
  BY DEF Init, CallFits, FoundStays, HistoryAtEnd, MailUnderWay, HoldsRow, ReplacesAll,
         InTransaction, Operations
<1>3. RelationsNeverMix /\ MailRecordIsTrue /\ AnsweredMailIsSettled
  BY
  DEF Init, RelationsNeverMix, MailRecordIsTrue, AnsweredMailIsSettled, EmailStates,
      Operations
<1> QED
  BY <1>1, <1>2, <1>3 DEF CrmInvariant

\* The calls of CrmService keep, in every interleaving and with a failure at
\* any point, all that holds between them and the rows of prospects, relations,
\* activities and e-mails.
THEOREM CrmSafe == Spec => []CrmInvariant
<1>1. CrmInvariant /\ [Next]_vars => CrmInvariant'
  <2> SUFFICES ASSUME CrmInvariant, [Next]_vars
               PROVE  CrmInvariant'
    OBVIOUS
  <2> QED
    BY TypeKept, FitsKept, FoundKept, HistoryKept, MailKept, RowKept, ReplacesKept,
        RelationsKept, MailTrueKept, SettledKept
    DEF CrmInvariant
<1> QED
  BY InitialState, <1>1, PTL DEF Spec

\* Every variable of CrmLeads keeps its type.
THEOREM TypeCorrect == Spec => []TypeOK
<1>1. CrmInvariant => TypeOK
  BY DEF CrmInvariant
<1> QED
  BY CrmSafe, <1>1, PTL

\* However many edits of a prospect run at once, it has exactly the relations of
\* the last one that gave a list, unless an edit gave nothing but lists.
THEOREM RelationsSafe == Spec => []RelationsNeverMix
<1>1. CrmInvariant => RelationsNeverMix
  BY DEF CrmInvariant
<1> QED
  BY CrmSafe, <1>1, PTL

\* No e-mail is in the history that the mail server has not taken, and every
\* e-mail stored as SENT is.
THEOREM MailRecordSafe == Spec => []MailRecordIsTrue
<1>1. CrmInvariant => MailRecordIsTrue
  BY DEF CrmInvariant
<1> QED
  BY CrmSafe, <1>1, PTL

\* The row of an e-mail agrees with the answer that sendEmail gave.
THEOREM AnsweredMailSafe == Spec => []AnsweredMailIsSettled
<1>1. CrmInvariant => AnsweredMailIsSettled
  BY DEF CrmInvariant
<1> QED
  BY CrmSafe, <1>1, PTL

\* A status changes without a STATUS_CHANGE only behind the back of a writer that
\* read another one before its transaction.
THEOREM SilentChange == Spec => SilentChangeNeedsRace
<1>1. ASSUME CrmInvariant, [Next]_vars
      PROVE  [\A l \in Leads :
          (status[l] # Absent /\ status'[l] # status[l] /\ activities' = activities) =>
             \E c \in Calls : /\ rowLock[l] = c /\ rowLock'[l] # c
                              /\ seen[c] # status[l]]_vars
  <2> SUFFICES ASSUME Next, NEW l \in Leads, status[l] # Absent, status'[l] # status[l],
                      activities' = activities
               PROVE  \E c \in Calls : /\ rowLock[l] = c /\ rowLock'[l] # c
                                       /\ seen[c] # status[l]
    BY <1>1
  <2>1. PICK c \in Calls : phase[c] = "commit" /\ Write(c)
    <3>1. ASSUME NEW c \in Calls, CreateLead(c)
          PROVE  FALSE
      BY <1>1, <3>1 DEF CrmInvariant, TypeOK, CallFits, CreateLead, Finish, Goto
    <3>2. CASE status' = status
      BY <3>2
    <3> QED
      BY <3>1, <3>2
      DEF Next, Comes, Step, HeardStep, Arrive, ReadLead, Refuse, Validate, AddNote, AddActivity,
          QueueEmail,
          SmtpAccepts, SmtpRefuses, SmtpAnswerLost, MarkFailed, LockLead, ReadLeadAgain,
          FindItems, DeleteItems, InsertItems, Commit, CommitUnacknowledged,
              TransactionFails,
          Dies, Finish, Goto, leadVars
  <2>2. op[c] \in {"email", "update"} /\ lead[c] \in Leads
    BY <1>1, <2>1 DEF CrmInvariant, CallFits, InTransaction, Operations
  <2>3. <<c, "EMAIL">> \notin activities /\ <<c, "STATUS_CHANGE">> \notin activities
    BY <1>1, <2>1 DEF CrmInvariant, HistoryAtEnd, ActivityTypes
  <2>4. op[c] = "update"
    <3>1. op[c] = "email" => <<c, "EMAIL">> \in activities'
      BY <2>1 DEF Write, WriteSent
    <3> QED
      BY <2>2, <2>3, <3>1
  <2>5. want[c] # Absent /\ l = lead[c] /\ status'[l] = want[c]
    BY <1>1, <2>1, <2>2, <2>4 DEF CrmInvariant, TypeOK, Write, WriteUpdate
  <2>6. want[c] = seen[c]
    <3>1. want[c] # seen[c] => <<c, "STATUS_CHANGE">> \in activities'
      BY <2>1, <2>4, <2>5 DEF Write, WriteUpdate
    <3> QED
      BY <2>3, <3>1
  <2>7. rowLock[l] = c
    BY <1>1, <2>1, <2>4, <2>5 DEF CrmInvariant, CallFits, HoldsRow, InTransaction
  <2>8. rowLock'[l] # c
    BY <2>1, <2>7 DEF Write, Unlock
  <2> QED
    BY <2>5, <2>6, <2>7, <2>8
<1> QED
  BY CrmSafe, <1>1, PTL DEF Spec, SilentChangeNeedsRace

=============================================================================
