CONSTANTS
    r1 = r1
    r2 = r2
    l1 = l1
    a = a
    b = b
    k1 = k1
    NoEmail = NoEmail
    NoRequest = NoRequest
    Requests <- MCRequests
    CrmLeads <- MCCrmLeads
    Emails <- MCEmails
    LockKeys <- MCLockKeys
    LockKey <- MCLockKey
SPECIFICATION FairSpec
INVARIANTS OneLeadPerAddress EveryMessageReachesSales
           AnswersAreTrue OnlyStoredIsAnnounced
PROPERTIES CommittedStays ImplementsRegistry EverySubmissionEnds LocksAreReturned
