CONSTANTS
    l1 = l1
    c1 = c1
    c2 = c2
    new = new
    contacted = contacted
    x = x
    y = y
    Absent = Absent
    NoCall = NoCall
    Leads <- MCLeads
    Calls <- MCCalls
    Statuses <- MCStatuses
    Contacted <- contacted
    Items <- MCTwoItems
SPECIFICATION Spec
SYMMETRY TwoItemSymmetry
INVARIANTS RelationsNeverMix MailRecordIsTrue AnsweredMailIsSettled
PROPERTY SilentChangeNeedsRace
\* Every call comes to its end.
CHECK_DEADLOCK FALSE
