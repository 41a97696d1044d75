CONSTANTS
    l1 = l1
    c1 = c1
    c2 = c2
    new = new
    contacted = contacted
    x = x
    y = y
    Absent = Absent
    NoCall = NoCall
    Leads <- MCLeads
    Calls <- MCCalls
    Statuses <- MCStatuses
    Contacted <- contacted
    Items <- MCOneItem
SPECIFICATION HeardSpec
SYMMETRY OneItemSymmetry
INVARIANT FailedMailDidNotGoOut
\* Every call comes to its end.
CHECK_DEADLOCK FALSE
