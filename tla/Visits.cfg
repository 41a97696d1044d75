CONSTANTS
    c1 = c1
    c2 = c2
    Legacy = Legacy
    NoSession = NoSession
    NoVisitor = NoVisitor
    Duration = 2
    TicksPerDay = 2
    DefaultDays = 2
    MaxDays = 2
    MaxTime = 4
    Calls <- MCCalls
    Zones <- MCZones
SPECIFICATION Spec
SYMMETRY CallSymmetry
INVARIANTS VisitorsAgree SummaryAddsUp
PROPERTIES ActivityGoesBackOnlyInRaces NoVisitWakesUp VisitsSplitOnlyByForm
\* Each call is made once and the clock is bounded, so the run ends.
CHECK_DEADLOCK FALSE
