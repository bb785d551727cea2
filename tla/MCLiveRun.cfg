\* A sweep or a walk, watched on the screen or from upstream.
CONSTANTS
    NAddresses = 2
    Interval = 2
    Total = 4
    Candidates <- Words
    Valid <- SomeValid
    Holding <- SomeHolding
    Faults = {"api", "cancel"}
    BatchSize = 2
    Scenarios <- UpstreamAndScreen
SPECIFICATION FairSpec
INVARIANTS IndInv AnswerComplete RequestsPaced AttemptsBetween FrameFits
PROPERTIES FramesForward LookupReturns DashboardStops
