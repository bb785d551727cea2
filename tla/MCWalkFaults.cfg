\* Everything that can go wrong but lookups, walks and a sweep of other signatures.
CONSTANTS
    Metas = {"m"}
    Cursors <- AllCursors
    walk = walk
    otherWalk = otherWalk
    sweep = sweep
    Signatures = {walk, sweep}
    WalkSignatures = {walk}
    CursorLength = 2
    CursorBase = 2
    BatchSize = 2
    Valid <- SomeValid
    Funded <- SomeFunded
    Clock = {0, 1}
    Faults = {"database", "cancel", "crash"}
    MaxRuns = 3
SPECIFICATION Spec
INVARIANTS IndInv CoveredButStarts CompletedCovered
PROPERTIES CursorForward ImplementsWalk
