\* Refuted: after a sweep was interrupted, the walk starts over in its session.
CONSTANTS
    Metas = {"m"}
    Cursors <- AllCursors
    walk = walk
    otherWalk = otherWalk
    sweep = sweep
    Signatures = {walk, sweep}
    WalkSignatures = {walk}
    CursorLength = 2
    CursorBase = 2
    BatchSize = 2
    Valid <- SomeValid
    Funded <- SomeFunded
    Clock = {0}
    Faults = {"cancel"}
    MaxRuns = 3
SPECIFICATION Spec
INVARIANTS WalkAscends
