\* Cancellation and failing lookups, walks of one signature.
CONSTANTS
    Metas = {"m"}
    Cursors <- AllCursors
    walk = walk
    otherWalk = otherWalk
    sweep = sweep
    Signatures = {walk}
    WalkSignatures = {walk}
    CursorLength = 2
    CursorBase = 2
    BatchSize = 2
    Valid <- SomeValid
    Funded <- SomeFunded
    Clock = {0}
    Faults = {"api", "cancel"}
    MaxRuns = 4
SPECIFICATION FairSpec
INVARIANTS WalkAscends
PROPERTIES WalkExhausts
