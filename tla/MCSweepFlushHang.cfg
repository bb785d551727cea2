\* Refuted: after a failed flush Run waits for a generator that waits for room.
CONSTANTS
    Metas = {"m"}
    Cursors <- SweepCursors
    w1 = w1
    w2 = w2
    main = main
    typo = typo
    Signatures = {main}
    BadSignatures = {}
    Workers = {w1}
    WordlistSize = 12
    BatchSize = 1
    Valid = {}
    Funded = {}
    Faults = {"database", "cancel"}
    MaxRuns = 1
SPECIFICATION FairSpec
PROPERTIES RunReturns
