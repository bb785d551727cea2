\* More indices than the channels and goroutines can hold, and cancellation.
CONSTANTS
    Metas = {"m"}
    Cursors <- SweepCursors
    w1 = w1
    w2 = w2
    main = main
    typo = typo
    Signatures = {main, typo}
    BadSignatures = {typo}
    Workers = {w1}
    WordlistSize = 12
    BatchSize = 1
    Valid = {0, 6, 11}
    Funded = {6}
    Faults = {"api", "cancel"}
    MaxRuns = 1
SPECIFICATION FairSpec
PROPERTIES RunReturns RunCompletes
