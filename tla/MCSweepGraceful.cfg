\* Cancellation and failing lookups only, two runs, one of the templates bad.
CONSTANTS
    Metas = {"m"}
    Cursors <- SweepCursors
    w1 = w1
    w2 = w2
    main = main
    typo = typo
    Signatures = {main, typo}
    BadSignatures = {typo}
    Workers = {w1, w2}
    WordlistSize = 4
    BatchSize = 2
    Valid = {0, 2}
    Funded = {2}
    Faults = {"api", "cancel"}
    MaxRuns = 2
SYMMETRY WorkerSymmetry
SPECIFICATION Spec
INVARIANTS LogIsPrefix StatsMatchRows UncancelledIsExhausted
