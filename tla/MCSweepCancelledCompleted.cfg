\* Refuted: a cancelled run may be marked completed.
CONSTANTS
    Metas = {"m"}
    Cursors <- SweepCursors
    w1 = w1
    w2 = w2
    main = main
    typo = typo
    Signatures = {main}
    BadSignatures = {}
    Workers = {w1}
    WordlistSize = 3
    BatchSize = 1
    Valid = {}
    Funded = {}
    Faults = {"cancel"}
    MaxRuns = 1
SPECIFICATION Spec
INVARIANTS CompletedMeansExhausted
