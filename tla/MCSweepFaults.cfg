\* Everything that can go wrong, two racing derivers, two runs.
CONSTANTS
    Metas = {"m"}
    Cursors <- SweepCursors
    w1 = w1
    w2 = w2
    main = main
    typo = typo
    Signatures = {main}
    BadSignatures = {}
    Workers = {w1, w2}
    WordlistSize = 3
    BatchSize = 2
    Valid = {0, 2}
    Funded = {2}
    Faults = {"database", "api", "cancel", "crash"}
    MaxRuns = 2
SYMMETRY WorkerSymmetry
SPECIFICATION Spec
INVARIANTS IndInv CheckpointCovered UniqueResumable
PROPERTIES NeverRedo CompletedIsFinal ImplementsScan
