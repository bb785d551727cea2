\* Two processes on one file, resets and failures anywhere.
CONSTANTS
    Metas = {"m"}
    Cursors <- NoCursors
    p1 = p1
    p2 = p2
    main = main
    other = other
    Signatures = {main, other}
    Processes = {p1, p2}
    WordlistSize = 2
    BatchSize = 2
    Outcomes <- OneOutcome
    Migrations <- TwoColumns
    NoTable = NoTable
    MaxRuns = 3
SPECIFICATION Spec
INVARIANTS IndInv SchemaReady NothingSkipped OwnSignature NoOrphans OneResumableEach
PROPERTIES CheckpointForward
SYMMETRY ProcessSymmetry
