\* Three processes with no flag or any one flag each, and every fault.
CONSTANTS
    t1 = t1
    t2 = t2
    t3 = t3
    typo = typo
    None = None
    Templates <- MCTemplates
    BadTemplates <- MCBadTemplates
    Signatures <- MCSignatures
    Metas <- MCMetas
    Cursors <- MCCursors
    CursorLength = 1
    CursorBase = 2
    Settings = {"segwit", "legacy", "none"}
    ValidSettings = {"segwit", "legacy"}
    DefaultSettings = "segwit"
    DefaultPositions <- TwoPositions
    FlagSets <- MCFlagSets
    WordlistSize = 2
    Clock = {0}
    Faults = {"database", "cancel", "crash"}
    MaxRuns = 3
SPECIFICATION Spec
INVARIANTS IndInv SessionsHandDown EachPositionOnce NothingForgotten
PROPERTIES ResumesLatest WalkAfterWholeSweep WalkForward
SYMMETRY TemplateSymmetry
