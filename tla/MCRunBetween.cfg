\* Two processes without flags, the first one cancelled.
CONSTANTS
    t1 = t1
    t2 = t2
    t3 = t3
    typo = typo
    None = None
    Templates <- MCTemplates
    BadTemplates <- MCBadTemplates
    Signatures <- MCSignatures
    Metas <- MCMetas
    Cursors <- MCCursors
    CursorLength = 1
    CursorBase = 2
    Settings = {"segwit", "legacy", "none"}
    ValidSettings = {"segwit", "legacy"}
    DefaultSettings = "segwit"
    DefaultPositions <- TwoPositions
    FlagSets <- NoFlagsOnly
    WordlistSize = 2
    Clock = {0}
    Faults = {"cancel"}
    MaxRuns = 2
SYMMETRY TemplateSymmetry
SPECIFICATION Spec
INVARIANT SweepGoesOn
