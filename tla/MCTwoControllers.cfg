\* Two controllers: one may resume with a record it loaded at any earlier time, and one
\* may die or fail to record its end.
SPECIFICATION Spec
CONSTANTS
    Workspaces = {base, w1}
    Baseline = base
    Unsafe = {}
    NoFingerprint = NoFingerprint
    MaxCorrectionRounds = 1
    Controllers = {c1, c2}
    Creator = c1
    NoController = NoController
    MaxResumes = 1
    MaxCrashes = 1
    MaxEdits = 0
PROPERTIES
    InterruptedWriteStopsRun
    OnlyTheHolderWrites
    ReportShowsDurableState
\* A finished run stops.
CHECK_DEADLOCK FALSE
