\* One controller, fair steps; it may crash and be resumed.
SPECIFICATION FairSpec
CONSTANTS
    Workspaces = {base, w1}
    Baseline = base
    Unsafe = {}
    NoFingerprint = NoFingerprint
    MaxCorrectionRounds = 1
    Controllers = {c1}
    Creator = c1
    NoController = NoController
    MaxResumes = 1
    MaxCrashes = 1
    MaxEdits = 0
PROPERTIES
    LockIsGivenBack
    RunEnds
\* A finished run stops.
CHECK_DEADLOCK FALSE
