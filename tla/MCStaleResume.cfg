\* Two controllers, one resume with a record loaded earlier.
SPECIFICATION Spec
CONSTANTS
    Workspaces = {base, w1}
    Baseline = base
    Unsafe = {}
    NoFingerprint = NoFingerprint
    MaxCorrectionRounds = 1
    Controllers = {c1, c2}
    Creator = c1
    NoController = NoController
    MaxResumes = 1
    MaxCrashes = 0
    MaxEdits = 0
PROPERTY DurableTransitionsAreLegal
CHECK_DEADLOCK FALSE
