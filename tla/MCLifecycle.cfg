\* One controller process that may crash once and be resumed, one outside edit,
\* a drifted workspace, one correction round.
SPECIFICATION Spec
CONSTANTS
    Workspaces = {base, w1, w2}
    Baseline = base
    Unsafe = {w2}
    NoFingerprint = NoFingerprint
    MaxCorrectionRounds = 1
    Controllers = {c1}
    Creator = c1
    NoController = NoController
    MaxResumes = 1
    MaxCrashes = 1
    MaxEdits = 1
INVARIANTS
    TypeOK
    ReadyHasEvidence
    SingleEditIsCaught
    FailedIsAccountedFor
    CorrectionAnswersItsCause
    ReportingEvidenceSuffices
PROPERTIES
    ContractImplemented
    DurableTransitionsAreLegal
    NoAdoption
\* A finished run stops.
CHECK_DEADLOCK FALSE
