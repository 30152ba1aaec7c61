\* Decisions: a finalization window inside the work time, three records.
CONSTANTS
    Timeout = 2
    Finalization = 1
    Cleanup = 1
    Grace = 1
    MaxRecords = 3
    Streams = {"stdout"}
    Detached = {}
SPECIFICATION Spec
INVARIANTS
    AcceptedMeansCompleted
PROPERTIES
    NoTimelyCompletionIsTimedOut
CHECK_DEADLOCK FALSE
