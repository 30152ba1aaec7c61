\* Cleanup: descendants that leave the process group, with the pipes or without them,
\* a fair clock and a fair monitor.
CONSTANTS
    Timeout = 1
    Finalization = 1
    Cleanup = 1
    Grace = 1
    MaxRecords = 1
    Streams = {"stdout"}
    Detached = {"piped", "silent"}
SPECIFICATION FairSpec
PROPERTIES
    EvidenceIsFinal
    RunnerContractImplemented
    RunReturns
CHECK_DEADLOCK FALSE
