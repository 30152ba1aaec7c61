\* The model is finite as it is.
SPECIFICATION FairSpec
INVARIANTS
    PromptAfterRecord
    CleanMeansRecorded
PROPERTIES
    FinalIsFinal
    EvidenceIsKept
    FinalisationEnds
CHECK_DEADLOCK FALSE
