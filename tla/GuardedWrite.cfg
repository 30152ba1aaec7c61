SPECIFICATION Spec
CHECK_DEADLOCK FALSE
INVARIANTS
    EndedMeansQuiet
    CleanFailureLeavesRepository
    SuccessIsWhatIsThere
    StartsAuthorised
    Constructible
