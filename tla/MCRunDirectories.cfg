\* Controllers of two repositories that create runs, one that resumes them.
SPECIFICATION Spec
CHECK_DEADLOCK FALSE
CONSTANTS
    c1 = c1
    c2 = c2
    r1 = r1
    A = A
    B = B
    Creators = {c1, c2}
    Resumers = {r1}
    Repositories = {A, B}
    RepositoryOf <- TwoRepositories
    Ids = {1}
    MaxControllers = 2
    MaxEdits = 1
    None = None
INVARIANTS
    DrivenRunIsWhole
    FailedIsNotListed
    OwnEvidenceOnly
PROPERTIES
    CompleteRunIsKept
