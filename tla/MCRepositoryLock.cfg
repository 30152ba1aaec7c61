\* Three processes, two of which may die; no symmetry with a liveness property.
SPECIFICATION FairSpec
CONSTANTS
    Processes = {p1, p2, p3}
    Nobody = Nobody
    MaxCrashes = 2
INVARIANTS
    MutualExclusion
    OwnerIsDocumented
PROPERTIES
    NeverStranded
