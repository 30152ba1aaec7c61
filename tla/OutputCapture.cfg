\* Five reads of two bytes, so that a write can stop in the middle; the tail holds two reads.
CONSTANTS
    Chunk = 2
    Kept = 4
    MaxChunks = 5
SPECIFICATION Spec
INVARIANTS
    PublishedIsFaithful
PROPERTIES
    PublishedIsImmutable
CHECK_DEADLOCK FALSE
