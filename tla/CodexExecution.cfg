\* The model is finite as it is.
SPECIFICATION Spec
INVARIANTS
    FilesTellTheTruth
PROPERTIES
    AgentContractImplemented
CHECK_DEADLOCK FALSE
