---------------------------- MODULE AgentVocabulary ----------------------------
(***************************************************************************)
(* The provider-neutral vocabulary of an agent execution                   *)
(* (application/agent_execution.py), shared by the adapter that produces   *)
(* executions and the guarded operation that judges them.                  *)
(***************************************************************************)

FailureCategories ==
    {"PROVIDER_UNAVAILABLE", "INVOCATION_START_FAILURE", "TIMEOUT",
     "NON_SUCCESSFUL_EXECUTION", "MISSING_RESULT", "INVALID_RESULT",
     "PROVIDER_REJECTION_OR_SERVICE_FAILURE", "CAPABILITY_OR_CONFIGURATION_FAILURE",
     "INVOCATION_CLEANUP_UNCERTAIN"}

Executions == [status: {"SUCCESS", "FAILED"}, start: {"STARTED", "NOT_STARTED", "UNKNOWN"},
               category: FailureCategories \cup {"NONE"}]
NoExecution == [status |-> "none", start |-> "none", category |-> "NONE"]

PreInvocationFailures ==
    {"PROVIDER_UNAVAILABLE", "INVOCATION_START_FAILURE", "CAPABILITY_OR_CONFIGURATION_FAILURE"}

\* validate_execution_semantics; an execution that is not valid cannot be constructed.
ValidExecution(e) ==
    IF e.status = "SUCCESS"
    THEN e.start = "STARTED" /\ e.category = "NONE"
    ELSE /\ e.category \in FailureCategories
         /\ e.category \in PreInvocationFailures => e.start = "NOT_STARTED"
         /\ e.category \notin PreInvocationFailures \cup {"TIMEOUT"} => e.start # "NOT_STARTED"

\* Failures after which the workspace is not taken for what it looks like
\* (guarded_writable_operation.py:671): the invocation may have done its work, or may
\* still be doing it.
UntrustedCompletion ==
    {"MISSING_RESULT", "INVALID_RESULT", "TIMEOUT", "INVOCATION_CLEANUP_UNCERTAIN"}
=============================================================================
