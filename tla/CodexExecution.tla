---------------------------- MODULE CodexExecution ----------------------------
(***************************************************************************)
(* CodexCliAgentExecutor.execute (providers/codex_cli/adapter.py) with the *)
(* artifacts of its attempt (evidence.py) and the classification of what   *)
(* happened (failures.py), on top of the contract of the process runner.   *)
(*                                                                         *)
(* The agent writes its result file to scratch storage while it runs.  The *)
(* adapter reads it, publishes the output, decides, and writes either the  *)
(* typed result or a diagnostic, and then the execution record.  Each file *)
(* operation is a step: the process can die between any two, and any may   *)
(* raise.                                                                  *)
(***************************************************************************)
EXTENDS RunnerContract, AgentVocabulary

VARIABLES
    at,         \* the next step of execute()
    launched,   \* the runner has started a process
    scratch,    \* the result file in scratch storage
    answer,     \* what the adapter read of it
    reason,     \* CodexFailureReason, or why there is none
    files,      \* the artifacts in the attempt's directory
    execution   \* the AgentExecution that was returned

adapter == <<at, scratch, answer, reason, files, execution>>
vars == <<alive, outcome, launched, adapter>>

\* A result file is missing, not UTF-8, no JSON or not the message the agent ended
\* with or not what the task's schema asks for, or good.
Contents == {"absent", "binary", "invalid", "valid"}

Reasons == {"EXECUTABLE_UNAVAILABLE", "PROCESS_START_FAILED", "TIMEOUT", "NON_ZERO_EXIT",
            "TRANSPORT_FAILURE", "FINALIZATION_FAILED", "MISSING_STRUCTURED_RESULT",
            "INVALID_STRUCTURED_RESULT", "AUTHENTICATION_OR_SERVICE",
            "PROJECT_CONFIGURATION_REJECTED", "CAPABILITY_REJECTED", "POLICY_REJECTED"}

NoFiles == [prompt |-> FALSE, output |-> "none", result |-> FALSE, diagnostic |-> "none",
            record |-> "none"]

-----------------------------------------------------------------------------
(* failures.py *)

FailureCategory(r) ==
    CASE r = "EXECUTABLE_UNAVAILABLE" -> "PROVIDER_UNAVAILABLE"
      [] r = "PROCESS_START_FAILED" -> "INVOCATION_START_FAILURE"
      [] r = "TIMEOUT" -> "TIMEOUT"
      [] r \in {"NON_ZERO_EXIT", "TRANSPORT_FAILURE", "FINALIZATION_FAILED"} ->
           "NON_SUCCESSFUL_EXECUTION"
      [] r = "MISSING_STRUCTURED_RESULT" -> "MISSING_RESULT"
      [] r = "INVALID_STRUCTURED_RESULT" -> "INVALID_RESULT"
      [] r = "AUTHENTICATION_OR_SERVICE" -> "PROVIDER_REJECTION_OR_SERVICE_FAILURE"
      [] r \in {"PROJECT_CONFIGURATION_REJECTED", "CAPABILITY_REJECTED", "POLICY_REJECTED"} ->
           "CAPABILITY_OR_CONFIGURATION_FAILURE"

Rejections == {"EXECUTABLE_UNAVAILABLE", "PROCESS_START_FAILED",
               "PROJECT_CONFIGURATION_REJECTED", "CAPABILITY_REJECTED", "POLICY_REJECTED"}

InvocationStartFor(r) == IF r \in Rejections THEN "NOT_STARTED" ELSE "STARTED"

\* Mutant: the reason alone decides.
BugMapFailure(r) == FailureCategory(r)

\* map_failure.  Before a launch there is no termination to confirm.
MapFailure(r) ==
    IF r \notin Rejections /\ ~outcome.confirmed /\ r # "TIMEOUT"
    THEN "INVOCATION_CLEANUP_UNCERTAIN"
    ELSE FailureCategory(r)

\* Mutant: a completed turn with a good exit is accepted although the runner failed it.
BugReasonsFor(o, content) ==
    IF o.kind = "timed-out" THEN {"TIMEOUT"}
    ELSE IF ~(o.success /\ o.completion /\ o.message) THEN {"TRANSPORT_FAILURE"}
    ELSE IF content = "valid" THEN {"none"}
    ELSE {"INVALID_STRUCTURED_RESULT"}

\* execute() from the outcome of the runner to the reason, in the order of its tests;
\* content is what was read of the result file.  A failing exit is told apart by its
\* messages, so either reason may be given.
ReasonsFor(o, content) ==
    CASE o.kind = "timed-out" -> {"TIMEOUT"}
      [] o.kind = "returned" /\ o.failed ->
           {IF o.expired THEN "FINALIZATION_FAILED" ELSE "TRANSPORT_FAILURE"}
      [] o.kind = "returned" /\ ~o.failed /\ ~o.success ->
           {"AUTHENTICATION_OR_SERVICE", "NON_ZERO_EXIT"}
      [] o.kind = "returned" /\ ~o.failed /\ o.success /\ ~(o.completion /\ o.message) ->
           {"TRANSPORT_FAILURE"}
      [] Acceptable(o) /\ content \in {"absent", "binary"} -> {"MISSING_STRUCTURED_RESULT"}
      [] Acceptable(o) /\ content = "invalid" -> {"INVALID_STRUCTURED_RESULT"}
      [] Acceptable(o) /\ content = "valid" -> {"none"}

-----------------------------------------------------------------------------
(* The agent's process *)

AgentWrites ==
    /\ alive
    /\ scratch' \in Contents
    /\ UNCHANGED <<alive, outcome, launched, at, answer, reason, files, execution>>

AgentEnds == GroupDies /\ UNCHANGED <<launched, adapter>>

-----------------------------------------------------------------------------
(* Before the launch *)

\* prepare(): old results are unlinked, the prompt is created, the logs are emptied.
Prepare ==
    /\ at = "prepare"
    /\ files' = [NoFiles EXCEPT !.prompt = TRUE, !.output = "empty"]
    /\ at' = "check"
    /\ UNCHANGED <<alive, outcome, launched, scratch, answer, reason, execution>>

\* A capability, the policy, the target's own provider configuration, the executable
\* or the scratch directory stands in the way.
Reject ==
    /\ at = "check"
    /\ reason' \in Rejections
    /\ files' = [files EXCEPT !.output =
                    IF reason' \in {"CAPABILITY_REJECTED", "POLICY_REJECTED"} THEN @ ELSE "note"]
    /\ at' = "finish"
    /\ UNCHANGED <<alive, outcome, launched, scratch, answer, execution>>

Run ==
    /\ at = "check"
    /\ LaunchGroup
    /\ launched' = TRUE
    /\ at' = "run"
    /\ UNCHANGED <<scratch, answer, reason, files, execution>>

\* The runner raises before a process exists.
RunFails ==
    /\ at = "check"
    /\ HandOver /\ outcome'.kind = "not-launched"
    /\ reason' \in {"EXECUTABLE_UNAVAILABLE", "PROCESS_START_FAILED"}
    /\ files' = [files EXCEPT !.output = "note"]
    /\ at' = "finish"
    /\ UNCHANGED <<launched, scratch, answer, execution>>

-----------------------------------------------------------------------------
(* After the runner *)

RunnerHandsOver ==
    /\ at = "run"
    /\ HandOver /\ outcome'.kind \in {"returned", "timed-out"}
    /\ at' = IF outcome'.kind = "timed-out" THEN "publish" ELSE "read"
    /\ UNCHANGED <<launched, scratch, answer, reason, files, execution>>

\* The start recorder raised, or the thread was interrupted: execute() raises.
RunnerRaises ==
    /\ at = "run"
    /\ HandOver /\ outcome'.kind = "raised"
    /\ at' = "raised"
    /\ UNCHANGED <<launched, scratch, answer, reason, files, execution>>

\* _read_scratch_result reads the file and unlinks it; a group that is still alive may
\* write another one.  Bytes that are no text go to a diagnostic at once.
ReadAnswer ==
    /\ at = "read"
    /\ answer' = scratch /\ scratch' = "absent"
    /\ files' = [files EXCEPT !.diagnostic = IF scratch = "binary" THEN "bytes" ELSE @]
    /\ at' = IF outcome.kind = "timed-out" THEN "diagnose" ELSE "publish"
    /\ UNCHANGED <<alive, outcome, launched, reason, execution>>

PublishOutput ==
    /\ at = "publish"
    /\ files' = [files EXCEPT !.output = "published"]
    /\ at' = IF outcome.kind = "timed-out" THEN "read" ELSE "diagnose"
    /\ UNCHANGED <<alive, outcome, launched, scratch, answer, reason, execution>>

\* The decision, with the file that belongs to it: the text of an answer that is not
\* accepted is a diagnostic, the answer that is accepted the typed result.
Decide ==
    /\ at = "diagnose"
    /\ reason' \in ReasonsFor(outcome, answer)
    /\ files' = IF reason' = "none" THEN [files EXCEPT !.result = TRUE]
                ELSE IF answer \in {"invalid", "valid"} THEN [files EXCEPT !.diagnostic = "text"]
                ELSE files
    /\ at' = "finish"
    /\ UNCHANGED <<alive, outcome, launched, scratch, answer, execution>>

\* The record on disk comes before the return.
Finish ==
    /\ at = "finish"
    /\ execution' =
          IF reason = "none"
          THEN [status |-> "SUCCESS", start |-> "STARTED", category |-> "NONE"]
          ELSE [status |-> "FAILED", start |-> InvocationStartFor(reason),
                category |-> MapFailure(reason)]
    /\ files' = [files EXCEPT !.record = execution'.status]
    /\ at' = "returned"
    /\ UNCHANGED <<alive, outcome, launched, scratch, answer, reason>>

\* A file operation raises, or the process dies: execute() ends where it is.
Abandoned ==
    /\ at \notin {"returned", "raised"}
    /\ at' = "raised"
    /\ UNCHANGED <<alive, outcome, launched, scratch, answer, reason, files, execution>>

Init ==
    /\ ContractInit
    /\ at = "prepare" /\ launched = FALSE
    /\ scratch = "absent" /\ answer = "absent" /\ reason = "none"
    /\ files = NoFiles
    /\ execution = NoExecution

Next ==
    \/ AgentWrites \/ AgentEnds
    \/ Prepare \/ Reject \/ Run \/ RunFails
    \/ RunnerHandsOver \/ RunnerRaises \/ ReadAnswer \/ PublishOutput
    \/ Decide \/ Finish \/ Abandoned

Spec == Init /\ [][Next]_vars

-----------------------------------------------------------------------------
(* Properties *)

\* The artifacts, the outcomes and the locals of execute() have their types.
TypeOK ==
    /\ alive \in BOOLEAN /\ launched \in BOOLEAN
    /\ outcome \in Outcomes \cup {NoOutcome}
    /\ at \in {"prepare", "check", "run", "read", "publish", "diagnose", "finish", "returned",
               "raised"}
    /\ scratch \in Contents /\ answer \in Contents
    /\ reason \in Reasons \cup {"none"}
    /\ files \in [prompt: BOOLEAN, output: {"none", "empty", "note", "published"},
                  result: BOOLEAN, diagnostic: {"none", "text", "bytes"},
                  record: {"none", "SUCCESS", "FAILED"}]
    /\ execution \in Executions \cup {NoExecution}

\* README.md:165: a result from a timeout or a failed finalization never gets the role of
\* the typed result, at no moment, whatever interrupts the adapter; one that has the role
\* was good, its work completed in time, and nobody can write another.
TypedResultIsAccepted ==
    files.result => Acceptable(outcome) /\ answer = "valid" /\ ~alive /\ files.diagnostic = "none"

\* The record on disk and the files agree whenever there is a record.
RecordMatchesResult == files.record # "none" => (files.record = "SUCCESS" <=> files.result)

\* The files of an attempt never claim more than was done, at no moment of the adapter and
\* wherever it is cut off.
FilesTellTheTruth == TypedResultIsAccepted /\ RecordMatchesResult

\* The adapter keeps the contract of an agent executor: every execution it returns is one
\* that can be constructed, "not started" is only said when no process was launched, and a
\* failure that the lifecycle trusts, after which it compares the workspace and may let the
\* run fail cleanly, leaves nobody of the invocation behind.
Agent == INSTANCE AgentContract WITH
    execution <- IF at = "raised" THEN [status |-> "RAISED", start |-> "none", category |-> "NONE"]
                 ELSE execution
AgentContractImplemented == Agent!AgentSpec
=============================================================================
