----------------------------- MODULE Vocabulary -----------------------------
(***************************************************************************)
(* The typed vocabulary of a run: workflow states, attempt phases and      *)
(* statuses, stage outcomes, and the transition table every durable change *)
(* of a run record goes through (ticket_automation/models.py).             *)
(***************************************************************************)

WorkflowState ==
    {"PREPARING", "PREPARED", "IMPLEMENTING", "VERIFYING", "REVIEWING",
     "CORRECTION_PENDING", "CORRECTING", "REPORTING",
     "READY_FOR_HUMAN", "HUMAN_REQUIRED", "FAILED"}

TerminalStates == {"READY_FOR_HUMAN", "HUMAN_REQUIRED", "FAILED"}

\* PHASE_DEFINITIONS, split by writes_target_repository; the read-only phases
\* are exactly the ones with automatically_retry_interrupted.  A phase and the
\* workflow state that runs it have the same name (active_state).
WritablePhases == {"IMPLEMENTING", "CORRECTING"}
ReadOnlyPhases == {"PREPARING", "VERIFYING", "REVIEWING", "REPORTING"}
AttemptPhase   == WritablePhases \cup ReadOnlyPhases

AttemptStatus == {"STARTED", "COMPLETED", "HUMAN_REQUIRED", "FAILED"}
StageOutcome  == {"COMPLETED", "CORRECTION_REQUIRED", "HUMAN_REQUIRED", "FAILED"}

\* Mutant: the outcome is taken for a status as it is.
BugStatusOf(outcome) == outcome

\* ATTEMPT_STATUS_BY_STAGE_OUTCOME: a stage that asks for a correction has
\* done its own work, so its attempt is COMPLETED.
StatusOf(outcome) ==
    IF outcome = "CORRECTION_REQUIRED" THEN "COMPLETED" ELSE outcome

ForwardTransitions ==
    { <<"PREPARING", "PREPARED">>,
      <<"PREPARED", "IMPLEMENTING">>,
      <<"IMPLEMENTING", "VERIFYING">>,
      <<"VERIFYING", "REVIEWING">>,   <<"VERIFYING", "CORRECTION_PENDING">>,
      <<"REVIEWING", "REPORTING">>,   <<"REVIEWING", "CORRECTION_PENDING">>,
      <<"CORRECTION_PENDING", "CORRECTING">>,
      <<"CORRECTING", "VERIFYING">>,
      <<"REPORTING", "READY_FOR_HUMAN">> }

\* validate_workflow_transition: every non-terminal state may also stop in
\* HUMAN_REQUIRED or FAILED; nothing leaves a terminal state.
LegalTransition(current, requested) ==
    \/ <<current, requested>> \in ForwardTransitions
    \/ /\ current \in WorkflowState \ TerminalStates
       /\ requested \in {"HUMAN_REQUIRED", "FAILED"}

\* _COMPLETED_TRANSITIONS: where a completed stage sends the run.
CompletedTransition ==
    [ PREPARING    |-> "PREPARED",
      IMPLEMENTING |-> "VERIFYING",
      VERIFYING    |-> "REVIEWING",
      REVIEWING    |-> "REPORTING",
      CORRECTING   |-> "VERIFYING",
      REPORTING    |-> "READY_FOR_HUMAN" ]

\* _requested_state_for_outcome, with the stop classify_stage_stop derives
\* from a HUMAN_REQUIRED or FAILED outcome.
RequestedState(phase, outcome) ==
    CASE outcome = "COMPLETED"           -> CompletedTransition[phase]
      [] outcome = "CORRECTION_REQUIRED" -> "CORRECTION_PENDING"
      [] OTHER                           -> outcome
=============================================================================
