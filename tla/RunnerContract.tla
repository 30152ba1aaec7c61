---------------------------- MODULE RunnerContract ----------------------------
(***************************************************************************)
(* What SubprocessCodexRunner.run (providers/codex_cli/process.py)         *)
(* promises its caller, the Codex adapter: nothing is launched once an     *)
(* outcome is handed over, what was launched may die out at any time, and  *)
(* the outcome is true of the group when it claims something about it.     *)
(* ProcessSupervision implements this specification; CodexExecution is     *)
(* built on it.                                                            *)
(***************************************************************************)

VARIABLES
    alive,      \* the process group of the invocation has a live member
    outcome     \* what run() returned or raised

(* failed: transport_failure is set.  expired: the finalization window ran  *)
(* out.  confirmed: tree_termination_confirmed.  success: the exit code is 0.*)
(* completion, message: observed before the deadline, by the evidence.      *)
Outcomes == [kind: {"not-launched", "returned", "timed-out", "raised"},
             failed: BOOLEAN, expired: BOOLEAN, confirmed: BOOLEAN, success: BOOLEAN,
             completion: BOOLEAN, message: BOOLEAN]
NoOutcome == [kind |-> "none", failed |-> FALSE, expired |-> FALSE, confirmed |-> FALSE,
              success |-> FALSE, completion |-> FALSE, message |-> FALSE]

\* The adapter takes the result file of such an outcome for an answer.
Acceptable(o) ==
    /\ o.kind = "returned" /\ ~o.failed
    /\ o.success /\ o.completion /\ o.message

\* A confirmed termination, and an acceptable outcome, mean that the group is gone.
\* A returned outcome that is not confirmed says that it failed.
Promised(o) ==
    /\ o.confirmed \/ Acceptable(o) \/ o.kind = "not-launched" => ~alive
    /\ o.kind = "returned" /\ ~o.confirmed => o.failed
    /\ o.expired => o.failed

-----------------------------------------------------------------------------

ContractInit == alive = FALSE /\ outcome = NoOutcome

LaunchGroup == outcome = NoOutcome /\ ~alive /\ alive' = TRUE /\ UNCHANGED outcome

GroupDies == alive /\ alive' = FALSE /\ UNCHANGED outcome

HandOver ==
    /\ outcome = NoOutcome
    /\ outcome' \in Outcomes
    /\ Promised(outcome')
    /\ UNCHANGED alive

ContractNext == LaunchGroup \/ GroupDies \/ HandOver
ContractSpec == ContractInit /\ [][ContractNext]_<<alive, outcome>>
=============================================================================
