----------------------------- MODULE AgentContract -----------------------------
(***************************************************************************)
(* What an AgentExecutor promises the guarded writable operation: it       *)
(* launches at most one invocation and answers once, with a valid          *)
(* execution or by raising.  An answer that claims that nothing was        *)
(* launched, or that the operation trusts to be an end, is true of the     *)
(* invocation's processes.  CodexExecution implements this specification;  *)
(* GuardedWrite is built on it.                                            *)
(***************************************************************************)
EXTENDS AgentVocabulary

VARIABLES
    alive,      \* a process group of the invocation has a live member
    launched,   \* a process was started
    execution   \* what execute() returned, or that it raised

Raised == [status |-> "RAISED", start |-> "none", category |-> "NONE"]

AgentInit == alive = FALSE /\ launched = FALSE /\ execution = NoExecution

LaunchAgent ==
    /\ execution = NoExecution /\ ~launched
    /\ alive' = TRUE /\ launched' = TRUE
    /\ UNCHANGED execution

AgentDies == alive /\ alive' = FALSE /\ UNCHANGED <<launched, execution>>

AgentReturns ==
    /\ execution = NoExecution
    /\ execution' \in Executions
    /\ ValidExecution(execution')
    /\ execution'.start = "NOT_STARTED" => ~launched
    /\ execution'.category \notin UntrustedCompletion => ~alive
    /\ UNCHANGED <<alive, launched>>

AgentRaises ==
    /\ execution = NoExecution
    /\ execution' = Raised
    /\ UNCHANGED <<alive, launched>>

AgentNext == LaunchAgent \/ AgentDies \/ AgentReturns \/ AgentRaises
AgentSpec == AgentInit /\ [][AgentNext]_<<alive, launched, execution>>
=============================================================================
