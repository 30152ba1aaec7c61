----------------------------- MODULE Lifecycle -----------------------------
(***************************************************************************)
(* One run of a ticket, as workflow.py and the lifecycle stage handlers    *)
(* drive it: controller processes that load the run record, take the       *)
(* repository lock, decide whether a resume is safe, and then loop over    *)
(* start attempt / stage / complete attempt / save transition until the    *)
(* run is terminal.                                                        *)
(*                                                                         *)
(* Durable state is run.json (disk), attempts/ with their results          *)
(* (ledger), final.patch, report.md and the target repository (workspace). *)
(* Everything else dies with its process.  The repository is also written  *)
(* by agents and verification commands while an invocation runs, and by    *)
(* people, or agents that outlived their controller, at any time.          *)
(***************************************************************************)
EXTENDS Evidence

CONSTANTS
    Controllers,    \* processes that may drive the run
    Creator,        \* the one that created it (run_ticket_lifecycle)
    NoController,   \* null: the repository lock is free
    MaxResumes,     \* exploration bound: calls of resume_ticket_lifecycle
    MaxCrashes,     \* exploration bound: controllers that die or cannot record their end
    MaxEdits        \* exploration bound: outside writes to the repository

ASSUME ControllersAssumption ==
    /\ Creator \in Controllers
    /\ NoController \notin Controllers

ASSUME BoundsAssumption ==
    MaxResumes \in Nat /\ MaxCrashes \in Nat /\ MaxEdits \in Nat

VARIABLES
    disk,        \* run.json: state, correction and review rounds
    ledger,      \* attempts/: AttemptRecord by sequence number
    workspace,   \* the target repository
    patch,       \* final.patch: the workspace it was captured from
    report,      \* report.md: the terminal state it shows
    holder,      \* the process whose repository lock is held
    pc,          \* where each controller process is
    mem,         \* the RunRecord each controller works on
    att,         \* index of the attempt it started, 0 for none
    decision,    \* what its current stage decided
    resumes, crashes, edits

durable  == <<disk, ledger, workspace, patch, report>>
budgets  == <<resumes, crashes, edits>>
vars     == <<disk, ledger, workspace, patch, report, holder,
              pc, mem, att, decision, resumes, crashes, edits>>

RunRecord == [state : WorkflowState, correction : Nat, review : Nat]

\* The part of a StageDecision that is persisted: the attempt's completion and
\* the round counters it carries into the run record.
Decision == [outcome    : StageOutcome,
             after      : Fingerprints,
             correction : Nat,
             review     : Nat]

NewRun     == [state |-> "PREPARING", correction |-> 0, review |-> 0]
NoDecision == [outcome |-> "FAILED", after |-> NoFingerprint,
               correction |-> 0, review |-> 0]
NoReport   == "NONE"

ControlPoints ==
    {"idle", "loaded", "locked", "loop", "begin", "executing", "finish",
     "complete", "save", "failing", "publish", "release"}

\* Inside _drive_lifecycle, where _drive_lifecycle_safely catches exceptions.
DrivingPoints == {"loop", "begin", "executing", "finish", "complete", "save"}

\* The artifacts of the run and the memory of its controllers have their types.
TypeOK ==
    /\ disk \in RunRecord
    /\ ledger \in Seq(AttemptRecord)
    /\ workspace \in Workspaces
    /\ patch \in Fingerprints
    /\ report \in TerminalStates \cup {NoReport}
    /\ holder \in Controllers \cup {NoController}
    /\ pc \in [Controllers -> ControlPoints]
    /\ mem \in [Controllers -> RunRecord]
    /\ att \in [Controllers -> Nat]
    /\ decision \in [Controllers -> Decision]
    /\ resumes \in Nat /\ crashes \in Nat /\ edits \in Nat

-----------------------------------------------------------------------------
(* Helpers *)

Goto(c, point) == pc' = [pc EXCEPT ![c] = point]

\* c stands at `point' with an attempt of one of these phases active.
In(c, point, phases) ==
    /\ pc[c] = point
    /\ att[c] \in DOMAIN ledger
    /\ ledger[att[c]].phase \in phases

Attempt(c) == ledger[att[c]]

\* update_attempt and the stage's result.json: the active attempt's record.
Amend(c, record) == ledger' = [ledger EXCEPT ![att[c]] = record]

\* Mutant: every stage advances the review round.
BugDecide(c, outcome, after, correction) ==
    decision' = [decision EXCEPT ![c] =
        [outcome |-> outcome, after |-> after,
         correction |-> correction, review |-> mem[c].review + 1]]

\* decision_for_stage_result.  A review always advances the review round; the
\* correction round is the stage's own affair.
Decide(c, outcome, after, correction) ==
    decision' = [decision EXCEPT ![c] =
        [outcome    |-> outcome,
         after      |-> after,
         correction |-> correction,
         review     |-> IF Attempt(c).phase = "REVIEWING"
                        THEN mem[c].review + 1 ELSE mem[c].review]]

\* _apply_stage_decision: the record the loop will save.
Decided(c) ==
    [state      |-> RequestedState(mem[c].state, decision[c].outcome),
     correction |-> decision[c].correction,
     review     |-> decision[c].review]

\* complete_stage_attempt: what the decision makes of the attempt's record.
Completed(c) ==
    [Attempt(c) EXCEPT !.status = StatusOf(decision[c].outcome),
                       !.after  = IF decision[c].after = NoFingerprint
                                  THEN @ ELSE decision[c].after]

Unchanged(fingerprint, c) == fingerprint = Attempt(c).before

\* A process that is gone: its memory is of no further use to anybody.
Forget(c) ==
    /\ Goto(c, "idle")
    /\ holder' = IF holder = c THEN NoController ELSE holder
    /\ mem' = [mem EXCEPT ![c] = NewRun]
    /\ att' = [att EXCEPT ![c] = 0]
    /\ decision' = [decision EXCEPT ![c] = NoDecision]

-----------------------------------------------------------------------------
(* resume_ticket_lifecycle: load, lock, then decide whether to resume *)

\* The record is read before the lock is asked for.
LoadRecord(c) ==
    /\ pc[c] = "idle"
    /\ resumes < MaxResumes
    /\ resumes' = resumes + 1
    /\ mem' = [mem EXCEPT ![c] = disk]
    /\ Goto(c, "loaded")
    /\ UNCHANGED <<durable, holder, att, decision, crashes, edits>>

\* Mutant: the lock is taken whether or not somebody has it.
BugAcquireLock(c) ==
    /\ pc[c] = "loaded"
    /\ holder' = c
    /\ Goto(c, "locked")
    /\ UNCHANGED <<durable, mem, att, decision, budgets>>

AcquireLock(c) ==
    /\ pc[c] = "loaded"
    /\ holder = NoController
    /\ holder' = c
    /\ Goto(c, "locked")
    /\ UNCHANGED <<durable, mem, att, decision, budgets>>

\* RepositoryLockError: the command fails, nothing was written.  The lock may be
\* refused although no controller has it (RepositoryLock: a probe is enough).
LockBusy(c) ==
    /\ pc[c] = "loaded"
    /\ Forget(c)
    /\ UNCHANGED <<durable, budgets>>

\* A run that was terminal when it was loaded has nothing to resume.
ResumeTerminal(c) ==
    /\ pc[c] = "locked"
    /\ mem[c].state \in TerminalStates
    /\ Goto(c, "release")
    /\ UNCHANGED <<durable, holder, mem, att, decision, budgets>>

\* Mutant: a completed attempt whose transition was not saved is adopted.
BugResumeAccepted(c) ==
    /\ pc[c] = "locked"
    /\ mem[c].state \notin TerminalStates
    /\ Resumable(mem[c], ledger, workspace)
    /\ \/ /\ \E i \in DOMAIN ledger :
                IsLatest(ledger, i, {mem[c].state} \cap DOMAIN CompletedTransition,
                         {"COMPLETED"})
          /\ disk' = [disk EXCEPT !.state = CompletedTransition[mem[c].state]]
          /\ mem' = [mem EXCEPT ![c] = disk']
       \/ UNCHANGED <<disk, mem>>
    /\ Goto(c, "loop")
    /\ UNCHANGED <<ledger, workspace, patch, report, holder, att, decision, budgets>>

ResumeAccepted(c) ==
    /\ pc[c] = "locked"
    /\ mem[c].state \notin TerminalStates
    /\ Resumable(mem[c], ledger, workspace)
    /\ Goto(c, "loop")
    /\ UNCHANGED <<durable, holder, mem, att, decision, budgets>>

\* Mutant: the refusal is published although a terminal record stands.
BugResumeRefused(c) ==
    /\ pc[c] = "locked"
    /\ mem[c].state \notin TerminalStates
    /\ LET next == [disk EXCEPT !.state = "HUMAN_REQUIRED"]
       IN /\ disk' = IF disk.state \in TerminalStates THEN disk ELSE next
          /\ mem' = [mem EXCEPT ![c] = next]
    /\ Goto(c, "publish")
    /\ UNCHANGED <<ledger, workspace, patch, report, holder, att, decision, budgets>>

\* _mark_human_required on the record as it is on disk now.  Policy
\* compatibility, the run's own artifacts and the repository inspection can
\* always turn out unusable, so a problem is possible in every state.
ResumeRefused(c) ==
    /\ pc[c] = "locked"
    /\ mem[c].state \notin TerminalStates
    /\ disk.state \notin TerminalStates
    /\ disk' = [disk EXCEPT !.state = "HUMAN_REQUIRED"]
    /\ mem' = [mem EXCEPT ![c] = disk']
    /\ Goto(c, "publish")
    /\ UNCHANGED <<ledger, workspace, patch, report, holder, att, decision, budgets>>

\* Nothing in resume_ticket_lifecycle catches what the inspection or the
\* refusal raises: transition_to for a record that is terminal already, the
\* save before or after the file is replaced.  The command ends.
ResumeRaises(c) ==
    /\ pc[c] = "locked"
    /\ mem[c].state \notin TerminalStates
    /\ \/ UNCHANGED disk
       \/ disk.state \notin TerminalStates /\ disk' = [disk EXCEPT !.state = "HUMAN_REQUIRED"]
    /\ Goto(c, "release")
    /\ UNCHANGED <<ledger, workspace, patch, report, holder, mem, att, decision, budgets>>

-----------------------------------------------------------------------------
(* _drive_lifecycle: one iteration of the loop *)

\* States without an attempt: PREPARED and CORRECTION_PENDING.
ImmediateTarget(rec) ==
    CASE rec.state = "PREPARED" -> "IMPLEMENTING"
      [] rec.state # "PREPARED" /\ rec.correction >= MaxCorrectionRounds -> "HUMAN_REQUIRED"
      [] OTHER -> "CORRECTING"

Immediate(rec) == [rec EXCEPT !.state = ImmediateTarget(rec)]

ImmediateTransition(c) ==
    /\ pc[c] = "loop"
    /\ mem[c].state \in {"PREPARED", "CORRECTION_PENDING"}
    /\ LET next == Immediate(mem[c])
       IN /\ disk' = next
          /\ mem' = [mem EXCEPT ![c] = next]
          /\ Goto(c, IF next.state \in TerminalStates THEN "publish" ELSE "loop")
    /\ UNCHANGED <<ledger, workspace, patch, report, holder, att, decision, budgets>>

\* _start_stage_attempt: the loop itself captures the workspace for the
\* read-only phases; a failed capture is recorded as no fingerprint.
NewAttempt(phase, fingerprint) ==
    [phase |-> phase, status |-> "STARTED",
     before |-> fingerprint, after |-> NoFingerprint,
     started |-> FALSE, verdict |-> "NONE", round |-> 0]

StartAttempt(c) ==
    /\ pc[c] = "loop"
    /\ mem[c].state \in AttemptPhase
    /\ \E fingerprint \in IF mem[c].state \in WritablePhases
                           THEN {NoFingerprint} ELSE Capture(workspace) :
          ledger' = Append(ledger, NewAttempt(mem[c].state, fingerprint))
    /\ att' = [att EXCEPT ![c] = Len(ledger) + 1]
    /\ Goto(c, "begin")
    /\ UNCHANGED <<disk, workspace, patch, report, holder, mem, decision, budgets>>

\* complete_stage_attempt: the active attempt must still be STARTED.  Reporting
\* alone has saved its transition before its attempt is completed.
CompleteAttempt(c) ==
    /\ In(c, "complete", AttemptPhase)
    /\ Attempt(c).status = "STARTED"
    /\ Amend(c, Completed(c))
    /\ LET settled == Attempt(c).phase = "REPORTING"
       IN /\ mem' = [mem EXCEPT ![c] = IF settled THEN Decided(c) ELSE @]
          /\ Goto(c, IF settled THEN "publish" ELSE "save")
    /\ UNCHANGED <<disk, workspace, patch, report, holder, att, decision, budgets>>

\* _save_lifecycle_run
SaveTransition(c) ==
    /\ In(c, "save", AttemptPhase)
    /\ LegalTransition(mem[c].state, Decided(c).state)
    /\ disk' = Decided(c)
    /\ IF Attempt(c).phase = "REPORTING"
       THEN Goto(c, "complete") /\ UNCHANGED mem
       ELSE /\ mem' = [mem EXCEPT ![c] = Decided(c)]
            /\ Goto(c, IF Decided(c).state \in TerminalStates
                       THEN "publish" ELSE "loop")
    /\ UNCHANGED <<ledger, workspace, patch, report, holder, att, decision, budgets>>

-----------------------------------------------------------------------------
(* Stages.  Each begins by checking its evidence and the workspace (begin),*)
(* hands over to commands or an agent (executing), inspects what they left *)
(* behind and decides; then the workspace is captured for the attempt      *)
(* record (finish).  The stages reload run.json and raise unless it is in  *)
(* the state they run in; reporting trusts the controller's own record.    *)

StateIs(phase) == disk.state = phase

\* The stage gives up before any invocation; the final capture follows.
StopBeforeStart(c, outcome, correction) ==
    /\ Decide(c, outcome, NoFingerprint, correction)
    /\ Goto(c, "finish")

StageFrame == UNCHANGED <<disk, workspace, report, holder, mem, att, budgets>>

\* run_baseline_verification_stage and _run_verification_stage up to the first
\* command.
BeginVerification(c) ==
    /\ In(c, "begin", {"PREPARING", "VERIFYING"})
    /\ StateIs(Attempt(c).phase)
    /\ \E seen \in Capture(workspace) :
          IF /\ seen \notin Unsafe \cup {NoFingerprint}
             /\ Unchanged(seen, c)
             /\ Attempt(c).phase = "PREPARING" => seen = Baseline
          THEN Goto(c, "executing") /\ UNCHANGED <<ledger, decision>>
          ELSE /\ StopBeforeStart(c, "HUMAN_REQUIRED", mem[c].correction)
               /\ Amend(c, [Attempt(c) EXCEPT !.verdict = "ERROR",
                                              !.round = disk.correction])
    /\ UNCHANGED patch
    /\ StageFrame

\* PreparationStageHandler turns the stage's own exceptions, a run record in
\* another state among them, into a decision that records no fingerprint.
PreparationRaises(c) ==
    /\ In(c, "begin", {"PREPARING"}) \/ In(c, "executing", {"PREPARING"})
    /\ Decide(c, "HUMAN_REQUIRED", NoFingerprint, mem[c].correction)
    /\ Goto(c, "complete")
    /\ UNCHANGED <<ledger, patch>>
    /\ StageFrame

\* _run_round and _finish_stage: all commands ran; a workspace that is not the
\* one they started from makes the round an error whatever they returned.
VerificationOutcome(phase, status) ==
    CASE status = "PASS" -> "COMPLETED"
      [] status = "FAIL" /\ phase = "VERIFYING" -> "CORRECTION_REQUIRED"
      [] OTHER -> "HUMAN_REQUIRED"

RunVerification(c) ==
    /\ In(c, "executing", {"PREPARING", "VERIFYING"})
    /\ \E seen \in Capture(workspace), result \in {"PASS", "FAIL", "ERROR"} :
          LET status == IF Unchanged(seen, c) THEN result ELSE "ERROR"
          IN /\ Amend(c, [Attempt(c) EXCEPT !.verdict = status,
                                            !.round = disk.correction])
             /\ Decide(c, VerificationOutcome(Attempt(c).phase, status),
                       NoFingerprint, mem[c].correction)
    /\ Goto(c, "finish")
    /\ UNCHANGED patch
    /\ StageFrame

\* _run_review_stage up to the invocation: the reviewed source must be the one
\* the latest completed verification passed and left behind.
BeginReview(c) ==
    /\ In(c, "begin", {"REVIEWING"})
    /\ StateIs("REVIEWING")
    /\ \E seen \in Capture(workspace) :
          IF /\ seen \notin Unsafe \cup {NoFingerprint}
             /\ Unchanged(seen, c)
             /\ VerifiedSource(ledger, {"PASS"}, seen)
          THEN /\ Amend(c, [Attempt(c) EXCEPT !.started = TRUE])
               /\ Goto(c, "executing") /\ UNCHANGED decision
          ELSE /\ StopBeforeStart(c, "HUMAN_REQUIRED", mem[c].correction)
               /\ UNCHANGED ledger
    /\ UNCHANGED patch
    /\ StageFrame

\* A review that came back, as <<verdict, outcome>>: a failed invocation leaves
\* no verdict and an invalid or uncertain one needs a human; required findings
\* are corrected only when all of them are eligible.
ReviewResults ==
    { <<"NONE", "FAILED">>, <<"NONE", "HUMAN_REQUIRED">>,
      <<"PASS", "COMPLETED">>,
      <<"CORRECTIONS_REQUIRED", "CORRECTION_REQUIRED">>,
      <<"CORRECTIONS_REQUIRED", "HUMAN_REQUIRED">>,
      <<"HUMAN_REQUIRED", "HUMAN_REQUIRED">> }

RunReview(c) ==
    /\ In(c, "executing", {"REVIEWING"})
    /\ \E seen \in Capture(workspace), result \in ReviewResults :
          /\ Amend(c, [Attempt(c) EXCEPT !.verdict = result[1]])
          /\ Decide(c, IF Unchanged(seen, c) THEN result[2] ELSE "HUMAN_REQUIRED",
                    NoFingerprint, mem[c].correction)
    /\ Goto(c, "finish")
    /\ UNCHANGED patch
    /\ StageFrame

\* What authorises a writable invocation to start from the workspace `seen'.
ImplementationMayStart(seen) ==
    /\ BaselineEvidence(ledger)
    /\ seen = Baseline

\* Mutant: a correction starts from whatever safe workspace it finds.
BugCorrectionMayStart(seen) ==
    /\ disk.correction < MaxCorrectionRounds
    /\ BaselineEvidence(ledger)
    /\ seen \notin Unsafe \cup {NoFingerprint}

CorrectionMayStart(seen) ==
    /\ disk.correction < MaxCorrectionRounds
    /\ BaselineEvidence(ledger)
    /\ VerifiedSource(ledger, {"PASS", "FAIL"}, seen)
    /\ seen \notin Unsafe

\* _run_implementation_stage and plan_pending_correction with
\* _run_correction_stage, through the starting checks of
\* GuardedWritableOperation.execute.  A planner without a cause raises.  A
\* correction ticket that cannot be written stops for a human, an executor
\* without the required capabilities fails the stage; neither starts an agent.
BeginWritable(c) ==
    /\ In(c, "begin", WritablePhases)
    /\ StateIs(Attempt(c).phase)
    /\ Attempt(c).phase = "CORRECTING" => \E i \in DOMAIN ledger : PlannedCause(ledger, i)
    /\ \E seen \in Capture(workspace) :
          LET allowed == IF Attempt(c).phase = "IMPLEMENTING"
                         THEN ImplementationMayStart(seen) ELSE CorrectionMayStart(seen)
          IN \/ /\ allowed
                /\ Amend(c, [Attempt(c) EXCEPT !.before = seen, !.started = TRUE])
                /\ Goto(c, "executing") /\ UNCHANGED decision
             \/ \E outcome \in {"HUMAN_REQUIRED"} \cup (IF allowed THEN {"FAILED"} ELSE {}) :
                   /\ Amend(c, [Attempt(c) EXCEPT !.before = seen])
                   /\ StopBeforeStart(c, outcome, mem[c].correction)
    /\ UNCHANGED patch
    /\ StageFrame

\* The outcomes of a writable invocation: anything can need a human (a BLOCKED
\* agent, a new virtual environment, a timeout, an untrusted result); success
\* needs a trusted workspace, which an implementation must also have changed;
\* a clean failure needs one that is provably untouched.
WritableOutcomes(c, seen) ==
    {"HUMAN_REQUIRED"}
    \cup (IF /\ seen \notin Unsafe \cup {NoFingerprint}
             /\ Attempt(c).phase = "IMPLEMENTING" => seen # Baseline
          THEN {"COMPLETED"} ELSE {})
    \cup (IF seen \notin Unsafe \cup {NoFingerprint} /\ Unchanged(seen, c)
          THEN {"FAILED"} ELSE {})

\* A completed correction uses up a round, and so does a BLOCKED one.
CorrectionRounds(c, outcome) ==
    IF Attempt(c).phase = "IMPLEMENTING" THEN {mem[c].correction}
    ELSE CASE outcome = "COMPLETED"      -> {disk.correction + 1}
           [] outcome = "HUMAN_REQUIRED" -> {mem[c].correction, disk.correction + 1}
           [] OTHER                      -> {mem[c].correction}

\* The agent is back: the after-capture is recorded on the attempt before the
\* controller completes it, and no second one is taken.
RunWritable(c) ==
    /\ In(c, "executing", WritablePhases)
    /\ \E seen \in Capture(workspace) :
         \E outcome \in WritableOutcomes(c, seen) :
          \E correction \in CorrectionRounds(c, outcome) :
             /\ Amend(c, [Attempt(c) EXCEPT !.after = seen])
             /\ Decide(c, outcome, seen, correction)
    /\ Goto(c, "complete")
    /\ UNCHANGED patch
    /\ StageFrame

\* _finish_stage and _finish: the fingerprint the attempt will record is
\* captured once more, after the decision.  A writable stage that never started
\* its agent fails only if the workspace is still safe.
Settled(c, seen) ==
    [decision[c] EXCEPT !.after = seen,
                        !.outcome = IF /\ Attempt(c).phase \in WritablePhases
                                       /\ seen \in Unsafe \cup {NoFingerprint}
                                    THEN "HUMAN_REQUIRED" ELSE @]

Finish(c) ==
    /\ In(c, "finish", AttemptPhase \ {"REPORTING"})
    /\ \E seen \in Capture(workspace) :
          decision' = [decision EXCEPT ![c] = Settled(c, seen)]
    /\ Goto(c, "complete")
    /\ UNCHANGED <<ledger, patch>>
    /\ StageFrame

\* HandoffAcceptanceService.accept up to the patch: reject with what was seen,
\* or go on to capture.  The attempt must have started from this workspace.
BeginHandoff(c) ==
    /\ In(c, "begin", {"REPORTING"})
    /\ \E seen \in Capture(workspace) :
          IF Unchanged(seen, c) /\ HandoffAccepts(mem[c], ledger, seen)
          THEN Goto(c, "executing") /\ UNCHANGED decision
          ELSE /\ Decide(c, "HUMAN_REQUIRED", seen, mem[c].correction)
               /\ Goto(c, "save")
    /\ UNCHANGED <<ledger, patch>>
    /\ StageFrame

\* FinalPatchCapture.capture: a failure rejects, with or without a new patch.
CapturePatch(c) ==
    /\ In(c, "executing", {"REPORTING"})
    /\ \/ /\ patch' = workspace
          /\ Goto(c, "finish") /\ UNCHANGED decision
       \/ /\ patch' \in {patch, workspace}
          /\ Decide(c, "HUMAN_REQUIRED", NoFingerprint, mem[c].correction)
          /\ Goto(c, "save")
    /\ UNCHANGED ledger
    /\ StageFrame

\* Mutant: the workspace is not captured again after the patch.
BugRecheckHandoff(c) ==
    /\ In(c, "finish", {"REPORTING"})
    /\ Decide(c, "COMPLETED", Attempt(c).before, mem[c].correction)
    /\ Goto(c, "save")
    /\ UNCHANGED <<ledger, patch>>
    /\ StageFrame

\* initial_workspace.matches(final_workspace)
RecheckHandoff(c) ==
    /\ In(c, "finish", {"REPORTING"})
    /\ \E seen \in Capture(workspace) :
          Decide(c, IF Unchanged(seen, c) /\ seen # NoFingerprint
                    THEN "COMPLETED" ELSE "HUMAN_REQUIRED",
                 seen, mem[c].correction)
    /\ Goto(c, "save")
    /\ UNCHANGED <<ledger, patch>>
    /\ StageFrame

-----------------------------------------------------------------------------
(* Failures and the end of a controller *)

\* Any step of the loop can raise: an artifact that cannot be written, a stage
\* that finds the run record in another state, a planner without a cause.  When
\* the file was replaced before the write failed, the step has happened and the
\* exception follows it.  The locals of the loop are gone with it.
StageRaises(c) ==
    /\ pc[c] \in DrivingPoints
    /\ Goto(c, "failing")
    /\ att' = [att EXCEPT ![c] = 0]
    /\ decision' = [decision EXCEPT ![c] = NoDecision]
    /\ UNCHANGED <<durable, holder, mem, budgets>>

\* Mutant: an exception fails the run in every state.
BugRecordFailureAsFailed(c) ==
    /\ pc[c] = "failing"
    /\ LET next == IF disk.state \in TerminalStates THEN disk
                   ELSE [disk EXCEPT !.state = "FAILED"]
       IN disk' = next /\ mem' = [mem EXCEPT ![c] = next]
    /\ Goto(c, "publish")
    /\ UNCHANGED <<ledger, workspace, patch, report, holder, att, decision, budgets>>

\* Mutant: a terminal record does not stand.
BugRecordFailureOverTerminal(c) ==
    /\ pc[c] = "failing"
    /\ LET stop == IF disk.state \in WritablePhases THEN "HUMAN_REQUIRED" ELSE "FAILED"
           next == [disk EXCEPT !.state = stop]
       IN disk' = next /\ mem' = [mem EXCEPT ![c] = next]
    /\ Goto(c, "publish")
    /\ UNCHANGED <<ledger, workspace, patch, report, holder, att, decision, budgets>>

\* Mutant: the failure is reported but the record is not saved.
BugRecordFailureUnsaved(c) ==
    /\ pc[c] = "failing"
    /\ mem' = [mem EXCEPT ![c] = [disk EXCEPT !.state = "FAILED"]]
    /\ Goto(c, "publish")
    /\ UNCHANGED <<durable, holder, att, decision, budgets>>

\* _controller_failure_result: reload the record; a terminal one stands, and an
\* exception in a writable state leaves the repository to a human.
StopAfterFailure(record) ==
    [record EXCEPT !.state = IF @ \in TerminalStates THEN @
                             ELSE IF @ \in WritablePhases THEN "HUMAN_REQUIRED" ELSE "FAILED"]

RecordFailure(c) ==
    /\ pc[c] = "failing"
    /\ disk' = StopAfterFailure(disk)
    /\ mem' = [mem EXCEPT ![c] = disk']
    /\ Goto(c, "publish")
    /\ UNCHANGED <<ledger, workspace, patch, report, holder, att, decision, budgets>>

\* Loading the record, classifying the failure or saving the stop raises in its
\* turn, before or after the file is replaced.  The exception ends the command
\* without a report, and the run may be left open; a controller that does so is
\* counted with those that die.  A resume first enters _controller_failure_result
\* once more; a second try that succeeds is RecordFailure.
RecordFailureRaises(c) ==
    /\ pc[c] = "failing"
    /\ crashes < MaxCrashes
    /\ crashes' = crashes + 1
    /\ disk' \in {disk, StopAfterFailure(disk)}
    /\ Goto(c, "release")
    /\ UNCHANGED <<ledger, workspace, patch, report, holder, mem, att, decision, resumes, edits>>

\* Mutant: a report that cannot be written ends the process with the lock open
\* in a parent that lives on.
BugPublishReport(c) ==
    /\ pc[c] = "publish"
    /\ \/ report' = mem[c].state /\ Goto(c, "release")
       \/ UNCHANGED report /\ Goto(c, "idle")
    /\ UNCHANGED <<disk, ledger, workspace, patch, holder, mem, att, decision, budgets>>

\* _publish_terminal_report: best effort, once per controller exit.
PublishReport(c) ==
    /\ pc[c] = "publish"
    /\ report' \in {report, mem[c].state}
    /\ Goto(c, "release")
    /\ UNCHANGED <<disk, ledger, workspace, patch, holder, mem, att, decision, budgets>>

ReleaseLock(c) ==
    /\ pc[c] = "release"
    /\ Forget(c)
    /\ UNCHANGED <<durable, budgets>>

\* The process dies, is interrupted, or loses the ownership of its run
\* directory and stops without another write; the operating system drops its
\* lock in each case.
Crash(c) ==
    /\ pc[c] # "idle"
    /\ crashes < MaxCrashes
    /\ crashes' = crashes + 1
    /\ Forget(c)
    /\ UNCHANGED <<durable, resumes, edits>>

-----------------------------------------------------------------------------
(* The repository's other writers *)

\* Commands or an agent at work under a live controller.
InvocationWrites(c) ==
    /\ In(c, "executing", AttemptPhase \ {"REPORTING"})
    /\ workspace' \in Workspaces \ {workspace}
    /\ UNCHANGED <<disk, ledger, patch, report, holder, pc, mem, att, decision, budgets>>

\* A person, or an agent whose controller died.
Edit ==
    /\ edits < MaxEdits
    /\ edits' = edits + 1
    /\ workspace' \in Workspaces \ {workspace}
    /\ UNCHANGED <<disk, ledger, patch, report, holder, pc, mem, att, decision,
                   resumes, crashes>>

-----------------------------------------------------------------------------
\* run_ticket_lifecycle has created the run under its lock.
Init ==
    /\ disk = NewRun
    /\ ledger = <<>>
    /\ workspace = Baseline
    /\ patch = NoFingerprint
    /\ report = NoReport
    /\ holder = Creator
    /\ pc = [c \in Controllers |-> IF c = Creator THEN "loop" ELSE "idle"]
    /\ mem = [c \in Controllers |-> NewRun]
    /\ att = [c \in Controllers |-> 0]
    /\ decision = [c \in Controllers |-> NoDecision]
    /\ resumes = 0 /\ crashes = 0 /\ edits = 0

Resume(c) ==
    \/ AcquireLock(c) \/ LockBusy(c)
    \/ ResumeTerminal(c) \/ ResumeAccepted(c) \/ ResumeRefused(c) \/ ResumeRaises(c)

Stage(c) ==
    \/ BeginVerification(c) \/ PreparationRaises(c) \/ RunVerification(c)
    \/ BeginReview(c) \/ RunReview(c)
    \/ BeginWritable(c) \/ RunWritable(c)
    \/ Finish(c)
    \/ BeginHandoff(c) \/ CapturePatch(c) \/ RecheckHandoff(c)

Drive(c) ==
    \/ ImmediateTransition(c) \/ StartAttempt(c)
    \/ Stage(c)
    \/ CompleteAttempt(c) \/ SaveTransition(c)
    \/ StageRaises(c) \/ RecordFailure(c) \/ RecordFailureRaises(c)
    \/ PublishReport(c) \/ ReleaseLock(c)

Next ==
    \/ \E c \in Controllers :
          LoadRecord(c) \/ Resume(c) \/ Drive(c) \/ InvocationWrites(c) \/ Crash(c)
    \/ Edit

Spec == Init /\ [][Next]_vars

\* A controller that is running keeps running: the loop never waits, commands
\* have a timeout and agents a deadline.  Nobody has to resume, edit or crash.
Fairness == \A c \in Controllers : WF_vars(Resume(c) \/ Drive(c))

FairSpec == Spec /\ Fairness
=============================================================================
