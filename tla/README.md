# TicketAutomation in TLA+

TicketAutomation takes a ticket through preparation, implementation by a coding
agent, deterministic verification, independent review, bounded corrections and a
handoff to a human. The controller is one process; what makes it hard is
everything around it: the process can die between any two writes, another process
can resume the same run, agents and people write to the repository while the
controller looks at it, and each conclusion is drawn from files written earlier.
This directory models that behaviour, checks it with TLC and proves the main
results with TLAPS. Paths below are relative to `src/ticket_automation/`.

## Inventory

| Part (source) | State it keeps | Operations | What makes it correct |
| --- | --- | --- | --- |
| Vocabulary (`models.py`, `application/lifecycle/contracts.py`) | none | transition table, outcome mapping | durable changes follow the table, terminal is final |
| Lifecycle controller (`workflow.py`, `application/lifecycle/handlers.py`, `failure_classification.py`) | `run.json`, its copy in memory, the active attempt | run, resume, loop, exceptions, report | evidence for what is delivered, nothing adopted, the run ends |
| Resume safety (`application/lifecycle/resume.py`) | none | decide whether a loaded run may go on | no work over an interrupted write or an unexpected workspace |
| Attempt ledger (`attempts.py`) | `attempts/NNN-phase/attempt.json` | start, update, complete, load, latest | one controller-owned record per attempt, append-only, completion final |
| Verification (`verification.py`, `verification_evidence.py`) | `result.json` of an attempt | baseline round, verification round | a PASS is about one unchanged source |
| Review (`review.py`) | `result.json` | check source, invoke, classify | a PASS is about the verified source |
| Implementation, correction (`implementation.py`, `corrections.py`, `correction_planner.py`) | attempt, correction ticket | check start, invoke, classify | starts from the source it is about; rounds are bounded |
| Guarded writable operation (`application/guarded_writable_operation.py`, `workspace_guard.py`) | attempt, guard evidence | capture, execute, audit | a failure is clean only if the workspace is provably untouched |
| Handoff acceptance (`application/handoff_acceptance.py`, `infrastructure/final_patch.py`) | `final.patch` | policy, capture, recheck | delivers the verified and reviewed source |
| Repository lock (`locking.py`) | OS lock, metadata file | acquire, update, release, probe | one owner, documented, never stranded |
| Snapshots (`git_safety.py`, `git.py`) | none | capture, compare | fingerprint identifies the repository state |
| Run creation (`runs.py`, `run_ownership.py`, `resolved_config.py`, `config.py`, `preflight.py`) | run directory, policy, baseline | reserve, copy, capture, check ownership | no half-made run is taken for a run |
| Persistence and codecs (`persistence.py`, `*_codecs.py`) | files | atomic replace, exclusive create | old or new content, never a mixture |
| Process supervision (`providers/codex_cli/process.py`) | process group, reader, input and recorder threads, clock | launch, monitor, decide, clean up, return | decides once, by what happened in time; returns; no claim of an end that is not one |
| Output capture (`process.py`, `providers/codex_cli/evidence.py`) | staging file, counters of the reader, helper process | read, store, abort, take stock, publish | what is published is the stream, or says that it is not |
| Codex adapter (`adapter.py`, `failures.py`) | files of the attempt | prepare, run, read, classify, record | a typed result only for accepted work; true claims about the start and the end |
| Agent execution contract (`application/agent_execution.py`) | none | validate executions | what the operation may believe |
| Report, CLI, composition (`presentation/`, `cli.py`, `composition/`) | `report.md` | render, dispatch | shows the durable state |

The parts meet in four places. The controller and its stages share the run
directory: stages write result files, the controller alone writes attempt and run
records, and every later decision reads them back. Controllers, preflight and the
status command share the repository lock. Controllers, agents, verification
commands and people share the target repository, which nothing protects: the code
only compares fingerprints taken at different times. A stage, the guarded operation,
the adapter, the runner and the process tree are stacked on each other: each layer
draws its conclusion from what the one below it returned.

What makes each part hard:

- two controllers with records loaded at different times; a death between any two
  writes; a write that raises after it happened;
- a repository that is captured part by part while somebody writes to it;
- threads that stall: the start recorder past its invocation's deadline, a reader or
  its helper past the cleanup of their capture;
- a deadline that passes while the completion is in the pipe; a process group that
  ignores its signals, forks, or leaves a zombie behind;
- a creation of a run that fails half-way, and a rollback that fails too; directories
  that are replaced and put back between a check and the use of its answer.

## Modules

- `Vocabulary`: states, phases, statuses, outcomes and both transition tables.
- `Evidence`: what the controller concludes from the attempt records: latest
  attempts, baseline and verification evidence, the cause of a correction, the
  guard of resume and the handoff policy. Pure operators over the sequence of
  attempt records; a record carries the verdict of its `result.json`.
- `Lifecycle`: one run. `disk` is `run.json`, `ledger` the attempts, `workspace`
  the target repository, `patch` and `report` the two artifacts, `holder` the
  repository lock; `pc`, `mem`, `att`, `decision` are the memory of each
  controller process and are lost with it. `LoadRecord`, `AcquireLock` and the
  `Resume*` actions are `resume_ticket_lifecycle`; `ImmediateTransition`,
  `StartAttempt`, the stage actions, `CompleteAttempt` and `SaveTransition` are
  one iteration of `_drive_lifecycle`. `RecordFailure` is the stop that an exception
  ends in, `RecordFailureRaises` and `ResumeRaises` are the exceptions that nothing
  catches any more: the lock is given back and the record stays as it is. Each durable write is an action of its
  own, so that a crash, an exception (`StageRaises`) or an outside write can come
  between any two. A stage is cut where the outside can see it: before its
  invocation (`Begin*`), at its end (`Run*`), at the last capture (`Finish`).
- `LifecycleProperties`: the invariants, action properties and liveness
  properties of `Lifecycle`.
- `TicketContract`: the abstract specification: a current source, verified and
  then reviewed, delivered once or given up; any new write or check takes the
  earlier approval back. `LifecycleContract` reads this state off the attempts and
  the run record and states that `Lifecycle` implements it.
- `RepositoryLock`: processes that run, are refused, probe and die around one OS
  lock and its metadata file. In `Lifecycle` the lock is one variable; what this
  module shows of it (exclusive, given back, sometimes refused without an owner)
  is what `Lifecycle` assumes.
- `AttemptCommit`: one attempt record while a writable invocation runs. The start
  recorder of the provider and the controller are two threads; `tracker`, `marked`
  and `errors` are the fields of `_AttemptTracker` they share, `step`, `base` and
  `change` say how far each is in `update_attempt` and `save_attempt`, `fence` is
  the commit fence. `Lifecycle` takes an attempt's updates as the controller's own
  steps; this module shows what the recorder can and cannot do to them. The review
  stage has a recorder without a tracker, which writes nothing else and is left out.
- `ProcessSupervision`: one invocation under `SubprocessCodexRunner.run`. `tree`,
  `pipe` are the processes and their output; `observer`, `reader`, `input`, `recorder`
  the four kinds of threads; `pc`, `look`, `finalizing`, `verdict` the monitor in
  `_monitor`, with an action for each of its reads and each decision; `clean` the
  locals of `_cleanup`, cut at every wait; `clock` ticks between any two steps. The
  reader asks whether it is cancelled, reads, feeds the observer and stores the chunk
  in four steps (`BeginRead`, `Read`, `Observe`, `StoreChunk`), and may stall at each.
- `RunnerContract`: what a caller of the runner may rely on, in two variables
  (is the group alive, what was handed over). `ProcessSupervision` implements it.
- `OutputCapture`: one stream of that invocation, byte by byte: reader thread, helper
  process and cleanup thread, then `_capture_result` and `publish_process_output`.
- `AgentVocabulary`: categories, starts and valid executions. `AgentContract`: what an
  executor promises the operation that calls it.
- `CodexExecution`: `CodexCliAgentExecutor.execute` on top of `RunnerContract`; every
  file operation is a step. It implements `AgentContract`.
- `GuardedWrite`: `GuardedWritableOperation` on top of `AgentContract`: `Associate`,
  the parts of a capture (`Look`, `Scan`), admission (`RefuseUnsafe`,
  `RefuseIncapable`, `Reject`), invocation, evidence, guard and `Judge`, which is
  `_classify` with the validators of the sealed outcomes behind it.
- `RunDirectories`: `create_run_snapshot` with its rollback, the ownership token, and
  the reads of a resume under it. `disk` says which directory is at the path of an
  identifier, `dir` what is in it, so that a directory can be replaced behind a token, at
  any moment. Where the code validates a directory and then writes or unlinks by its
  path, these are two steps (`BeforeWrite` and the write, `CreationRaises` and each
  unlink of `RollBack`, `ValidateMark` and `WriteMark`).
- `RepositoryLockProofs`, `LifecycleProofs`, `AttemptCommitProofs`,
  `ProcessSupervisionProofs`, `OutputCaptureProofs`, `CodexExecutionProofs`,
  `GuardedWriteProofs`, `RunDirectoriesProofs`: theorems, one module for each
  specification.
- `MCLifecycle`, `MCRepositoryLock`, `MCProcess`, `MCRunDirectories`: the instances for
  TLC (`AttemptCommit`, `CodexExecution` and `GuardedWrite` have no constants and
  `OutputCapture` only numbers; they are their own instances).

How they fit together, from the processes up:

    ProcessSupervision  implements  RunnerContract   (checked and proved)
    CodexExecution      uses        RunnerContract
    CodexExecution      implements  AgentContract    (checked and proved)
    GuardedWrite        uses        AgentContract
    Lifecycle           implements  TicketContract   (checked and proved)

The last seam is by reading: the outcomes of `GuardedWrite`, with what its properties
say of the repository and of live processes, are the disjuncts of `WritableOutcomes`
in `Lifecycle`. `EndedMeansQuiet` is why a stage that succeeded or failed cleanly has
no writer left there, and `CleanFailureLeavesRepository` why its workspace is the one
it began with.

Operators named `Bug...` are mutants: versions of a definition with a plausible
mistake, used to see that each property notices one. No specification uses them.

## Abstractions

- In `Lifecycle` a workspace is a value; its fingerprint is the value itself. `Unsafe`
  are those with another branch, HEAD or staging area. Every capture may also fail
  (`NoFingerprint`), and is one step; `GuardedWrite` cuts it into its parts.
- Stop categories, messages and timestamps are left out; the terminal state a
  category leads to is kept.
- Verification commands are one status of the round; review findings are one
  verdict and whether all required findings are eligible for correction.
- Unreadable artifacts, incompatible policies and unusable snapshots make resume
  stop for a human: `ResumeRefused` is enabled in every state.
- Loss of the run directory's ownership ends a controller without a further write;
  it is one of the cases of `Crash`.
- A write that raises after replacing the file is the write's action followed by
  `StageRaises`. A controller whose stop cannot be recorded (`RecordFailureRaises`) is
  counted with the crashes; a resume tries the stop once more (workflow.py:412-420),
  which is the same action whether or not the first try failed.
- `MaxResumes`, `MaxCrashes` and `MaxEdits` bound how often a run is resumed, a
  process dies and somebody writes from outside. They are bounds of exploration
  and no part of the code; `MaxCorrectionRounds` is the resolved policy's and must be
  positive, as `resolved_config.py` demands.
- `ProcessSupervision`: the constants count the clock in one unit, and of most instants
  only the side of the deadline they fall on is kept. Reads that cannot go back (an
  exited process, a thread that is done) and follow each other without a write in
  between are one look. What a JSONL record says is chosen when it is read. A second
  interrupt during cleanup, the runner's path without a deadline, the compatibility
  hooks for test doubles, Windows job objects and its cancellation of blocking I/O are
  left out. So are processes outside the invocation that inherited a pipe, and a
  descriptor that cleanup closes between the reader's look at it and its `os.read`
  (process.py:602-607) and whose number something else gets.
- `OutputCapture`: a read always delivers a full chunk; the write to the helper is in
  order and can stop after any byte.
- `CodexExecution`: schema validation and the search for the executable are choices.
  Exceptions of `run` other than those of the launch, the recorder and an interrupt do
  not occur: the runner turns them into results (`ProcessSupervision`), so that the
  `except Exception` branch at adapter.py:319-366 is left to other runners. An evidence
  snapshot that is missing and one that is incomplete are the same.
- `GuardedWrite`: a repository is a commit, a tree and an environment, two values each;
  all safety violations are one flag. What is written after the operation has ended is
  the lifecycle's concern. The operation forgets its locals when it raises.
- `RunDirectories`: a new directory never has the identity of an earlier one (no reuse
  of inodes). One directory at a time is moved away, for the same other run each time,
  and put back once; `mkdir` and the `stat` that binds the token, a check and each read,
  write or unlink after it are steps of their own. Of an atomic replacement only the
  rename is a step, with the directory that `mkdir(exist_ok)` makes anew
  (persistence.py:182). A rollback takes `unlink(missing_ok)` one file at a time. Of the
  run record only what creation and the end of a run write is kept; the states in
  between are `Lifecycle`'s.
- `restored` and `late` in `RunDirectories` and `sink.missed` in `OutputCapture` are history
  variables: no guard reads them, and they let a property name its exception.

## Runs

| Run | Instance | Shows |
| --- | --- | --- |
| `lifecycle_one_controller` | 1 controller, 3 workspaces (one drifted), 1 correction round, 1 resume, 1 crash, 1 outside edit | `TypeOK`, `ReadyHasEvidence`, `SingleEditIsCaught`, `FailedIsAccountedFor`, `CorrectionAnswersItsCause`, `ReportingEvidenceSuffices`, `DurableTransitionsAreLegal`, `NoAdoption`, and the refinement `ContractImplemented` |
| `lifecycle_two_controllers` | 2 controllers, 2 workspaces, 1 round, 1 resume, 1 crash | `InterruptedWriteStopsRun`, `OnlyTheHolderWrites`, `ReportShowsDurableState` when the resuming process has a stale record |
| `lifecycle_ends` | 1 controller, 2 workspaces, 1 round, 1 resume, 1 crash, fair | `LockIsGivenBack`, `RunEnds` |
| `stale_resume` (violation) | 2 controllers | a terminal record is replaced by a stale resume |
| `repository_lock` | 3 processes, 2 deaths, fair | `MutualExclusion`, `OwnerIsDocumented`, `NeverStranded`, no deadlock |
| `attempt_commit` | finite as it is, fair | `FinalIsFinal`, `EvidenceIsKept`, `PromptAfterRecord`, `CleanMeansRecorded`, `FinalisationEnds` |
| `codex_decisions` | deadline 2, finalization 1, cleanup 1, 3 records, 1 stream | `AcceptedMeansCompleted`, `NoTimelyCompletionIsTimedOut` |
| `codex_cleanup` | deadline, finalization, grace and cleanup 1, 1 record, 1 stream, descendants that leave the group with or without the pipes, fair | `EvidenceIsFinal`, `RunReturns`, and the refinement `RunnerContractImplemented` |
| `codex_adapter` | finite as it is | `FilesTellTheTruth`, and the refinement `AgentContractImplemented` |
| `output_capture` | 5 chunks of 2 bytes, a tail of 4 | `PublishedIsFaithful`, `PublishedIsImmutable` |
| `guarded_write` | finite as it is | `EndedMeansQuiet`, `CleanFailureLeavesRepository`, `SuccessIsWhatIsThere`, `StartsAuthorised`, `Constructible` |
| `run_directories` | 2 creators of two repositories and 1 resume, any two of which take part, 1 identifier, 1 edit | `DrivenRunIsWhole`, `FailedIsNotListed`, `OwnEvidenceOnly`, `CompleteRunIsKept` |

Why these bounds are enough to meet the cases.

- Lifecycle: one correction round already has every transition, a correction whose
  verification fails again and a second request for a correction that the limit turns
  down. One crash and one resume put an interruption between any two writes, and one
  resume of a run that has ended. One edit puts an outside write between any two looks
  at the repository, and the agents' own writes are unbounded while an invocation runs.
  Two source workspaces (the baseline and another) tell "the same" from "not the same";
  the third is a drifted one. With two controllers one of them holds a record loaded at
  any earlier moment and takes the lock after the other has ended, died or failed to
  record its end, at any step. The one crash is a death or a stop that cannot be saved,
  never both in one behaviour; the theorems prove the three properties of that run for
  any number of controllers and crashes.
- Process supervision: three records are a message, a terminal event and one that
  contradicts them, in any order; a deadline of two ticks with a finalization window of
  one has instants before, inside and after the window on either side of the deadline.
  Cleanup needs one tick for each of its waits to end both ways. Everything this
  bounds is proved for all values, the second stream included, except `RunReturns`.
- Output capture: five chunks are more than the tail keeps, so that a gap can open, and
  a chunk of two bytes can be half written.
- Run directories: two creators hold the locks of different repositories and fight for
  one identifier, or a creator meets a resume, next to a directory of an earlier run.
  Two of the three take part in a behaviour, because each property is about one
  controller and what one other does to it; the directory that is moved to a path and
  back brings the third. One edit, of the ticket or of a repository, falls between any
  two looks at it. Any number of controllers, repositories and edits is in the theorems.

Deadlock is checked for the lock; a finished run, invocation or creation has nothing
left to do, so the other runs allow it. No run uses symmetry.

Properties that depend on an assumption state it or their run does.
`DurableTransitionsAreLegal`, `NoAdoption` and `ContractImplemented` are about one
controller at a time: `stale_resume` shows what a second one with a stale record does
to the first of them. `SingleEditIsCaught` says in its own text that a second edit is
needed. `RunEnds` leaves to a resume what is left by a process that dies and by a stop
that cannot be saved. `EvidenceIsFinal` says which results a stalled reader can outlive.
`OwnEvidenceOnly` and `FailedIsNotListed` except a directory that was put back, and these
two and `CompleteRunIsKept` one that came to a path between a look and the act on it
(`late`); `PublishedIsImmutable` and one part of `PublishedIsFaithful` a reader that missed an
acknowledgement; the section on disagreements says what happens there.

## Fairness

`FairSpec` of `Lifecycle` asks for weak fairness of the steps of a controller
process that is inside the program (`Resume(c) \/ Drive(c)`): the loop never waits
for anything but a stage, verification commands have a timeout, agent tasks a
deadline, and the lock is tried once without blocking. Loading a run (somebody has
to type the command), crashes, edits and the writes of an invocation have no
fairness. `FairSpec` of `RepositoryLock` asks for weak fairness of what a process
does once it has begun: writing and removing metadata, formatting an error,
probing, releasing. Nobody is obliged to acquire, and a run that owns the lock
gives it back, which is `LockIsGivenBack` above. `FairSpec` of `AttemptCommit` asks for weak fairness
of the controller and of the recorder inside the fence, where it compares two small
records and renames a file; anywhere else the recorder may stop for ever. It assumes
an invocation with a deadline: without a configured timeout
`_notify_process_start` does wait for its recorder. `FairSpec` of `ProcessSupervision`
asks for weak fairness of the clock and of the monitor's own thread and of nothing
else: processes, readers, helpers, the input writer and the start recorder may each
be stuck for ever, which is what `RunReturns` is about. That is also why `RunEnds` may
assume that an agent stage ends.

## Proofs

TLAPS checks, for every value of the constants that satisfies the named assumptions
(`WorkspacesAssumption`, `RoundsAssumption`, `ControllersAssumption`,
`BoundsAssumption`, `ProcessesAssumption`, `CrashesAssumption`, `TimesAssumption`,
`StreamsAssumption`, `ExplorationAssumption`, `SizesAssumption`, `RunsAssumption`,
`NoneAssumption`), the theorems below. `AttemptCommit`, `CodexExecution` and
`GuardedWrite` have no constants: there TLC exhausts what there is, and the theorems
say why it holds.

### Lock and lifecycle

- `LockTypeCorrect`, `LockIsExclusive`, `LockOwnerDocumented`. The inductive
  invariant says which process has the lock at each control point: a process past
  `_try_lock_file` is the value of `lock`. Mutual exclusion follows at once, and
  the metadata of an owner can then only be touched by itself.
- `LifecycleTypeCorrect`. `TypeOK` needs help for the one place where a record is
  amended: a controller at a stage has an attempt index inside the ledger.
- `LifecycleOnlyHolderWrites`. `HolderInv`: a controller at any point where it may
  write holds the lock. `OnlyTheHolderWrites` follows action by action.
- `LifecycleInterruptedWriteStopsRun`. `QuietInv`: while the holder is in the loop
  between stages no writable attempt is open, because `Resumable` refuses one and
  the loop completes the attempt it started. All stage actions are first reduced to
  one abstract step (`StageStep`: amend the active attempt, decide, move on), so
  that the invariant is proved for that step once.
- `LifecycleReadyHasEvidence`. `EvidenceInv`: a run that is `READY_FOR_HUMAN`, or
  whose holder has been accepted and is about to save, has attempts w < v < r as
  `ApprovedBy` says. `AcceptanceApproves` gets them from the handoff policy;
  `ApprovalSurvives` and `AmendsLog` carry them over every later change of the
  ledger. A stale resume makes such changes too, but a run in a writable state is
  never resumed, so a stale controller replaces the `READY_FOR_HUMAN` record with
  `CORRECTING` before it can start a write that would take the approval away.
- `LifecycleReportIsDurable`. `DurableInv`: a controller about to publish has in
  memory the record that is on disk, and one that saved before completing its
  reporting attempt will. Nobody else is past the loop then, as only the holder is.

The theorems from here to the end of this part have a premise, `[]FreshResumes`: a
process that has got the lock and is about to decide whether to resume has in memory the
record that is on disk. The code does not ensure it with several processes, since the
record is loaded before the lock is taken, and the finding below is the behaviour that
the premise excludes. It does hold when one process creates the run and resumes it
(`OneControllerIsFresh`: nobody else writes between its load and its lock), for any
number of crashes, resumes and rounds; `OneControllerIsSound` states the six properties
for that case without the premise.

- `FreshTransitionsAreLegal`, `FreshRunsAdoptNothing`. `SyncInv`: whoever is in a stage
  or in the loop has the record on disk in memory and works on the last attempt.
  Reporting is the exception, as it saves before it completes its attempt.
- `FreshFailuresAreAccountedFor`. `AccountInv`: a write that nothing accounts for is
  the one at work, or that of a dead controller, and then the record on disk is in a
  writable state, which `Resumable` refuses, or asks for a human.
- `FreshCorrectionsAnswerTheirCause`. `CauseInv`: while a correction is pending on
  disk the last attempt that ended is its cause, and every correction whose agent was
  started answers the attempt before it.
- `FreshSingleEditIsCaught`. `PatchInv`: at each point of reporting the handoff is of
  the reviewed source, and so is the captured patch, or the edit shows in the workspace
  and the recheck will see it, or a second edit has been made.
- `FreshReportingEvidenceSuffices`. `StartedInv`: a completed agent attempt has started
  its agent. `RoundsInv` and `CountInv`: the correction round in the record is the
  number of correcting attempts and within the limit, except in the state that is about
  to add one, which no resume enters, and the review round never exceeds the reviews.
  `ChainInv`: the states after a verification and after a review are entered with the
  evidence for them, and nothing disturbs it there.
- `FreshRunsImplementContract`, `OneControllerImplementsContract`. With those invariants
  and `ContractInv` every step is mapped: an attempt that starts, is amended or ends
  writes, verifies, reviews or takes an approval back; a saved record delivers or gives
  up; every other step stutters. One more premise, at most one outside edit, is that of
  `SingleEditIsCaught`: two edits that undo each other deliver a patch of a source that
  nobody reviewed, as the section on disagreements says.

### The attempt record

- `AttemptTypes`, `CompletedStays`, `WritesKeepEvidence`, `PromptsFollowRecords`,
  `CleanOutcomesAreRecorded`. `CommitInv`: whoever is about to write has read an open
  record and adds to it, and one that has passed the check inside the fence has read the
  record on disk; so every write is of an open record and loses nothing. `StartInv`: once
  a recorder exists and the executor answered or the prompt was given, the controller
  knows of the start and writes it. `PromptInv`: before the prompt the recorder has ended
  with the start on disk or an error. `CleanInv` follows the controller's three updates
  to the judgement, and `AbsentInv` says that without a recorder no start is on record.

### The invocation

- `SupervisionTypeCorrect`, `ConfirmedTerminationIsOne`, `AcceptedWasCompleted`,
  `EvidenceStaysFinal`, `TimelyCompletionIsKept`, `SupervisionImplementsContract`. The
  inductive invariant relates what the monitor copied to what the threads did since:
  a snapshot is never ahead of the observer, a thread that published its end does not
  write again, an iteration that will not look again read the observer when all of them
  had ended or the deadline had passed, and nothing is cleaned up, cancelled or
  confirmed before its control point. A record observed after the return is that of a
  reader that was alive to the end (`StalledInv`): it had its chunk before it was
  cancelled, ends after it, and what was returned says that the output is truncated and
  the cleanup incomplete. That the group, once signal 0 finds nobody, stays
  empty needs no member to be left that could fork. The refinement maps initial states
  to initial states and every step to a step or a stutter of `RunnerContract`.
- `PublishedEvidenceIsFaithful`, `PromotedEvidenceIsImmutable`, for every size of a read,
  of the kept tail and of the stream. The invariant says who may still write the staging
  file at each point, that the file has no gaps, and that the writer counts at most one
  chunk ahead of what the helper vouched for; as a chunk fits into the tail
  (`SizesAssumption`), the kept tail covers the seam whenever head and tail are joined. A
  capture is stable only without a writer. The reader that missed an acknowledgement is
  excepted where the properties except it.
- `FilesAreTrue`, `CodexImplementsContract` (with `CodexInvariant`, `CodexTypeCorrect`).
  What the runner handed over stays true to the end, because nothing is launched after
  it and nobody alive is not in it. A rejection comes before a launch, a failure reason
  after one. The files follow the order of the steps, so that wherever `execute()` is cut
  off the result is there only of an accepted answer. In the refinement an abandoned or
  raising adapter is the contract's `AgentRaises`, `Finish` its `AgentReturns`, and file
  operations stutter.
- `OutcomesComeAfterTheAgent`, `CleanFailuresAreClean`, `SuccessesAreThere`,
  `AgentsStartAuthorised`, `OutcomesAreConstructible` (with `GuardedWriteInvariant`,
  `GuardedWriteTypes`). An answer is true of the processes there are (`AnswerInv`, from
  the executor's contract alone). Unless an outsider wrote, each part of the capture
  before is what the repository began with, because nothing is launched yet, and each
  part of the capture after is what it is now, because of an invocation that is trusted
  nobody is left (`SeenInv`). The guard
  asks for no human only if everything was read and recorded, and nothing happens after
  the judgement.

### Run directories

- `RunsTypeCorrect`, `DrivenRunsAreWhole`, `CompleteRunsAreKept`, `FailedRunsAreNotListed`,
  `EvidenceIsOwn`. The inductive invariant says that nobody knows a directory that is
  not made yet (`UnmadeInv`), that a creator has its identifier to itself among the
  creators (`PlacedInv`), what each controller knows at each step and that it fits
  (`BoundInv`, `MemoryInv`, `KnownInv`), that an act hits the directory that was looked at
  unless one came late (`LookInv`), and that the files of a directory that never came
  late are its maker's (`PureInv`). `CompleteRunsAreKept` follows step by step, whatever
  was replaced or put back. The last two theorems need a second invariant that holds
  until a directory is put back: a replaced directory does not come back (`GoneInv`,
  `HomeInv`), the lock keeps a resume from a directory that its creator may still take
  apart (`LockInv`), and what was read between two looks that agree was read from the
  token's directory (`OwnInv`). It is proved as `~restored => NotRestored` beside the
  first.

Every safety invariant, action property and refinement of the runs is stated by one of
these theorems, those that are about one controller at a time in the form above. Only
model-checked are the liveness properties (`LockIsGivenBack`, `RunEnds`, `NeverStranded`,
`FinalisationEnds`, `RunReturns`), which need fairness and ENABLED; they are outside what
the prover does, as are induction over data and recursive operators. The inductive
invariants were checked with TLC on the instances of the runs before they were proved.

## Findings

1. `stale_resume`: `resume_ticket_lifecycle` loads the record before it takes the
   lock and does not load it again. If another controller ends the run in between,
   the resume goes on from the old record and replaces a terminal one.

## Disagreements met while modelling

Each of these is a behaviour of the models that a sentence in the repository rules out
or does not foresee. None has a run of its own; the properties above hold beside them.

- The recheck after the patch capture compares two snapshots (handoff_acceptance.py:393).
  A change that is undone before the second one is not noticed, and `final.patch` is
  then of another source. The README (line 107) speaks of a recheck "that the workspace
  did not change during that capture".
- The status probe takes the lock to find out whether somebody has it (locking.py:297),
  so a run may be refused with a `RepositoryLockError`, which is "raised when another
  active process owns" the lock (locking.py:31), although none does.
- An interrupt before the recorder's first step completes the attempt with
  `process_started` false (guarded_writable_operation.py:1291), though the comment at
  line 411 says that a launch "cannot leave the invocation recorded as never started".
  In the same window `_update` writes a recorded start back to false; `EvidenceIsKept`
  therefore speaks of executions that did not raise.
- The comment at workflow.py:572 says "terminal evidence must be persisted". The save of
  that stop is made outside every handler (workflow.py:669-684, 789-792): when it raises
  in turn, the exception ends the command, the lock is given back, and the record stays
  open until a resume goes on from it or stops it.
- On POSIX the invocation tree is a process group (process.py:955). A descendant with a
  session of its own survives, and cleanup is confirmed without it; the README (line 170)
  speaks of "the entire invocation tree". `RunnerContract` speaks of the group.
- A timeout keeps its category when its cleanup was not confirmed (failures.py:52), where
  the README (line 175) promises "cleanup-uncertain" without exception. Nothing is misled
  by it: `UntrustedCompletion` has both.
- A reader that stalls between handing over a chunk and waiting for its acknowledgement
  finds the descriptor closed, ends, and makes its capture stable (process.py:793) while
  the helper may still append, which `_capture_stable` says cannot be (process.py:1927).
- `read_descendant` checks the directory before and after the read (run_ownership.py:223).
  A directory replaced before the read and put back before the second check is not
  noticed, though line 217 says no value can escape.
- `save_owned_run_record` checks the directory and then writes by its path (runs.py:553),
  and so does the baseline (436); the rollback checks once and then unlinks three files by
  the path (742-748). A complete run that is moved to the path in between gets another
  run's record or baseline, or loses its files, where the README (line 206) says that such
  operations fail closed and the comment at runs.py:750 that a directory whose contents or
  identity are no longer the incomplete snapshot's is left alone. A record that is written
  where the directory is gone makes it anew, with that one file. `reserve` creates a
  directory and then binds what `stat` finds there (run_ownership.py:70-87), which may be
  another one by then.
- A reader that cleanup could not join in time (process.py:2042) feeds the observer after
  `run` has returned. It changes no result: the evidence is read before the return, and
  such a result is not accepted and says that its output is incomplete.

## Not modelled, and why

- Rendering, configuration syntax and its resolution (`resolved_config.py`), JSON codecs,
  argument parsing, the provider registry and command lines compute one value from
  another and have no state or order of steps. Whether a resumed run's policy is
  compatible is a choice of `Lifecycle`.
- The physical file identity checks and the checks of links in a path are single file
  system calls; `RunDirectories` has the identity they compare.
- `persistence.py`: the temporary file of an atomic replacement is visible to nobody
  before the rename, so a replacement is one step that may raise before or after it.
- `attempts.py` fills a temporary directory and renames it, so that an attempt appears
  with its record in one step, `StartAttempt`. The numbers that directories without a
  record keep reserved are left out: nothing reads such a directory.
- Windows: job objects and the cancellation of blocking I/O have no counterpart here.

What could come next: the seam between `GuardedWrite` and `Lifecycle` as a refinement
instead of by reading, and the creation of an attempt's directory.
