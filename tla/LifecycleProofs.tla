-------------------------- MODULE LifecycleProofs ---------------------------
(***************************************************************************)
(* Theorems about the lifecycle of a run, for any number of controller     *)
(* processes, resumes, crashes and outside edits, any repository and any   *)
(* limit on correction rounds.  The first part holds of every behaviour:   *)
(* types, who writes, that an interrupted write stops the run, that        *)
(* READY_FOR_HUMAN has its evidence, and that a report is of the record on *)
(* disk.  The second is about runs in which no resume acts on a record     *)
(* that somebody else has changed since it was loaded; a run with one      *)
(* controller is such a run (OneControllerIsFresh), with several the lock  *)
(* does not ensure it, as the stale_resume run shows.  The third goes from *)
(* the evidence of such a run to the contract it implements.               *)
(***************************************************************************)
EXTENDS LifecycleContract, SequenceTheorems, FiniteSetTheorems, TLAPS

-----------------------------------------------------------------------------
(* The attempt log *)

\* Replacing one record of a log leaves a log of the same length.
LEMMA LogReplace ==
    ASSUME NEW log \in Seq(AttemptRecord), NEW i \in DOMAIN log, NEW r \in AttemptRecord
    PROVE  /\ [log EXCEPT ![i] = r] \in Seq(AttemptRecord)
           /\ Len([log EXCEPT ![i] = r]) = Len(log)
           /\ DOMAIN [log EXCEPT ![i] = r] = DOMAIN log
OBVIOUS

LEMMA LogAppend ==
    ASSUME NEW log \in Seq(AttemptRecord), NEW r \in AttemptRecord
    PROVE  /\ Append(log, r) \in Seq(AttemptRecord)
           /\ Len(Append(log, r)) = Len(log) + 1
           /\ DOMAIN Append(log, r) = 1 .. Len(log) + 1
           /\ \A i \in DOMAIN log : Append(log, r)[i] = log[i]
           /\ Append(log, r)[Len(log) + 1] = r
OBVIOUS

-----------------------------------------------------------------------------
(* Stages.  Whatever a stage does, it amends the record of the active      *)
(* attempt without touching its phase or status, may decide, and moves on; *)
(* reporting saves its decision before it completes its attempt.           *)

StagePoints == {"begin", "executing", "finish", "complete", "save"}

Amends(c) ==
    \/ UNCHANGED ledger
    \/ \E r \in AttemptRecord :
          /\ Amend(c, r)
          /\ r.phase = Attempt(c).phase
          /\ r.status = Attempt(c).status

MayDecide(c) ==
    \/ UNCHANGED decision
    \/ \E d \in Decision : decision' = [decision EXCEPT ![c] = d]

StageStep(c) ==
    /\ pc[c] \in {"begin", "executing", "finish"}
    /\ att[c] \in DOMAIN ledger
    /\ Amends(c)
    /\ MayDecide(c)
    /\ \E point \in StagePoints :
          /\ Goto(c, point)
          /\ point = "complete" => Attempt(c).phase # "REPORTING"
          /\ point = "save" => Attempt(c).phase = "REPORTING"
    /\ patch' \in Fingerprints
    /\ UNCHANGED <<disk, workspace, report, holder, mem, att, budgets>>

LEMMA ActiveAttempt ==
    ASSUME TypeOK, NEW c \in Controllers, att[c] \in DOMAIN ledger
    PROVE  Attempt(c) \in AttemptRecord
BY DEF TypeOK, Attempt

LEMMA CaptureTyped ==
    ASSUME TypeOK
    PROVE  Capture(workspace) \subseteq Fingerprints /\ workspace \in Fingerprints
BY DEF TypeOK, Capture, Fingerprints

LEMMA AmendLog ==
    ASSUME TypeOK, NEW i \in DOMAIN ledger, NEW r \in AttemptRecord,
           ledger' = [ledger EXCEPT ![i] = r]
    PROVE  /\ ledger' \in Seq(AttemptRecord)
           /\ DOMAIN ledger' = DOMAIN ledger /\ Len(ledger') = Len(ledger)
           /\ ledger'[i] = r
           /\ \A j \in DOMAIN ledger : j # i => ledger'[j] = ledger[j]
BY LogReplace DEF TypeOK

LEMMA AmendsLog ==
    ASSUME TypeOK, NEW c \in Controllers, att[c] \in DOMAIN ledger, Amends(c)
    PROVE  /\ ledger' \in Seq(AttemptRecord)
           /\ DOMAIN ledger' = DOMAIN ledger /\ Len(ledger') = Len(ledger)
           /\ \A j \in DOMAIN ledger : /\ ledger'[j].phase = ledger[j].phase
                                       /\ ledger'[j].status = ledger[j].status
                                       /\ j # att[c] => ledger'[j] = ledger[j]
<1>1. CASE UNCHANGED ledger
  BY <1>1 DEF TypeOK
<1>2. ASSUME NEW r \in AttemptRecord, Amend(c, r),
             r.phase = Attempt(c).phase, r.status = Attempt(c).status
      PROVE  /\ ledger' \in Seq(AttemptRecord)
             /\ DOMAIN ledger' = DOMAIN ledger /\ Len(ledger') = Len(ledger)
             /\ \A j \in DOMAIN ledger : /\ ledger'[j].phase = ledger[j].phase
                                         /\ ledger'[j].status = ledger[j].status
                                         /\ j # att[c] => ledger'[j] = ledger[j]
  <2>1. ledger' = [ledger EXCEPT ![att[c]] = r]
    BY <1>2 DEF Amend
  <2> QED
    BY <1>2, <2>1, AmendLog DEF Attempt
<1> QED
  BY <1>1, <1>2 DEF Amends

LEMMA DecideTyped ==
    ASSUME TypeOK, NEW c \in Controllers, NEW outcome \in StageOutcome,
           NEW after \in Fingerprints, NEW correction \in Nat,
           Decide(c, outcome, after, correction)
    PROVE  MayDecide(c)
<1>1. mem[c].review \in Nat /\ mem[c].review + 1 \in Nat
  BY DEF TypeOK, RunRecord
<1>2. [outcome |-> outcome, after |-> after, correction |-> correction,
       review |-> IF Attempt(c).phase = "REVIEWING"
                  THEN mem[c].review + 1 ELSE mem[c].review] \in Decision
  BY <1>1 DEF Decision
<1> QED
  BY <1>2 DEF Decide, MayDecide

LEMMA Corrections ==
    ASSUME TypeOK, NEW c \in Controllers
    PROVE  mem[c].correction \in Nat /\ disk.correction \in Nat
BY DEF TypeOK, RunRecord

\* The ways a stage amends its attempt.
LEMMA AmendTyped ==
    ASSUME TypeOK, NEW c \in Controllers, att[c] \in DOMAIN ledger
    PROVE  /\ UNCHANGED ledger => Amends(c)
           /\ Amend(c, [Attempt(c) EXCEPT !.started = TRUE]) => Amends(c)
           /\ \A v \in Verdicts :
                 Amend(c, [Attempt(c) EXCEPT !.verdict = v]) => Amends(c)
           /\ \A v \in Verdicts :
                 Amend(c, [Attempt(c) EXCEPT !.verdict = v, !.round = disk.correction])
                    => Amends(c)
           /\ \A f \in Fingerprints :
                 /\ Amend(c, [Attempt(c) EXCEPT !.before = f]) => Amends(c)
                 /\ Amend(c, [Attempt(c) EXCEPT !.before = f, !.started = TRUE])
                       => Amends(c)
                 /\ Amend(c, [Attempt(c) EXCEPT !.after = f]) => Amends(c)
<1>1. Attempt(c) \in AttemptRecord /\ disk.correction \in Nat
  BY ActiveAttempt, Corrections
<1>2. [Attempt(c) EXCEPT !.started = TRUE] \in AttemptRecord
  BY <1>1 DEF AttemptRecord
<1>3. \A v \in Verdicts :
         /\ [Attempt(c) EXCEPT !.verdict = v] \in AttemptRecord
         /\ [Attempt(c) EXCEPT !.verdict = v, !.round = disk.correction] \in AttemptRecord
  BY <1>1 DEF AttemptRecord
<1>4. \A f \in Fingerprints :
         /\ [Attempt(c) EXCEPT !.before = f] \in AttemptRecord
         /\ [Attempt(c) EXCEPT !.before = f, !.started = TRUE] \in AttemptRecord
         /\ [Attempt(c) EXCEPT !.after = f] \in AttemptRecord
  BY <1>1 DEF AttemptRecord
<1>5. ASSUME NEW r \in AttemptRecord, Amend(c, r),
             r.phase = Attempt(c).phase, r.status = Attempt(c).status
      PROVE  Amends(c)
  BY <1>5 DEF Amends
<1>6. UNCHANGED ledger => Amends(c)
  BY DEF Amends
<1>7. Amend(c, [Attempt(c) EXCEPT !.started = TRUE]) => Amends(c)
  BY <1>1, <1>2, <1>5 DEF AttemptRecord
<1>8. ASSUME NEW v \in Verdicts
      PROVE  /\ Amend(c, [Attempt(c) EXCEPT !.verdict = v]) => Amends(c)
             /\ Amend(c, [Attempt(c) EXCEPT !.verdict = v, !.round = disk.correction])
                   => Amends(c)
  BY <1>1, <1>3, <1>5 DEF AttemptRecord
<1>9. ASSUME NEW f \in Fingerprints
      PROVE  /\ Amend(c, [Attempt(c) EXCEPT !.before = f]) => Amends(c)
             /\ Amend(c, [Attempt(c) EXCEPT !.before = f, !.started = TRUE]) => Amends(c)
             /\ Amend(c, [Attempt(c) EXCEPT !.after = f]) => Amends(c)
  BY <1>1, <1>4, <1>5 DEF AttemptRecord
<1> QED
  BY <1>6, <1>7, <1>8, <1>9

\* What stages decide is of the decision's types.
LEMMA ReviewResultsTyped ==
    \A result \in ReviewResults :
       result[1] \in Verdicts /\ result[2] \in StageOutcome
BY DEF ReviewResults, Verdicts, StageOutcome

LEMMA WritableOutcomesTyped ==
    ASSUME NEW c, NEW seen
    PROVE  WritableOutcomes(c, seen) \subseteq StageOutcome
BY DEF WritableOutcomes, StageOutcome

LEMMA CorrectionRoundsTyped ==
    ASSUME TypeOK, NEW c \in Controllers, NEW outcome
    PROVE  CorrectionRounds(c, outcome) \subseteq Nat
BY Corrections DEF CorrectionRounds

LEMMA StageIsStep ==
    ASSUME TypeOK, NEW c \in Controllers, Stage(c)
    PROVE  StageStep(c)
<1> USE CaptureTyped, Corrections, AmendTyped, DecideTyped
    DEF StageStep, StageFrame, In, StagePoints, Attempt, WritablePhases
<1>a. NoFingerprint \in Fingerprints /\ patch \in Fingerprints
  BY DEF TypeOK, Fingerprints
<1>b. {"COMPLETED", "CORRECTION_REQUIRED", "HUMAN_REQUIRED", "FAILED"} = StageOutcome
  BY DEF StageOutcome
<1>c. UNCHANGED decision => MayDecide(c)
  BY DEF MayDecide
<1>1. ASSUME BeginVerification(c) PROVE StageStep(c)
  BY <1>1, <1>a, <1>b, <1>c DEF BeginVerification, StopBeforeStart, Verdicts
<1>2. ASSUME PreparationRaises(c) PROVE StageStep(c)
  BY <1>2, <1>a, <1>b DEF PreparationRaises
<1>3. ASSUME RunVerification(c) PROVE StageStep(c)
  <2>1. PICK seen \in Capture(workspace), result \in {"PASS", "FAIL", "ERROR"},
             status \in {"PASS", "FAIL", "ERROR"} :
           /\ Amend(c, [Attempt(c) EXCEPT !.verdict = status, !.round = disk.correction])
           /\ Decide(c, VerificationOutcome(Attempt(c).phase, status),
                     NoFingerprint, mem[c].correction)
    BY <1>3 DEF RunVerification
  <2>2. VerificationOutcome(Attempt(c).phase, status) \in StageOutcome
    BY <1>b DEF VerificationOutcome
  <2> QED
    BY <1>3, <2>1, <2>2, <1>a DEF RunVerification, Verdicts
<1>4. ASSUME BeginReview(c) PROVE StageStep(c)
  BY <1>4, <1>a, <1>b, <1>c DEF BeginReview, StopBeforeStart
<1>5. ASSUME RunReview(c) PROVE StageStep(c)
  <2>1. PICK seen \in Capture(workspace), result \in ReviewResults :
           /\ Amend(c, [Attempt(c) EXCEPT !.verdict = result[1]])
           /\ Decide(c, IF Unchanged(seen, c) THEN result[2] ELSE "HUMAN_REQUIRED",
                     NoFingerprint, mem[c].correction)
    BY <1>5 DEF RunReview
  <2>2. result[1] \in Verdicts /\ result[2] \in StageOutcome
    BY <2>1, ReviewResultsTyped
  <2> QED
    BY <1>5, <2>1, <2>2, <1>a, <1>b DEF RunReview
<1>6. ASSUME BeginWritable(c) PROVE StageStep(c)
  BY <1>6, <1>a, <1>b, <1>c DEF BeginWritable, StopBeforeStart
<1>7. ASSUME RunWritable(c) PROVE StageStep(c)
  <2>1. PICK seen \in Capture(workspace) :
           \E outcome \in WritableOutcomes(c, seen) :
             \E correction \in CorrectionRounds(c, outcome) :
               /\ Amend(c, [Attempt(c) EXCEPT !.after = seen])
               /\ Decide(c, outcome, seen, correction)
    BY <1>7 DEF RunWritable
  <2>2. PICK outcome \in WritableOutcomes(c, seen) :
           \E correction \in CorrectionRounds(c, outcome) :
               /\ Amend(c, [Attempt(c) EXCEPT !.after = seen])
               /\ Decide(c, outcome, seen, correction)
    BY <2>1
  <2>3. PICK correction \in CorrectionRounds(c, outcome) :
               /\ Amend(c, [Attempt(c) EXCEPT !.after = seen])
               /\ Decide(c, outcome, seen, correction)
    BY <2>2
  <2>4. seen \in Fingerprints /\ outcome \in StageOutcome
    BY <2>1, <2>2, WritableOutcomesTyped
  <2>5. correction \in Nat
    BY <2>3, CorrectionRoundsTyped
  <2>6. Amends(c) /\ MayDecide(c)
    BY <1>7, <2>3, <2>4, <2>5 DEF RunWritable
  <2> QED
    BY <1>7, <1>a, <2>6 DEF RunWritable
<1>8. ASSUME Finish(c) PROVE StageStep(c)
  <2>1. \A seen \in Fingerprints : Settled(c, seen) \in Decision
    <3>1. decision[c] \in Decision
      BY DEF TypeOK
    <3> QED
      BY <3>1, <1>b DEF Settled, Decision
  <2>2. MayDecide(c)
    BY <1>8, <2>1 DEF Finish, MayDecide
  <2> QED
    BY <1>8, <2>2, <1>a DEF Finish
<1>9. ASSUME BeginHandoff(c) PROVE StageStep(c)
  BY <1>9, <1>a, <1>b, <1>c DEF BeginHandoff
<1>10. ASSUME CapturePatch(c) PROVE StageStep(c)
  BY <1>10, <1>a, <1>b, <1>c DEF CapturePatch
<1>11. ASSUME RecheckHandoff(c) PROVE StageStep(c)
  BY <1>11, <1>a, <1>b DEF RecheckHandoff
<1> QED
  BY <1>1, <1>2, <1>3, <1>4, <1>5, <1>6, <1>7, <1>8, <1>9, <1>10, <1>11 DEF Stage

-----------------------------------------------------------------------------
(* Types, the lock and the active attempt *)

\* Whoever is past the lock holds it, and the holder is past it.
HolderInv ==
    \A c \in Controllers : pc[c] \notin {"idle", "loaded"} <=> holder = c

\* A controller in a stage works on an attempt of the phase its record is in.
FrameInv ==
    \A c \in Controllers : pc[c] \in StagePoints =>
        /\ att[c] \in DOMAIN ledger
        /\ ledger[att[c]].phase = mem[c].state

\* A controller that publishes has a terminal record, and so has one that has
\* saved what reporting decided and completes its attempt next.
PublishInv ==
    \A c \in Controllers :
        /\ pc[c] = "publish" => mem[c].state \in TerminalStates
        /\ pc[c] = "complete" /\ ledger[att[c]].phase = "REPORTING"
              => Decided(c).state \in TerminalStates

BaseInv == TypeOK /\ HolderInv /\ FrameInv /\ PublishInv

LEMMA NewRecordsTyped ==
    /\ NewRun \in RunRecord
    /\ NoDecision \in Decision
    /\ NoReport \notin TerminalStates
BY DEF NewRun, RunRecord, NoDecision, Decision, StageOutcome, Fingerprints, WorkflowState,
       NoReport, TerminalStates

LEMMA InitBase == Init => BaseInv
<1> SUFFICES ASSUME Init PROVE BaseInv
  OBVIOUS
<1>1. Baseline \in Workspaces /\ NoFingerprint \in Fingerprints
  BY WorkspacesAssumption DEF Fingerprints
<1>2. TypeOK
  BY <1>1, NewRecordsTyped, ControllersAssumption DEF Init, TypeOK, ControlPoints
<1>3. HolderInv /\ FrameInv /\ PublishInv
  BY ControllersAssumption DEF Init, HolderInv, FrameInv, PublishInv, StagePoints
<1> QED
  BY <1>2, <1>3 DEF BaseInv

\* What the loop saves is a run record again.
LEMMA ImmediateTyped ==
    ASSUME NEW rec \in RunRecord
    PROVE  Immediate(rec) \in RunRecord
<1>1. ImmediateTarget(rec) \in WorkflowState
  BY DEF ImmediateTarget, WorkflowState
<1> QED
  BY <1>1 DEF Immediate, RunRecord

LEMMA DecidedTyped ==
    ASSUME TypeOK, NEW c \in Controllers, mem[c].state \in AttemptPhase
    PROVE  Decided(c) \in RunRecord
<1>1. decision[c] \in Decision
  BY DEF TypeOK
<1>2. RequestedState(mem[c].state, decision[c].outcome) \in WorkflowState
  BY <1>1 DEF RequestedState, CompletedTransition, AttemptPhase, WritablePhases,
              ReadOnlyPhases, WorkflowState, Decision, StageOutcome
<1> QED
  BY <1>1, <1>2 DEF Decided, Decision, RunRecord

LEMMA CompletedTyped ==
    ASSUME TypeOK, NEW c \in Controllers, att[c] \in DOMAIN ledger
    PROVE  /\ Completed(c) \in AttemptRecord
           /\ Completed(c).phase = Attempt(c).phase
           /\ Completed(c).status = StatusOf(decision[c].outcome)
           /\ Completed(c).status \in AttemptStatus \ {"STARTED"}
<1>1. decision[c] \in Decision /\ Attempt(c) \in AttemptRecord
  BY ActiveAttempt DEF TypeOK
<1>2. StatusOf(decision[c].outcome) \in AttemptStatus \ {"STARTED"}
  BY <1>1 DEF StatusOf, Decision, StageOutcome, AttemptStatus
<1> QED
  BY <1>1, <1>2 DEF Completed, AttemptRecord, Decision

LEMMA NewAttemptTyped ==
    ASSUME NEW phase \in AttemptPhase, NEW fingerprint \in Fingerprints
    PROVE  /\ NewAttempt(phase, fingerprint) \in AttemptRecord
           /\ NewAttempt(phase, fingerprint).phase = phase
           /\ NewAttempt(phase, fingerprint).status = "STARTED"
BY DEF NewAttempt, AttemptRecord, AttemptStatus, Verdicts, Fingerprints

\* The stop that an exception leaves.
LEMMA FailureStop ==
    ASSUME TypeOK
    PROVE  /\ StopAfterFailure(disk) \in RunRecord
           /\ StopAfterFailure(disk).state \in TerminalStates
           /\ StopAfterFailure(disk) # disk =>
                 /\ disk.state \notin TerminalStates
                 /\ StopAfterFailure(disk).state \in {"HUMAN_REQUIRED", "FAILED"}
                 /\ StopAfterFailure(disk).state = "FAILED" => disk.state \notin WritablePhases
                 /\ StopAfterFailure(disk).correction = disk.correction
                 /\ StopAfterFailure(disk).review = disk.review
<1>1. disk \in RunRecord /\ \A state \in WorkflowState : [disk EXCEPT !.state = state] \in RunRecord
  BY DEF TypeOK, RunRecord
<1>2. {"HUMAN_REQUIRED", "FAILED"} \subseteq WorkflowState \cap TerminalStates
  BY DEF WorkflowState, TerminalStates
<1>3. CASE disk.state \in TerminalStates
  <2>1. StopAfterFailure(disk) = disk
    BY <1>1, <1>3 DEF StopAfterFailure, RunRecord
  <2> QED
    BY <1>1, <1>3, <2>1
<1>4. CASE disk.state \notin TerminalStates
  BY <1>1, <1>2, <1>4 DEF StopAfterFailure, RunRecord
<1> QED
  BY <1>3, <1>4

\* The exceptions that leave the lifecycle: the record is as it was, or a stop is saved.
Leaves(c) == ResumeRaises(c) \/ RecordFailureRaises(c)

LEMMA LeavesFrame ==
    ASSUME TypeOK, NEW c \in Controllers, Leaves(c)
    PROVE  /\ pc[c] \in {"locked", "failing"} /\ pc' = [pc EXCEPT ![c] = "release"]
           /\ UNCHANGED <<ledger, workspace, patch, report, holder, mem, att, decision,
                          resumes, edits>>
           /\ crashes' \in Nat
           /\ disk' \in RunRecord
           /\ disk' # disk =>
                 /\ disk.state \notin TerminalStates
                 /\ disk'.state \in {"HUMAN_REQUIRED", "FAILED"}
                 /\ disk'.state = "FAILED" => disk.state \notin WritablePhases
                 /\ disk'.correction = disk.correction /\ disk'.review = disk.review
<1>1. CASE ResumeRaises(c)
  <2>1. [disk EXCEPT !.state = "HUMAN_REQUIRED"] \in RunRecord
    BY DEF TypeOK, RunRecord, WorkflowState
  <2> QED
    BY <1>1, <2>1 DEF ResumeRaises, Goto, TypeOK, RunRecord, budgets
<1>2. CASE RecordFailureRaises(c)
  BY <1>2, FailureStop DEF RecordFailureRaises, Goto, TypeOK
<1> QED
  BY <1>1, <1>2 DEF Leaves

LEMMA NextBase == BaseInv /\ [Next]_vars => BaseInv'
<1> SUFFICES ASSUME BaseInv, [Next]_vars PROVE BaseInv'
  OBVIOUS
<1> USE ControllersAssumption
    DEF BaseInv, TypeOK, HolderInv, FrameInv, PublishInv, StagePoints, ControlPoints,
        Goto, Decided, durable, budgets
<1>1. ASSUME NEW c \in Controllers, LoadRecord(c) PROVE BaseInv'
  BY <1>1 DEF LoadRecord
<1>2. ASSUME NEW c \in Controllers, AcquireLock(c) PROVE BaseInv'
  BY <1>2 DEF AcquireLock
<1>3. ASSUME NEW c \in Controllers, LockBusy(c) PROVE BaseInv'
  BY <1>3, NewRecordsTyped DEF LockBusy, Forget
<1>4. ASSUME NEW c \in Controllers, ResumeTerminal(c) PROVE BaseInv'
  BY <1>4 DEF ResumeTerminal
<1>5. ASSUME NEW c \in Controllers, ResumeAccepted(c) PROVE BaseInv'
  BY <1>5 DEF ResumeAccepted
<1>6. ASSUME NEW c \in Controllers, ResumeRefused(c) PROVE BaseInv'
  <2>1. [disk EXCEPT !.state = "HUMAN_REQUIRED"] \in RunRecord
    BY DEF RunRecord, WorkflowState
  <2>2. /\ disk' \in RunRecord /\ disk'.state = "HUMAN_REQUIRED"
        /\ mem' = [mem EXCEPT ![c] = disk']
    BY <1>6, <2>1 DEF ResumeRefused, RunRecord
  <2> QED
    BY <1>6, <2>2 DEF ResumeRefused, TerminalStates
<1>7. ASSUME NEW c \in Controllers, ImmediateTransition(c) PROVE BaseInv'
  <2>1. Immediate(mem[c]) \in RunRecord
    BY ImmediateTyped
  <2> QED
    BY <1>7, <2>1 DEF ImmediateTransition
<1>8. ASSUME NEW c \in Controllers, StartAttempt(c) PROVE BaseInv'
  <2>1. PICK fingerprint \in Fingerprints :
           ledger' = Append(ledger, NewAttempt(mem[c].state, fingerprint))
    BY <1>8, CaptureTyped DEF StartAttempt, Fingerprints
  <2>2. /\ NewAttempt(mem[c].state, fingerprint) \in AttemptRecord
        /\ NewAttempt(mem[c].state, fingerprint).phase = mem[c].state
    BY <1>8, NewAttemptTyped DEF StartAttempt
  <2> QED
    BY <1>8, <2>1, <2>2, LogAppend DEF StartAttempt
<1>9. ASSUME NEW c \in Controllers, Stage(c) PROVE BaseInv'
  <2>1. StageStep(c)
    BY <1>9, StageIsStep
  <2>2. ledger' \in Seq(AttemptRecord) /\ DOMAIN ledger' = DOMAIN ledger
    BY <2>1, AmendsLog DEF StageStep
  <2>3. ledger'[att[c]].phase = ledger[att[c]].phase
    BY <2>1, AmendsLog DEF StageStep
  <2>4. decision' \in [Controllers -> Decision]
    BY <2>1 DEF StageStep, MayDecide
  <2>5. PICK point \in StagePoints :
           /\ pc' = [pc EXCEPT ![c] = point]
           /\ point = "complete" => ledger[att[c]].phase # "REPORTING"
    BY <2>1 DEF StageStep, Attempt
  <2>6. /\ pc[c] \in {"begin", "executing", "finish"} /\ patch' \in Fingerprints
        /\ UNCHANGED <<disk, workspace, report, holder, mem, att,
                       resumes, crashes, edits>>
    BY <2>1 DEF StageStep
  <2> QED
    BY <2>2, <2>3, <2>4, <2>5, <2>6
<1>10. ASSUME NEW c \in Controllers, CompleteAttempt(c) PROVE BaseInv'
  <2>1. att[c] \in DOMAIN ledger /\ mem[c].state \in AttemptPhase /\ pc[c] = "complete"
    BY <1>10 DEF CompleteAttempt, In
  <2>2. ledger' \in Seq(AttemptRecord) /\ DOMAIN ledger' = DOMAIN ledger
    BY <1>10, <2>1, LogReplace, CompletedTyped DEF CompleteAttempt, Amend
  <2>3. ledger'[att[c]].phase = ledger[att[c]].phase
    BY <1>10, <2>1, CompletedTyped DEF CompleteAttempt, Amend, Attempt
  <2>4. Decided(c) \in RunRecord
    BY <2>1, DecidedTyped
  <2> QED
    BY <1>10, <2>1, <2>2, <2>3, <2>4 DEF CompleteAttempt, Attempt
<1>11. ASSUME NEW c \in Controllers, SaveTransition(c) PROVE BaseInv'
  <2>1. att[c] \in DOMAIN ledger /\ mem[c].state \in AttemptPhase /\ pc[c] = "save"
    BY <1>11 DEF SaveTransition, In
  <2>2. Decided(c) \in RunRecord
    BY <2>1, DecidedTyped
  <2>3. CASE Attempt(c).phase = "REPORTING"
    <3>1. mem[c].state = "REPORTING" /\ LegalTransition("REPORTING", Decided(c).state)
      BY <1>11, <2>1, <2>3 DEF SaveTransition, Attempt
    <3>2. Decided(c).state \in TerminalStates
      BY <3>1 DEF LegalTransition, ForwardTransitions, TerminalStates
    <3>3. /\ disk' = Decided(c) /\ pc' = [pc EXCEPT ![c] = "complete"]
          /\ UNCHANGED <<ledger, workspace, patch, report, holder, mem, att, decision,
                         resumes, crashes, edits>>
      BY <1>11, <2>3 DEF SaveTransition
    <3> QED
      BY <2>1, <2>2, <3>2, <3>3
  <2>4. CASE Attempt(c).phase # "REPORTING"
    <3>1. /\ disk' = Decided(c) /\ mem' = [mem EXCEPT ![c] = Decided(c)]
          /\ pc' = [pc EXCEPT ![c] = IF Decided(c).state \in TerminalStates
                                     THEN "publish" ELSE "loop"]
          /\ UNCHANGED <<ledger, workspace, patch, report, holder, att, decision,
                         resumes, crashes, edits>>
      BY <1>11, <2>4 DEF SaveTransition
    <3> HIDE DEF Decided
    <3>2. TypeOK' /\ HolderInv' /\ FrameInv'
      BY <2>1, <2>2, <3>1
    <3>3. PublishInv'
      BY <2>1, <2>2, <3>1 DEF Decided
    <3> QED
      BY <3>2, <3>3
  <2> QED
    BY <2>3, <2>4
<1>12. ASSUME NEW c \in Controllers, StageRaises(c) PROVE BaseInv'
  BY <1>12, NewRecordsTyped DEF StageRaises, DrivingPoints
<1>13. ASSUME NEW c \in Controllers, RecordFailure(c) PROVE BaseInv'
  <2>1. /\ disk' \in RunRecord /\ mem' = [mem EXCEPT ![c] = disk']
        /\ disk'.state \in TerminalStates
    BY <1>13, FailureStop DEF RecordFailure
  <2> QED
    BY <1>13, <2>1 DEF RecordFailure
<1>20. ASSUME NEW c \in Controllers, Leaves(c) PROVE BaseInv'
  BY <1>20, LeavesFrame
<1>14. ASSUME NEW c \in Controllers, PublishReport(c) PROVE BaseInv'
  BY <1>14 DEF PublishReport
<1>15. ASSUME NEW c \in Controllers, ReleaseLock(c) PROVE BaseInv'
  BY <1>15, NewRecordsTyped DEF ReleaseLock, Forget
<1>16. ASSUME NEW c \in Controllers, InvocationWrites(c) PROVE BaseInv'
  BY <1>16 DEF InvocationWrites
<1>17. ASSUME NEW c \in Controllers, Crash(c) PROVE BaseInv'
  BY <1>17, NewRecordsTyped DEF Crash, Forget
<1>18. CASE Edit
  BY <1>18 DEF Edit
<1>19. CASE UNCHANGED vars
  BY <1>19 DEF vars
<1> QED
  BY <1>1, <1>2, <1>3, <1>4, <1>5, <1>6, <1>7, <1>8, <1>9, <1>10, <1>11, <1>12, <1>13,
     <1>14, <1>15, <1>16, <1>17, <1>18, <1>19, <1>20 DEF Next, Resume, Drive, Leaves

LEMMA BaseInvariant == Spec => []BaseInv
BY InitBase, NextBase, PTL DEF Spec

\* Everything a controller, a crash or an outside edit can do keeps the run
\* record, the attempts, the patch and the report within their types; in
\* particular the loop never asks for a transition that is not in the tables
\* (decision_for_stage_result, _apply_stage_decision).
THEOREM LifecycleTypeCorrect == Spec => []TypeOK
<1>1. BaseInv => TypeOK
  BY DEF BaseInv
<1> QED
  BY <1>1, BaseInvariant, PTL

LEMMA OnlyHolderStep ==
    ASSUME BaseInv, [Next]_vars,
           <<disk, ledger, patch, report>>' # <<disk, ledger, patch, report>>
    PROVE  \E c \in Controllers :
              holder = c /\ <<pc[c], mem[c]>>' # <<pc[c], mem[c]>>
<1> USE DEF BaseInv, HolderInv, TypeOK, Goto, durable, budgets
<1>1. ASSUME NEW c \in Controllers, pc[c] \notin {"idle", "loaded"}, pc'[c] # pc[c]
      PROVE  \E d \in Controllers :
                holder = d /\ <<pc[d], mem[d]>>' # <<pc[d], mem[d]>>
  BY <1>1
<1>2. ASSUME NEW c \in Controllers, ImmediateTransition(c)
      PROVE  holder = c /\ mem'[c] # mem[c]
  BY <1>2 DEF ImmediateTransition, Immediate, ImmediateTarget, RunRecord
<1>3. ASSUME NEW c \in Controllers, Stage(c)
      PROVE  pc[c] \notin {"idle", "loaded"} /\ pc'[c] # pc[c]
  BY <1>3 DEF Stage, In, BeginVerification, PreparationRaises, RunVerification,
              BeginReview, RunReview, BeginWritable, RunWritable, Finish, BeginHandoff,
              CapturePatch, RecheckHandoff, StopBeforeStart, StageFrame
<1>4. ASSUME NEW c \in Controllers,
             StartAttempt(c) \/ CompleteAttempt(c) \/ SaveTransition(c)
                \/ RecordFailure(c) \/ PublishReport(c)
      PROVE  pc[c] \notin {"idle", "loaded"} /\ pc'[c] # pc[c]
  BY <1>4 DEF StartAttempt, CompleteAttempt, SaveTransition, RecordFailure, PublishReport,
              In
<1>5. ASSUME NEW c \in Controllers, ResumeRefused(c) \/ Leaves(c)
      PROVE  pc[c] \notin {"idle", "loaded"} /\ pc'[c] # pc[c]
  BY <1>5, LeavesFrame DEF ResumeRefused
<1>6. ASSUME NEW c \in Controllers,
             \/ LoadRecord(c) \/ AcquireLock(c) \/ LockBusy(c) \/ ResumeTerminal(c)
             \/ ResumeAccepted(c) \/ StageRaises(c) \/ ReleaseLock(c)
             \/ InvocationWrites(c) \/ Crash(c)
      PROVE  FALSE
  BY <1>6 DEF LoadRecord, AcquireLock, LockBusy, Forget, ResumeTerminal, ResumeAccepted,
              StageRaises, ReleaseLock, InvocationWrites, Crash
<1>7. ~ Edit /\ ~ UNCHANGED vars
  BY DEF Edit, vars
<1> QED
  BY <1>1, <1>2, <1>3, <1>4, <1>5, <1>6, <1>7 DEF Next, Resume, Drive, Leaves

\* With any number of controller processes, resumes and crashes, only the one
\* holding the repository lock changes run.json, attempts/, final.patch or
\* report.md (repository_run_lock around both entry points of workflow.py).
THEOREM LifecycleOnlyHolderWrites == Spec => OnlyTheHolderWrites
<1>1. BaseInv /\ [Next]_vars =>
         [ <<disk, ledger, patch, report>>' # <<disk, ledger, patch, report>> =>
              \E c \in Controllers :
                 holder = c /\ <<pc[c], mem[c]>>' # <<pc[c], mem[c]>> ]_vars
  BY OnlyHolderStep
<1> QED
  BY <1>1, BaseInvariant, PTL DEF Spec, OnlyTheHolderWrites

-----------------------------------------------------------------------------
(* Steps of the stages and steps outside them *)

\* Steps that leave the attempts, and every controller in a stage, alone: what
\* an invariant about stages and attempts has to look at is the other steps.
OutsideStages(c) ==
    \/ LoadRecord(c) \/ AcquireLock(c) \/ LockBusy(c)
    \/ ResumeTerminal(c) \/ ResumeRefused(c)
    \/ StageRaises(c) \/ RecordFailure(c) \/ PublishReport(c)
    \/ ReleaseLock(c) \/ InvocationWrites(c) \/ Crash(c) \/ Leaves(c)

LEMMA OutsideStagesFrame ==
    ASSUME BaseInv, NEW c \in Controllers, OutsideStages(c)
    PROVE  /\ UNCHANGED ledger
           /\ \/ UNCHANGED pc
              \/ pc' = [pc EXCEPT ![c] = pc'[c]]
           /\ pc'[c] \notin StagePoints \cup {"loop"} \/ UNCHANGED <<pc, disk>>
           /\ \A d \in Controllers :
                 pc'[d] \in StagePoints \cup {"loop"} =>
                    /\ pc'[d] = pc[d] /\ mem'[d] = mem[d]
                    /\ att'[d] = att[d] /\ decision'[d] = decision[d]
           /\ disk' # disk => disk'.state \in {"HUMAN_REQUIRED", "FAILED"}
<1> USE DEF BaseInv, TypeOK, HolderInv, StagePoints, Goto, Forget, durable, budgets
<1>1. CASE LoadRecord(c) \/ AcquireLock(c) \/ LockBusy(c) \/ ResumeTerminal(c)
  BY <1>1 DEF LoadRecord, AcquireLock, LockBusy, ResumeTerminal
<1>2. CASE ResumeRefused(c)
  <2>1. [disk EXCEPT !.state = "HUMAN_REQUIRED"].state = "HUMAN_REQUIRED"
    BY DEF RunRecord
  <2> QED
    BY <1>2, <2>1 DEF ResumeRefused
<1>3. CASE StageRaises(c) \/ PublishReport(c) \/ ReleaseLock(c) \/ Crash(c)
  BY <1>3 DEF StageRaises, PublishReport, ReleaseLock, Crash
<1>4. CASE RecordFailure(c)
  BY <1>4, FailureStop DEF RecordFailure
<1>5. CASE InvocationWrites(c)
  BY <1>5 DEF InvocationWrites
<1>6. CASE Leaves(c)
  BY <1>6, LeavesFrame
<1> QED
  BY <1>1, <1>2, <1>3, <1>4, <1>5, <1>6 DEF OutsideStages

LEMMA NextCases ==
    ASSUME [Next]_vars
    PROVE  \/ \E c \in Controllers :
                 \/ OutsideStages(c) \/ ResumeAccepted(c) \/ ImmediateTransition(c)
                 \/ StartAttempt(c) \/ Stage(c) \/ CompleteAttempt(c) \/ SaveTransition(c)
           \/ Edit
           \/ UNCHANGED vars
BY DEF Next, Resume, Drive, OutsideStages, Leaves

\* Controllers other than the one that holds the lock are in no stage.
LEMMA OthersOutside ==
    ASSUME BaseInv, NEW c \in Controllers, pc[c] \notin {"idle", "loaded"},
           NEW d \in Controllers \ {c}
    PROVE  pc[d] \notin StagePoints \cup {"loop"}
BY DEF BaseInv, HolderInv, StagePoints

-----------------------------------------------------------------------------
(* Interrupted writes *)

\* The loop starts attempts only when every write has its outcome; in a stage
\* only the controller's own attempt may be without one.
QuietInv ==
    \A c \in Controllers :
        /\ pc[c] \in {"loop", "save"} => \A i \in DOMAIN ledger : ~ OpenWrite(i)
        /\ pc[c] \in StagePoints => \A i \in DOMAIN ledger : OpenWrite(i) => i = att[c]

LEMMA InitQuiet == Init => QuietInv
BY DEF Init, QuietInv, OpenWrite

LEMMA NextQuiet == BaseInv /\ QuietInv /\ [Next]_vars => QuietInv'
<1> SUFFICES ASSUME BaseInv, QuietInv, [Next]_vars PROVE QuietInv'
  OBVIOUS
<1>0. TypeOK
  BY DEF BaseInv
<1>1. ASSUME NEW c \in Controllers, OutsideStages(c) PROVE QuietInv'
  BY <1>1, OutsideStagesFrame DEF QuietInv, OpenWrite, StagePoints
<1>2. ASSUME NEW c \in Controllers, ResumeAccepted(c) PROVE QuietInv'
  <2>1. \A i \in DOMAIN ledger : ~ OpenWrite(i)
    BY <1>2 DEF ResumeAccepted, Resumable, OpenWrite
  <2> QED
    BY <1>2, <2>1 DEF ResumeAccepted, QuietInv, OpenWrite, durable
<1>3. ASSUME NEW c \in Controllers, ImmediateTransition(c) PROVE QuietInv'
  BY <1>0, <1>3 DEF ImmediateTransition, Goto, TypeOK, QuietInv, OpenWrite, StagePoints
<1>4. ASSUME NEW c \in Controllers, StartAttempt(c) PROVE QuietInv'
  <2>1. pc[c] = "loop" /\ \A i \in DOMAIN ledger : ~ OpenWrite(i)
    BY <1>4 DEF StartAttempt, QuietInv
  <2>2. PICK r \in AttemptRecord : ledger' = Append(ledger, r)
    BY <1>0, <1>4, CaptureTyped, NewAttemptTyped DEF StartAttempt, Fingerprints
  <2>3. /\ DOMAIN ledger' = 1 .. Len(ledger) + 1
        /\ \A i \in DOMAIN ledger : ledger'[i] = ledger[i]
    BY <1>0, <2>2, LogAppend DEF TypeOK
  <2>4. att'[c] = Len(ledger) + 1 /\ pc' = [pc EXCEPT ![c] = "begin"]
    BY <1>0, <1>4 DEF StartAttempt, Goto, TypeOK
  <2>5. \A i \in DOMAIN ledger' : OpenWrite(i)' => i = att'[c]
    <3>1. DOMAIN ledger = 1 .. Len(ledger) /\ Len(ledger) \in Nat
      BY <1>0 DEF TypeOK
    <3>2. ASSUME NEW i \in DOMAIN ledger', i # Len(ledger) + 1 PROVE ~ OpenWrite(i)'
      <4>1. i \in DOMAIN ledger
        BY <2>3, <3>1, <3>2
      <4> QED
        BY <2>1, <2>3, <4>1 DEF OpenWrite
    <3> QED
      BY <2>4, <3>2
  <2> QED
    BY <1>0, <2>1, <2>4, <2>5, OthersOutside DEF QuietInv, TypeOK, StagePoints
<1>5. ASSUME NEW c \in Controllers, Stage(c) PROVE QuietInv'
  <2>1. StageStep(c)
    BY <1>0, <1>5, StageIsStep
  <2>2. /\ DOMAIN ledger' = DOMAIN ledger
        /\ \A i \in DOMAIN ledger : OpenWrite(i)' <=> OpenWrite(i)
    BY <1>0, <2>1, AmendsLog DEF StageStep, OpenWrite
  <2>3. pc[c] \in StagePoints /\ att' = att
    BY <2>1 DEF StageStep, StagePoints
  <2>4. PICK point \in StagePoints :
           /\ pc' = [pc EXCEPT ![c] = point]
           /\ point = "save" => ledger[att[c]].phase = "REPORTING"
    BY <2>1 DEF StageStep, Goto, Attempt
  <2>5. \A i \in DOMAIN ledger : OpenWrite(i) => i = att[c]
    BY <2>3 DEF QuietInv
  <2>6. point = "save" => \A i \in DOMAIN ledger : ~ OpenWrite(i)
    BY <2>4, <2>5 DEF OpenWrite, WritablePhases
  <2> QED
    BY <1>0, <2>2, <2>3, <2>4, <2>5, <2>6, OthersOutside
       DEF QuietInv, TypeOK, StagePoints
<1>6. ASSUME NEW c \in Controllers, CompleteAttempt(c) PROVE QuietInv'
  <2>1. att[c] \in DOMAIN ledger /\ pc[c] = "complete"
    BY <1>6 DEF CompleteAttempt, In
  <2>2. /\ DOMAIN ledger' = DOMAIN ledger
        /\ ledger'[att[c]] = Completed(c)
        /\ \A i \in DOMAIN ledger : i # att[c] => ledger'[i] = ledger[i]
    BY <1>0, <1>6, <2>1, AmendLog, CompletedTyped DEF CompleteAttempt, Amend
  <2>3. \A i \in DOMAIN ledger' : ~ OpenWrite(i)'
    <3>1. \A i \in DOMAIN ledger : OpenWrite(i) => i = att[c]
      BY <2>1 DEF QuietInv, StagePoints
    <3>2. Completed(c).status # "STARTED"
      BY <1>0, <2>1, CompletedTyped
    <3> QED
      BY <2>2, <3>1, <3>2 DEF OpenWrite
  <2> QED
    BY <2>3 DEF QuietInv
<1>7. ASSUME NEW c \in Controllers, SaveTransition(c) PROVE QuietInv'
  <2>1. pc[c] = "save" /\ UNCHANGED ledger
    BY <1>7 DEF SaveTransition, In
  <2>2. \A i \in DOMAIN ledger' : ~ OpenWrite(i)'
    BY <2>1 DEF QuietInv, OpenWrite
  <2> QED
    BY <2>2 DEF QuietInv
<1>8. CASE Edit
  BY <1>8 DEF Edit, QuietInv, OpenWrite
<1>9. CASE UNCHANGED vars
  BY <1>9 DEF vars, QuietInv, OpenWrite
<1> QED
  BY <1>1, <1>2, <1>3, <1>4, <1>5, <1>6, <1>7, <1>8, <1>9, NextCases

LEMMA QuietInvariant == Spec => []QuietInv
BY InitQuiet, NextQuiet, BaseInvariant, PTL DEF Spec

\* Attempts are started by the loop alone, and the loop is reached only with
\* every write accounted for.
LEMMA NewAttemptStep ==
    ASSUME BaseInv, QuietInv, [Next]_vars, Len(ledger') > Len(ledger)
    PROVE  \A i \in DOMAIN ledger : ~ OpenWrite(i)
<1>0. TypeOK /\ Len(ledger) \in Nat
  BY DEF BaseInv, TypeOK
<1>1. ASSUME NEW c \in Controllers, StartAttempt(c)
      PROVE  \A i \in DOMAIN ledger : ~ OpenWrite(i)
  BY <1>1 DEF StartAttempt, QuietInv
<1>2. ASSUME NEW c \in Controllers, Stage(c) PROVE Len(ledger') = Len(ledger)
  BY <1>0, <1>2, StageIsStep, AmendsLog DEF StageStep
<1>3. ASSUME NEW c \in Controllers, CompleteAttempt(c) PROVE Len(ledger') = Len(ledger)
  BY <1>0, <1>3, AmendLog, CompletedTyped DEF CompleteAttempt, In, Amend
<1>4. ASSUME NEW c \in Controllers,
             ResumeAccepted(c) \/ ImmediateTransition(c) \/ SaveTransition(c)
      PROVE  UNCHANGED ledger
  BY <1>4 DEF ResumeAccepted, ImmediateTransition, SaveTransition, durable
<1>5. ASSUME NEW c \in Controllers, OutsideStages(c) PROVE UNCHANGED ledger
  BY <1>5, OutsideStagesFrame
<1>6. Edit \/ UNCHANGED vars => UNCHANGED ledger
  BY DEF Edit, vars
<1> QED
  BY <1>0, <1>1, <1>2, <1>3, <1>4, <1>5, <1>6, NextCases

\* An agent that was writing when its controller died is followed by no other
\* attempt, however many controllers resume the run afterwards with whatever
\* they had loaded before (resume_problem under the repository lock).
THEOREM LifecycleInterruptedWriteStopsRun == Spec => InterruptedWriteStopsRun
<1>1. BaseInv /\ QuietInv /\ [Next]_vars =>
         [ Len(ledger') > Len(ledger) => \A i \in DOMAIN ledger : ~ OpenWrite(i) ]_vars
  BY NewAttemptStep
<1> QED
  BY <1>1, BaseInvariant, QuietInvariant, PTL DEF Spec, InterruptedWriteStopsRun

-----------------------------------------------------------------------------
(* The evidence of an accepted run *)

\* Reporting that has got past its acceptance check.
Accepted(c) ==
    /\ pc[c] \in StagePoints
    /\ ledger[att[c]].phase = "REPORTING"
    /\ \/ pc[c] \in {"executing", "finish"}
       \/ pc[c] = "save" /\ decision[c].outcome = "COMPLETED"

\* The approval that justifies READY_FOR_HUMAN exists as soon as reporting has
\* accepted the run; what could disturb it is an attempt that is amended once it
\* is complete, or a write that is started over a record that says ready.
EvidenceInv ==
    /\ ReadyHasEvidence
    /\ \A c \in Controllers :
          /\ Accepted(c) => SourceApproved
          /\ pc[c] \in {"begin", "executing", "finish"} => ledger[att[c]].status = "STARTED"
          /\ pc[c] = "loop" /\ mem[c].state \in WritablePhases =>
                disk.state # "READY_FOR_HUMAN"

LEMMA InitEvidence == Init => EvidenceInv
BY DEF Init, EvidenceInv, ReadyHasEvidence, Accepted, StagePoints, NewRun, WritablePhases

\* evaluate_handoff_policy checks all of it on the request it is given.
LEMMA AcceptanceApproves ==
    ASSUME TypeOK, NEW rec, NEW ws, HandoffAccepts(rec, ledger, ws)
    PROVE  SourceApproved
<1>1. PICK w, v, r \in DOMAIN ledger :
         /\ LatestWritable(ledger, w) /\ ledger[w].after = ws
         /\ IsLatest(ledger, v, {"VERIFYING"}, AttemptStatus)
         /\ ledger[v].status = "COMPLETED" /\ ledger[v].verdict = "PASS"
         /\ w < v /\ ledger[v].before = ws /\ ledger[v].after = ws
         /\ IsLatest(ledger, r, {"REVIEWING"}, AttemptStatus)
         /\ ledger[r].status = "COMPLETED" /\ ledger[r].verdict = "PASS"
         /\ v < r
         /\ ledger[r].before = ledger[v].after /\ ledger[r].after = ledger[v].after
  BY DEF HandoffAccepts
<1>2. \A i \in DOMAIN ledger :
         ledger[i].phase \in WritablePhases => ledger[i].status = "COMPLETED"
  BY DEF HandoffAccepts
<1>3. w \in Nat /\ \A i \in DOMAIN ledger : i \in Nat
  BY DEF TypeOK
<1>4. \A i \in DOMAIN ledger : ledger[i].phase \in WritablePhases => i <= w
  BY <1>1, <1>2, <1>3 DEF LatestWritable, IsLatest
<1>5. ledger[w].phase \in WritablePhases /\ ledger[w].status = "COMPLETED"
  BY <1>1 DEF LatestWritable, IsLatest
<1>6. ledger[v].phase = "VERIFYING" /\ ledger[r].phase = "REVIEWING"
  BY <1>1 DEF IsLatest
<1> QED
  BY <1>1, <1>2, <1>4, <1>5, <1>6 DEF SourceApproved, ApprovedBy

\* An approval survives any change to an attempt that is not complete, as long
\* as no write is added.
LEMMA ApprovalSurvives ==
    ASSUME TypeOK, SourceApproved, NEW k,
           DOMAIN ledger \subseteq DOMAIN ledger',
           \A i \in DOMAIN ledger : i # k => ledger'[i] = ledger[i],
           k \in DOMAIN ledger =>
              ledger[k].status = "STARTED" /\ ledger'[k].phase = ledger[k].phase,
           \A i \in DOMAIN ledger' \ DOMAIN ledger : ledger'[i].phase \notin WritablePhases
    PROVE  SourceApproved'
<1>1. PICK w, v, r \in DOMAIN ledger : ApprovedBy(w, v, r)
  BY DEF SourceApproved
<1>2. k \notin {w, v, r}
  BY <1>1 DEF ApprovedBy
<1>3. ledger'[w] = ledger[w] /\ ledger'[v] = ledger[v] /\ ledger'[r] = ledger[r]
  BY <1>2
<1>4. ASSUME NEW i \in DOMAIN ledger', ledger'[i].phase \in WritablePhases
      PROVE  i <= w /\ ledger'[i].status = "COMPLETED"
  <2>1. i \in DOMAIN ledger
    BY <1>4
  <2>2. i # k
    BY <1>1, <1>4, <2>1 DEF ApprovedBy
  <2> QED
    BY <1>1, <1>4, <2>1, <2>2 DEF ApprovedBy
<1>5. ApprovedBy(w, v, r)'
  BY <1>1, <1>3, <1>4 DEF ApprovedBy
<1> QED
  BY <1>1, <1>5 DEF SourceApproved

\* Reporting alone can lead to READY_FOR_HUMAN, and only when it completes.
LEMMA ReadyNeedsReporting ==
    ASSUME TypeOK, NEW c \in Controllers, mem[c].state \in AttemptPhase,
           Decided(c).state = "READY_FOR_HUMAN"
    PROVE  mem[c].state = "REPORTING" /\ decision[c].outcome = "COMPLETED"
<1>1. decision[c].outcome \in StageOutcome
  BY DEF TypeOK, Decision
<1>2. RequestedState(mem[c].state, decision[c].outcome) = "READY_FOR_HUMAN"
  BY DEF Decided
<1> QED
  BY <1>1, <1>2 DEF RequestedState, CompletedTransition, StageOutcome, AttemptPhase,
                    WritablePhases, ReadOnlyPhases

\* A stage of another phase cannot accept, and reporting accepts on the evidence
\* in front of it or goes on with what it had accepted.
LEMMA StageAccepts ==
    ASSUME BaseInv, EvidenceInv, NEW c \in Controllers, Stage(c), Accepted(c)'
    PROVE  SourceApproved /\ UNCHANGED ledger
<1>0. TypeOK
  BY DEF BaseInv
<1>1. Attempt(c).phase = "REPORTING" /\ UNCHANGED att
  <2>1. StageStep(c)
    BY <1>0, StageIsStep
  <2> QED
    BY <1>0, <2>1, AmendsLog DEF StageStep, Accepted, Attempt
<1>2. BeginHandoff(c) \/ CapturePatch(c) \/ RecheckHandoff(c)
  BY <1>1 DEF Stage, BeginVerification, PreparationRaises, RunVerification, BeginReview,
              RunReview, BeginWritable, RunWritable, Finish, In, Attempt, WritablePhases
<1>3. CASE BeginHandoff(c)
  <2>1. PICK seen \in Capture(workspace) :
           IF Unchanged(seen, c) /\ HandoffAccepts(mem[c], ledger, seen)
           THEN Goto(c, "executing") /\ UNCHANGED decision
           ELSE /\ Decide(c, "HUMAN_REQUIRED", seen, mem[c].correction)
                /\ Goto(c, "save")
    BY <1>3 DEF BeginHandoff
  <2>2. CASE HandoffAccepts(mem[c], ledger, seen)
    BY <1>0, <1>3, <2>2, AcceptanceApproves DEF BeginHandoff
  <2>3. CASE ~ HandoffAccepts(mem[c], ledger, seen)
    BY <1>0, <2>1, <2>3 DEF Decide, Goto, Accepted, TypeOK
  <2> QED
    BY <2>2, <2>3
<1>4. CASE CapturePatch(c) \/ RecheckHandoff(c)
  <2>1. Accepted(c) /\ UNCHANGED ledger
    BY <1>1, <1>4 DEF CapturePatch, RecheckHandoff, In, Accepted, StagePoints, Attempt
  <2> QED
    BY <2>1 DEF EvidenceInv
<1> QED
  BY <1>2, <1>3, <1>4

LEMMA NextEvidence == BaseInv /\ EvidenceInv /\ [Next]_vars => EvidenceInv'
<1> SUFFICES ASSUME BaseInv, EvidenceInv, [Next]_vars PROVE EvidenceInv'
  OBVIOUS
<1>0. TypeOK
  BY DEF BaseInv
<1>a. ASSUME UNCHANGED ledger PROVE SourceApproved' <=> SourceApproved
  BY <1>a DEF SourceApproved, ApprovedBy
<1>1. ASSUME NEW c \in Controllers, OutsideStages(c) PROVE EvidenceInv'
  <2>1. UNCHANGED ledger /\ (disk' # disk => disk'.state # "READY_FOR_HUMAN")
    BY <1>1, OutsideStagesFrame
  <2>2. ReadyHasEvidence'
    BY <2>1, <1>a DEF EvidenceInv, ReadyHasEvidence
  <2>3. ASSUME NEW d \in Controllers
        PROVE  /\ Accepted(d)' => SourceApproved'
               /\ pc'[d] \in {"begin", "executing", "finish"} =>
                     ledger'[att'[d]].status = "STARTED"
               /\ pc'[d] = "loop" /\ mem'[d].state \in WritablePhases =>
                     disk'.state # "READY_FOR_HUMAN"
    <3>1. pc'[d] \in StagePoints \cup {"loop"} =>
             /\ pc'[d] = pc[d] /\ mem'[d] = mem[d]
             /\ att'[d] = att[d] /\ decision'[d] = decision[d]
      BY <1>1, OutsideStagesFrame
    <3> QED
      BY <2>1, <3>1, <1>a DEF EvidenceInv, Accepted, StagePoints
  <2> QED
    BY <2>2, <2>3 DEF EvidenceInv
<1>2. ASSUME NEW c \in Controllers, ResumeAccepted(c) PROVE EvidenceInv'
  <2>1. UNCHANGED <<ledger, disk, mem, att, decision>> /\ mem[c].state \notin WritablePhases
    BY <1>2 DEF ResumeAccepted, Resumable, durable
  <2>2. pc' = [pc EXCEPT ![c] = "loop"]
    BY <1>2 DEF ResumeAccepted, Goto
  <2> QED
    BY <1>0, <2>1, <2>2, <1>a
       DEF EvidenceInv, ReadyHasEvidence, Accepted, StagePoints, TypeOK
<1>3. ASSUME NEW c \in Controllers, ImmediateTransition(c) PROVE EvidenceInv'
  <2>1. /\ disk' = Immediate(mem[c]) /\ mem' = [mem EXCEPT ![c] = disk']
        /\ UNCHANGED <<ledger, att, decision>>
        /\ \E point \in {"publish", "loop"} : pc' = [pc EXCEPT ![c] = point]
        /\ pc[c] = "loop"
    BY <1>3 DEF ImmediateTransition, Goto
  <2>2. disk'.state # "READY_FOR_HUMAN"
    BY <1>0, <2>1 DEF Immediate, ImmediateTarget, TypeOK, RunRecord
  <2>3. ReadyHasEvidence'
    BY <2>2 DEF ReadyHasEvidence
  <2>4. ASSUME NEW d \in Controllers
        PROVE  /\ Accepted(d)' => SourceApproved'
               /\ pc'[d] \in {"begin", "executing", "finish"} =>
                     ledger'[att'[d]].status = "STARTED"
    BY <1>0, <2>1, <1>a DEF EvidenceInv, Accepted, StagePoints, TypeOK
  <2> QED
    BY <2>2, <2>3, <2>4 DEF EvidenceInv
<1>4. ASSUME NEW c \in Controllers, StartAttempt(c) PROVE EvidenceInv'
  <2>1. PICK fingerprint \in Fingerprints :
           ledger' = Append(ledger, NewAttempt(mem[c].state, fingerprint))
    BY <1>0, <1>4, CaptureTyped DEF StartAttempt, Fingerprints
  <2>2. /\ NewAttempt(mem[c].state, fingerprint) \in AttemptRecord
        /\ NewAttempt(mem[c].state, fingerprint).phase = mem[c].state
        /\ NewAttempt(mem[c].state, fingerprint).status = "STARTED"
    BY <1>4, NewAttemptTyped DEF StartAttempt
  <2>3. /\ DOMAIN ledger' = 1 .. Len(ledger) + 1
        /\ \A i \in DOMAIN ledger : ledger'[i] = ledger[i]
        /\ ledger'[Len(ledger) + 1].phase = mem[c].state
        /\ ledger'[Len(ledger) + 1].status = "STARTED"
    BY <1>0, <2>1, <2>2, LogAppend DEF TypeOK
  <2>4. /\ pc[c] = "loop" /\ UNCHANGED <<disk, mem, decision>>
        /\ pc' = [pc EXCEPT ![c] = "begin"] /\ att'[c] = Len(ledger) + 1
    BY <1>0, <1>4 DEF StartAttempt, Goto, TypeOK
  <2>5. ReadyHasEvidence'
    <3> SUFFICES ASSUME disk.state = "READY_FOR_HUMAN" PROVE SourceApproved'
      BY <2>4 DEF ReadyHasEvidence
    <3>1. mem[c].state \notin WritablePhases /\ SourceApproved
      BY <2>4 DEF EvidenceInv, ReadyHasEvidence
    <3>2. DOMAIN ledger = 1 .. Len(ledger) /\ Len(ledger) \in Nat
      BY <1>0 DEF TypeOK
    <3>3. \A i \in DOMAIN ledger' \ DOMAIN ledger : i = Len(ledger) + 1
      BY <2>3, <3>2
    <3>4. DOMAIN ledger \subseteq DOMAIN ledger' /\ Len(ledger) + 1 \notin DOMAIN ledger
      BY <2>3, <3>2
    <3> QED
      BY <1>0, <2>3, <3>1, <3>3, <3>4, ApprovalSurvives
  <2>6. ASSUME NEW d \in Controllers
        PROVE  /\ ~ Accepted(d)'
               /\ pc'[d] \in {"begin", "executing", "finish"} =>
                     ledger'[att'[d]].status = "STARTED"
               /\ pc'[d] # "loop"
    BY <1>0, <2>3, <2>4, OthersOutside DEF Accepted, StagePoints, TypeOK
  <2> QED
    BY <2>5, <2>6 DEF EvidenceInv
<1>5. ASSUME NEW c \in Controllers, Stage(c) PROVE EvidenceInv'
  <2>1. StageStep(c)
    BY <1>0, <1>5, StageIsStep
  <2>2. /\ DOMAIN ledger' = DOMAIN ledger
        /\ \A i \in DOMAIN ledger : /\ ledger'[i].phase = ledger[i].phase
                                    /\ ledger'[i].status = ledger[i].status
                                    /\ i # att[c] => ledger'[i] = ledger[i]
    BY <1>0, <2>1, AmendsLog DEF StageStep
  <2>3. /\ pc[c] \in {"begin", "executing", "finish"} /\ att[c] \in DOMAIN ledger
        /\ UNCHANGED <<disk, mem, att>>
        /\ \E point \in StagePoints : pc' = [pc EXCEPT ![c] = point]
    BY <2>1 DEF StageStep, Goto
  <2>4. ledger[att[c]].status = "STARTED"
    BY <2>3 DEF EvidenceInv
  <2>5. SourceApproved => SourceApproved'
    BY <1>0, <2>2, <2>3, <2>4, ApprovalSurvives
  <2>6. ReadyHasEvidence'
    BY <2>3, <2>5 DEF EvidenceInv, ReadyHasEvidence
  <2>7. Accepted(c)' => SourceApproved'
    BY <1>5, <1>a, StageAccepts
  <2>8. \A d \in Controllers \ {c} : pc'[d] \notin StagePoints \cup {"loop"}
    BY <1>0, <2>3, OthersOutside DEF TypeOK
  <2>9. pc'[c] # "loop" /\ ledger'[att'[c]].status = "STARTED"
    BY <1>0, <2>2, <2>3, <2>4 DEF TypeOK, StagePoints
  <2> QED
    BY <2>6, <2>7, <2>8, <2>9 DEF EvidenceInv, Accepted, StagePoints
<1>6. ASSUME NEW c \in Controllers, CompleteAttempt(c) PROVE EvidenceInv'
  <2>1. /\ att[c] \in DOMAIN ledger /\ pc[c] = "complete" /\ Attempt(c).status = "STARTED"
        /\ UNCHANGED <<disk, att, decision>>
        /\ pc' = [pc EXCEPT ![c] = IF Attempt(c).phase = "REPORTING"
                                   THEN "publish" ELSE "save"]
    BY <1>6 DEF CompleteAttempt, In, Goto
  <2>2. /\ DOMAIN ledger' = DOMAIN ledger
        /\ ledger'[att[c]].phase = ledger[att[c]].phase
        /\ \A i \in DOMAIN ledger : i # att[c] => ledger'[i] = ledger[i]
    BY <1>0, <1>6, <2>1, AmendLog, CompletedTyped DEF CompleteAttempt, Amend, Attempt
  <2>3. SourceApproved => SourceApproved'
    BY <1>0, <2>1, <2>2, ApprovalSurvives DEF Attempt
  <2>4. ReadyHasEvidence'
    BY <2>1, <2>3 DEF EvidenceInv, ReadyHasEvidence
  <2>5. \A d \in Controllers \ {c} : pc'[d] \notin StagePoints \cup {"loop"}
    BY <1>0, <2>1, OthersOutside DEF TypeOK
  <2>6. pc'[c] \notin {"begin", "executing", "finish", "loop"} /\ ~ Accepted(c)'
    BY <1>0, <2>1, <2>2 DEF Accepted, Attempt, TypeOK, StagePoints
  <2> QED
    BY <2>4, <2>5, <2>6 DEF EvidenceInv, Accepted, StagePoints
<1>7. ASSUME NEW c \in Controllers, SaveTransition(c) PROVE EvidenceInv'
  <2>1. /\ pc[c] = "save" /\ att[c] \in DOMAIN ledger /\ disk' = Decided(c)
        /\ mem[c].state = ledger[att[c]].phase /\ mem[c].state \in AttemptPhase
        /\ UNCHANGED <<ledger, att, decision>>
    BY <1>7 DEF SaveTransition, In, BaseInv, FrameInv, StagePoints
  <2>2. disk'.state = "READY_FOR_HUMAN" => Accepted(c)
    BY <1>0, <2>1, ReadyNeedsReporting DEF Accepted, StagePoints
  <2>3. ReadyHasEvidence'
    BY <2>1, <2>2, <1>a DEF EvidenceInv, ReadyHasEvidence
  <2>4. \A d \in Controllers \ {c} : pc'[d] \notin StagePoints \cup {"loop"}
    BY <1>0, <1>7, <2>1, OthersOutside DEF SaveTransition, Goto, TypeOK
  <2>5. CASE Attempt(c).phase = "REPORTING"
    <3>1. pc'[c] = "complete"
      BY <1>0, <1>7, <2>5 DEF SaveTransition, Goto, TypeOK
    <3> QED
      BY <2>3, <2>4, <3>1 DEF EvidenceInv, Accepted, StagePoints
  <2>6. CASE Attempt(c).phase # "REPORTING"
    <3>1. pc'[c] \in {"publish", "loop"}
      BY <1>0, <1>7, <2>6 DEF SaveTransition, Goto, TypeOK
    <3>2. disk'.state # "READY_FOR_HUMAN"
      BY <1>0, <2>1, <2>6, ReadyNeedsReporting DEF Attempt
    <3> QED
      BY <2>3, <2>4, <3>1, <3>2 DEF EvidenceInv, Accepted, StagePoints
  <2> QED
    BY <2>5, <2>6
<1>8. CASE Edit
  BY <1>8, <1>a DEF Edit, EvidenceInv, ReadyHasEvidence, Accepted
<1>9. CASE UNCHANGED vars
  BY <1>9, <1>a DEF vars, EvidenceInv, ReadyHasEvidence, Accepted
<1> QED
  BY <1>1, <1>2, <1>3, <1>4, <1>5, <1>6, <1>7, <1>8, <1>9, NextCases

LEMMA EvidenceInvariant == Spec => []EvidenceInv
BY InitEvidence, NextEvidence, BaseInvariant, PTL DEF Spec

\* READY_FOR_HUMAN always comes with a source that was written, verified and
\* reviewed in that order and not written again: for every number of controllers
\* (stale resumes included), crash, outside edit and correction round
\* (HandoffAcceptanceService.accept and the lifecycle around it).
THEOREM LifecycleReadyHasEvidence == Spec => []ReadyHasEvidence
<1>1. EvidenceInv => ReadyHasEvidence
  BY DEF EvidenceInv
<1> QED
  BY <1>1, EvidenceInvariant, PTL

-----------------------------------------------------------------------------
(* The report *)

\* What is about to be published is on disk: reporting saves its decision before
\* it completes its attempt, and everything else saves what it publishes.
DurableInv ==
    \A c \in Controllers :
        /\ pc[c] = "publish" => mem[c] = disk
        /\ pc[c] = "complete" /\ ledger[att[c]].phase = "REPORTING" => Decided(c) = disk

LEMMA InitDurable == Init => DurableInv
BY DEF Init, DurableInv

\* Only the holder of the lock is at a point DurableInv speaks of.
LEMMA OthersAreNotPublishing ==
    ASSUME BaseInv, NEW c \in Controllers, pc[c] \notin {"idle", "loaded"},
           NEW d \in Controllers \ {c}, pc'[d] = pc[d]
    PROVE  pc'[d] \notin {"publish", "complete"}
BY DEF BaseInv, HolderInv

LEMMA NextDurable == BaseInv /\ DurableInv /\ [Next]_vars => DurableInv'
<1> SUFFICES ASSUME BaseInv, DurableInv, [Next]_vars PROVE DurableInv'
  OBVIOUS
<1>0. TypeOK
  BY DEF BaseInv
<1> USE DEF Goto
<1>1. ASSUME NEW c \in Controllers,
             LoadRecord(c) \/ AcquireLock(c) \/ LockBusy(c) \/ ResumeTerminal(c)
                \/ ResumeAccepted(c) \/ StageRaises(c) \/ PublishReport(c)
                \/ ReleaseLock(c) \/ InvocationWrites(c) \/ Crash(c)
      PROVE  DurableInv'
  <2>1. UNCHANGED <<disk, ledger>>
    BY <1>1 DEF LoadRecord, AcquireLock, LockBusy, ResumeTerminal, ResumeAccepted,
                StageRaises, PublishReport, ReleaseLock, InvocationWrites, Crash, durable
  <2>2. ASSUME NEW d \in Controllers, pc'[d] \in {"publish", "complete"}
        PROVE  /\ pc'[d] = pc[d] /\ mem'[d] = mem[d]
               /\ att'[d] = att[d] /\ decision'[d] = decision[d]
    BY <1>0, <1>1, <2>2
       DEF LoadRecord, AcquireLock, LockBusy, ResumeTerminal, ResumeAccepted, StageRaises,
           PublishReport, ReleaseLock, InvocationWrites, Crash, Forget, TypeOK
  <2> QED
    BY <2>1, <2>2 DEF DurableInv, Decided
<1>2. ASSUME NEW c \in Controllers,
             ResumeRefused(c) \/ RecordFailure(c) \/ ImmediateTransition(c)
      PROVE  DurableInv'
  <2>1. /\ pc[c] \notin {"idle", "loaded"}
        /\ \E point \in ControlPoints : pc' = [pc EXCEPT ![c] = point]
        /\ pc'[c] # "complete"
        /\ pc'[c] = "publish" => mem'[c] = disk'
    BY <1>0, <1>2 DEF ResumeRefused, RecordFailure, ImmediateTransition, TypeOK, ControlPoints
  <2>2. \A d \in Controllers \ {c} : pc'[d] \notin {"publish", "complete"}
    BY <1>0, <2>1, OthersAreNotPublishing DEF TypeOK
  <2> QED
    BY <2>1, <2>2 DEF DurableInv
<1>3. ASSUME NEW c \in Controllers, StartAttempt(c) PROVE DurableInv'
  <2>1. pc[c] = "loop" /\ pc' = [pc EXCEPT ![c] = "begin"]
    BY <1>3 DEF StartAttempt
  <2>2. \A d \in Controllers \ {c} : pc'[d] \notin {"publish", "complete"}
    BY <1>0, <2>1, OthersAreNotPublishing DEF TypeOK
  <2> QED
    BY <1>0, <2>1, <2>2 DEF DurableInv, TypeOK
<1>4. ASSUME NEW c \in Controllers, Stage(c) PROVE DurableInv'
  <2>1. StageStep(c)
    BY <1>0, <1>4, StageIsStep
  <2>2. PICK point \in StagePoints :
           /\ pc' = [pc EXCEPT ![c] = point]
           /\ point = "complete" => ledger[att[c]].phase # "REPORTING"
    BY <2>1 DEF StageStep, Attempt
  <2>3. ledger'[att[c]].phase = ledger[att[c]].phase /\ att' = att
    BY <1>0, <2>1, AmendsLog DEF StageStep
  <2>4. \A d \in Controllers \ {c} : pc'[d] \notin {"publish", "complete"}
    BY <1>0, <2>1, <2>2, OthersAreNotPublishing DEF StageStep, TypeOK
  <2> QED
    BY <1>0, <2>2, <2>3, <2>4 DEF DurableInv, StagePoints, TypeOK
<1>5. ASSUME NEW c \in Controllers, CompleteAttempt(c) PROVE DurableInv'
  <2>1. /\ pc[c] = "complete" /\ UNCHANGED disk
        /\ pc' = [pc EXCEPT ![c] = IF ledger[att[c]].phase = "REPORTING"
                                   THEN "publish" ELSE "save"]
        /\ mem' = [mem EXCEPT ![c] = IF ledger[att[c]].phase = "REPORTING"
                                     THEN Decided(c) ELSE @]
    BY <1>5 DEF CompleteAttempt, In, Attempt
  <2>2. \A d \in Controllers \ {c} : pc'[d] \notin {"publish", "complete"}
    BY <1>0, <2>1, OthersAreNotPublishing DEF TypeOK
  <2>3. pc'[c] # "complete" /\ (pc'[c] = "publish" => mem'[c] = disk')
    BY <1>0, <2>1 DEF DurableInv, TypeOK
  <2> QED
    BY <2>2, <2>3 DEF DurableInv
<1>6. ASSUME NEW c \in Controllers, SaveTransition(c) PROVE DurableInv'
  <2>1. /\ pc[c] = "save" /\ disk' = Decided(c) /\ UNCHANGED <<ledger, att, decision>>
        /\ \E point \in ControlPoints : pc' = [pc EXCEPT ![c] = point]
    BY <1>6 DEF SaveTransition, In, ControlPoints
  <2>2. \A d \in Controllers \ {c} : pc'[d] \notin {"publish", "complete"}
    BY <1>0, <2>1, OthersAreNotPublishing DEF TypeOK
  <2>3. CASE ledger[att[c]].phase = "REPORTING"
    <3>1. pc'[c] = "complete" /\ UNCHANGED mem
      BY <1>0, <1>6, <2>3 DEF SaveTransition, Attempt, TypeOK
    <3>2. Decided(c)' = disk'
      BY <2>1, <3>1 DEF Decided
    <3> QED
      BY <2>2, <3>1, <3>2 DEF DurableInv
  <2>4. CASE ledger[att[c]].phase # "REPORTING"
    <3>1. pc'[c] # "complete" /\ mem'[c] = disk'
      BY <1>0, <1>6, <2>1, <2>4 DEF SaveTransition, Attempt, TypeOK
    <3> QED
      BY <2>2, <3>1 DEF DurableInv
  <2> QED
    BY <2>3, <2>4
<1>7. CASE Edit
  BY <1>7 DEF Edit, DurableInv, Decided
<1>8. CASE UNCHANGED vars
  BY <1>8 DEF vars, DurableInv, Decided
<1>9. ASSUME NEW c \in Controllers, Leaves(c) PROVE DurableInv'
  <2>1. pc[c] \in {"locked", "failing"} /\ pc' = [pc EXCEPT ![c] = "release"]
    BY <1>0, <1>9, LeavesFrame
  <2>2. \A d \in Controllers \ {c} : pc'[d] \notin {"publish", "complete"}
    BY <1>0, <2>1, OthersAreNotPublishing DEF TypeOK
  <2> QED
    BY <1>0, <2>1, <2>2 DEF DurableInv, TypeOK
<1> QED
  BY <1>1, <1>2, <1>3, <1>4, <1>5, <1>6, <1>7, <1>8, <1>9 DEF Next, Resume, Drive, Leaves

LEMMA DurableInvariant == Spec => []DurableInv
BY InitDurable, NextDurable, BaseInvariant, PTL DEF Spec

\* Whichever controllers resumed the run with whatever stale records, a report is
\* published only of the record that is on disk at that moment
\* (_publish_terminal_report after _save_lifecycle_run or _mark_terminal_stop).
THEOREM LifecycleReportIsDurable == Spec => ReportShowsDurableState
<1>1. ASSUME BaseInv, DurableInv, [Next]_vars, report' # report
      PROVE  report' = disk.state
  <2>1. PICK c \in Controllers : PublishReport(c)
    <3>1. ASSUME NEW c \in Controllers, Stage(c) PROVE UNCHANGED report
      BY <1>1, <3>1, StageIsStep DEF StageStep, BaseInv
    <3> QED
      BY <1>1, <3>1
         DEF Next, Resume, Drive, LoadRecord, AcquireLock, LockBusy, ResumeTerminal,
             ResumeAccepted, ResumeRefused, ImmediateTransition, StartAttempt,
             CompleteAttempt, SaveTransition, StageRaises, RecordFailure, ReleaseLock,
             ResumeRaises, RecordFailureRaises, Crash, InvocationWrites, Edit, durable, vars
  <2> QED
    BY <1>1, <2>1 DEF PublishReport, DurableInv
<1>2. BaseInv /\ DurableInv /\ [Next]_vars =>
         [ report' # report => report' = disk.state ]_vars
  BY <1>1
<1> QED
  BY <1>2, BaseInvariant, DurableInvariant, PTL DEF Spec, ReportShowsDurableState

-----------------------------------------------------------------------------
(***************************************************************************)
(* Second part: runs whose resumes act on the record on disk               *)
(*                                                                         *)
(* Theorems about runs in which no resume acts on a record that somebody   *)
(* else has changed since it was loaded, for any number of controllers,    *)
(* crashes and outside edits.                                              *)
(***************************************************************************)

\* Whoever has the lock and is about to decide whether to resume has loaded the
\* record that is on disk.
FreshResumes == \A c \in Controllers : pc[c] = "locked" => mem[c] = disk

Current(c) == ledger[att[c]]

\* Nobody but c is in a stage or in the loop after the step.
Alone(c) == \A d \in Controllers \ {c} : pc'[d] \notin StagePoints \cup {"loop"}

LEMMA RecordsTyped ==
    ASSUME TypeOK
    PROVE  \A i \in DOMAIN ledger : ledger[i] \in AttemptRecord
BY DEF TypeOK

-----------------------------------------------------------------------------
(* What the steps of the loop do, record by record *)

LEMMA OutsideEffect ==
    ASSUME BaseInv, NEW c \in Controllers, OutsideStages(c)
    PROVE  /\ UNCHANGED <<ledger, patch, edits>>
           /\ \/ UNCHANGED workspace
              \/ In(c, "executing", AttemptPhase \ {"REPORTING"}) /\ UNCHANGED pc
           /\ \A d \in Controllers :
                 pc'[d] \in StagePoints \cup {"loop"} =>
                    /\ pc'[d] = pc[d] /\ mem'[d] = mem[d]
                    /\ att'[d] = att[d] /\ decision'[d] = decision[d]
                    /\ UNCHANGED disk
           /\ \/ UNCHANGED disk
              \/ /\ disk.state \notin TerminalStates
                 /\ \/ disk'.state = "HUMAN_REQUIRED"
                    \/ disk'.state = "FAILED" /\ disk.state \notin WritablePhases
                 /\ disk'.correction = disk.correction /\ disk'.review = disk.review
<1>0. TypeOK
  BY DEF BaseInv
<1>1. /\ UNCHANGED ledger
      /\ \A d \in Controllers :
            pc'[d] \in StagePoints \cup {"loop"} =>
               /\ pc'[d] = pc[d] /\ mem'[d] = mem[d]
               /\ att'[d] = att[d] /\ decision'[d] = decision[d]
  BY OutsideStagesFrame
<1>2. UNCHANGED <<patch, edits>>
  BY <1>0, LeavesFrame
     DEF OutsideStages, LoadRecord, AcquireLock, LockBusy, ResumeTerminal, ResumeRefused,
         StageRaises, RecordFailure, PublishReport, ReleaseLock, InvocationWrites, Crash,
         durable, budgets
<1>3. \/ UNCHANGED workspace
      \/ In(c, "executing", AttemptPhase \ {"REPORTING"}) /\ UNCHANGED pc
  BY <1>0, LeavesFrame
     DEF OutsideStages, LoadRecord, AcquireLock, LockBusy, ResumeTerminal, ResumeRefused,
         StageRaises, RecordFailure, PublishReport, ReleaseLock, InvocationWrites, Crash,
         durable, budgets
<1>4. CASE UNCHANGED disk
  BY <1>1, <1>2, <1>3, <1>4
<1>5. CASE disk' # disk
  <2>1. ResumeRefused(c) \/ RecordFailure(c) \/ Leaves(c)
    BY <1>5 DEF OutsideStages, LoadRecord, AcquireLock, LockBusy, ResumeTerminal,
                StageRaises, PublishReport, ReleaseLock, InvocationWrites, Crash, durable
  <2>2. /\ disk.state \notin TerminalStates
        /\ \/ disk'.state = "HUMAN_REQUIRED"
           \/ disk'.state = "FAILED" /\ disk.state \notin WritablePhases
        /\ disk'.correction = disk.correction /\ disk'.review = disk.review
    <3>1. CASE ResumeRefused(c)
      BY <1>0, <1>5, <3>1 DEF ResumeRefused, TypeOK, RunRecord
    <3>2. CASE RecordFailure(c)
      BY <1>0, <1>5, <3>2, FailureStop DEF RecordFailure
    <3>3. CASE Leaves(c)
      BY <1>0, <1>5, <3>3, LeavesFrame
    <3> QED
      BY <2>1, <3>1, <3>2, <3>3
  <2>3. /\ pc[c] \in {"locked", "failing"}
        /\ \E point \in {"publish", "release"} : pc' = [pc EXCEPT ![c] = point]
    BY <1>0, <2>1, LeavesFrame DEF ResumeRefused, RecordFailure, Goto
  <2>4. \A d \in Controllers \ {c} : pc[d] \notin StagePoints \cup {"loop"}
    BY <2>3, OthersOutside
  <2>5. \A d \in Controllers : pc'[d] \notin StagePoints \cup {"loop"}
    BY <1>0, <2>3, <2>4 DEF StagePoints, TypeOK
  <2> QED
    BY <1>1, <1>2, <1>3, <2>2, <2>5
<1> QED
  BY <1>4, <1>5

LEMMA StartEffect ==
    ASSUME BaseInv, NEW c \in Controllers, StartAttempt(c)
    PROVE  /\ pc[c] = "loop" /\ pc'[c] = "begin" /\ mem[c].state \in AttemptPhase
           /\ att'[c] = Len(ledger) + 1
           /\ UNCHANGED <<disk, workspace, patch, mem, decision, edits>>
           /\ ledger' \in Seq(AttemptRecord) /\ Len(ledger') = Len(ledger) + 1
           /\ DOMAIN ledger' = 1 .. Len(ledger) + 1 /\ DOMAIN ledger = 1 .. Len(ledger)
           /\ Len(ledger) \in Nat
           /\ \A i \in DOMAIN ledger : ledger'[i] = ledger[i]
           /\ \E f \in IF mem[c].state \in WritablePhases
                       THEN {NoFingerprint} ELSE Capture(workspace) :
                 ledger' = Append(ledger, NewAttempt(mem[c].state, f))
           /\ ledger'[Len(ledger) + 1].phase = mem[c].state
           /\ ledger'[Len(ledger) + 1].status = "STARTED"
           /\ ledger'[Len(ledger) + 1].started = FALSE
           /\ ledger'[Len(ledger) + 1].after = NoFingerprint
           /\ ledger'[Len(ledger) + 1].before \in Capture(workspace)
           /\ Alone(c)
<1>0. TypeOK
  BY DEF BaseInv
<1>1. PICK f \in IF mem[c].state \in WritablePhases
                 THEN {NoFingerprint} ELSE Capture(workspace) :
         ledger' = Append(ledger, NewAttempt(mem[c].state, f))
  BY DEF StartAttempt
<1>2. f \in Capture(workspace) /\ f \in Fingerprints
  BY <1>0, CaptureTyped DEF Capture
<1>3. NewAttempt(mem[c].state, f) \in AttemptRecord
  BY <1>2, NewAttemptTyped DEF StartAttempt
<1>4. /\ ledger' \in Seq(AttemptRecord) /\ Len(ledger') = Len(ledger) + 1
      /\ DOMAIN ledger' = 1 .. Len(ledger) + 1 /\ DOMAIN ledger = 1 .. Len(ledger)
      /\ Len(ledger) \in Nat
      /\ \A i \in DOMAIN ledger : ledger'[i] = ledger[i]
      /\ ledger'[Len(ledger) + 1] = NewAttempt(mem[c].state, f)
  BY <1>0, <1>1, <1>3, LogAppend DEF TypeOK
<1>5. /\ pc[c] = "loop" /\ pc' = [pc EXCEPT ![c] = "begin"] /\ mem[c].state \in AttemptPhase
      /\ att'[c] = Len(ledger) + 1
      /\ UNCHANGED <<disk, workspace, patch, mem, decision, edits>>
  BY <1>0 DEF StartAttempt, Goto, TypeOK, budgets
<1>6. Alone(c) /\ pc'[c] = "begin"
  BY <1>0, <1>5, OthersOutside DEF Alone, TypeOK
<1>7. /\ ledger'[Len(ledger) + 1].phase = mem[c].state
      /\ ledger'[Len(ledger) + 1].status = "STARTED"
      /\ ledger'[Len(ledger) + 1].started = FALSE
      /\ ledger'[Len(ledger) + 1].after = NoFingerprint
      /\ ledger'[Len(ledger) + 1].before \in Capture(workspace)
  BY <1>2, <1>4 DEF NewAttempt
<1> QED
  BY <1>1, <1>4, <1>5, <1>6, <1>7

LEMMA CompleteEffect ==
    ASSUME BaseInv, NEW c \in Controllers, CompleteAttempt(c)
    PROVE  /\ pc[c] = "complete" /\ att[c] \in DOMAIN ledger
           /\ Current(c).status = "STARTED"
           /\ UNCHANGED <<disk, workspace, patch, att, decision, edits>>
           /\ ledger' \in Seq(AttemptRecord) /\ Len(ledger') = Len(ledger)
           /\ DOMAIN ledger' = DOMAIN ledger
           /\ \A i \in DOMAIN ledger : i # att[c] => ledger'[i] = ledger[i]
           /\ Current(c)'.phase = Current(c).phase
           /\ Current(c)'.before = Current(c).before
           /\ Current(c)'.started = Current(c).started
           /\ Current(c)'.verdict = Current(c).verdict
           /\ Current(c)'.round = Current(c).round
           /\ Current(c)'.status = StatusOf(decision[c].outcome)
           /\ Current(c)'.after = IF decision[c].after = NoFingerprint
                                  THEN Current(c).after ELSE decision[c].after
           /\ Current(c).phase # "REPORTING" => pc'[c] = "save" /\ UNCHANGED mem
           /\ Current(c).phase = "REPORTING" => pc'[c] = "publish"
           /\ Alone(c)
<1>0. TypeOK
  BY DEF BaseInv
<1>1. /\ pc[c] = "complete" /\ att[c] \in DOMAIN ledger /\ Attempt(c).status = "STARTED"
      /\ UNCHANGED <<disk, workspace, patch, att, decision, edits>>
      /\ pc' = [pc EXCEPT ![c] = IF Attempt(c).phase = "REPORTING"
                                 THEN "publish" ELSE "save"]
      /\ mem' = [mem EXCEPT ![c] = IF Attempt(c).phase = "REPORTING"
                                   THEN Decided(c) ELSE @]
      /\ ledger' = [ledger EXCEPT ![att[c]] = Completed(c)]
  BY DEF CompleteAttempt, In, Goto, Amend, budgets
<1>2. Attempt(c) \in AttemptRecord /\ Completed(c) \in AttemptRecord
  BY <1>0, <1>1, ActiveAttempt, CompletedTyped
<1>3. /\ ledger' \in Seq(AttemptRecord) /\ DOMAIN ledger' = DOMAIN ledger
      /\ Len(ledger') = Len(ledger) /\ ledger'[att[c]] = Completed(c)
      /\ \A i \in DOMAIN ledger : i # att[c] => ledger'[i] = ledger[i]
  BY <1>0, <1>1, <1>2, AmendLog
<1>4. /\ Completed(c).phase = Attempt(c).phase /\ Completed(c).before = Attempt(c).before
      /\ Completed(c).started = Attempt(c).started /\ Completed(c).verdict = Attempt(c).verdict
      /\ Completed(c).round = Attempt(c).round
      /\ Completed(c).status = StatusOf(decision[c].outcome)
      /\ Completed(c).after = IF decision[c].after = NoFingerprint
                              THEN Attempt(c).after ELSE decision[c].after
  BY <1>2 DEF Completed, AttemptRecord
<1>5. Alone(c)
  BY <1>0, <1>1, OthersOutside DEF Alone, TypeOK
<1>6. Current(c) = Attempt(c) /\ Current(c)' = Completed(c)
  BY <1>1, <1>3 DEF Current, Attempt
<1>7. /\ pc'[c] = IF Attempt(c).phase = "REPORTING" THEN "publish" ELSE "save"
      /\ Attempt(c).phase # "REPORTING" => UNCHANGED mem
  BY <1>0, <1>1 DEF TypeOK
<1> QED
  BY <1>1, <1>3, <1>4, <1>5, <1>6, <1>7

LEMMA SaveEffect ==
    ASSUME BaseInv, NEW c \in Controllers, SaveTransition(c)
    PROVE  /\ pc[c] = "save" /\ att[c] \in DOMAIN ledger
           /\ mem[c].state = Current(c).phase /\ mem[c].state \in AttemptPhase
           /\ LegalTransition(mem[c].state, disk'.state)
           /\ disk' = Decided(c)
           /\ UNCHANGED <<ledger, workspace, patch, att, decision, edits>>
           /\ Current(c).phase = "REPORTING" => pc'[c] = "complete" /\ UNCHANGED mem
           /\ Current(c).phase # "REPORTING" =>
                 /\ mem'[c] = disk'
                 /\ pc'[c] = IF disk'.state \in TerminalStates THEN "publish" ELSE "loop"
           /\ Alone(c)
<1>0. TypeOK
  BY DEF BaseInv
<1>1. /\ pc[c] = "save" /\ att[c] \in DOMAIN ledger /\ Attempt(c).phase \in AttemptPhase
      /\ LegalTransition(mem[c].state, Decided(c).state)
      /\ disk' = Decided(c)
      /\ UNCHANGED <<ledger, workspace, patch, att, decision, edits>>
      /\ Attempt(c).phase = "REPORTING" =>
            pc' = [pc EXCEPT ![c] = "complete"] /\ UNCHANGED mem
      /\ Attempt(c).phase # "REPORTING" =>
            /\ mem' = [mem EXCEPT ![c] = Decided(c)]
            /\ pc' = [pc EXCEPT ![c] = IF Decided(c).state \in TerminalStates
                                       THEN "publish" ELSE "loop"]
  BY DEF SaveTransition, In, Goto, budgets, Attempt
<1>2. mem[c].state = Attempt(c).phase
  BY <1>1 DEF BaseInv, FrameInv, StagePoints, Attempt
<1>3. Alone(c)
  BY <1>0, <1>1, OthersOutside DEF Alone, TypeOK
<1> QED
  BY <1>0, <1>1, <1>2, <1>3 DEF Current, Attempt, TypeOK

LEMMA ImmediateEffect ==
    ASSUME BaseInv, NEW c \in Controllers, ImmediateTransition(c)
    PROVE  /\ pc[c] = "loop" /\ mem[c].state \in {"PREPARED", "CORRECTION_PENDING"}
           /\ disk' = Immediate(mem[c]) /\ mem'[c] = disk'
           /\ disk'.state = ImmediateTarget(mem[c])
           /\ disk'.correction = mem[c].correction /\ disk'.review = mem[c].review
           /\ pc'[c] = IF disk'.state \in TerminalStates THEN "publish" ELSE "loop"
           /\ UNCHANGED <<ledger, workspace, patch, att, decision, edits>>
           /\ Alone(c)
<1>0. TypeOK
  BY DEF BaseInv
<1>1. /\ pc[c] = "loop" /\ mem[c].state \in {"PREPARED", "CORRECTION_PENDING"}
      /\ disk' = Immediate(mem[c]) /\ mem' = [mem EXCEPT ![c] = Immediate(mem[c])]
      /\ pc' = [pc EXCEPT ![c] = IF Immediate(mem[c]).state \in TerminalStates
                                 THEN "publish" ELSE "loop"]
      /\ UNCHANGED <<ledger, workspace, patch, att, decision, edits>>
  BY DEF ImmediateTransition, Goto, budgets
<1>2. Alone(c)
  BY <1>0, <1>1, OthersOutside DEF Alone, TypeOK
<1>3. /\ Immediate(mem[c]).state = ImmediateTarget(mem[c])
      /\ Immediate(mem[c]).correction = mem[c].correction
      /\ Immediate(mem[c]).review = mem[c].review
  BY <1>0 DEF Immediate, TypeOK, RunRecord
<1> QED
  BY <1>0, <1>1, <1>2, <1>3 DEF TypeOK

LEMMA AcceptedEffect ==
    ASSUME BaseInv, NEW c \in Controllers, ResumeAccepted(c)
    PROVE  /\ pc[c] = "locked" /\ pc'[c] = "loop"
           /\ mem[c].state \notin TerminalStates
           /\ Resumable(mem[c], ledger, workspace)
           /\ UNCHANGED <<disk, ledger, workspace, patch, mem, att, decision, edits>>
           /\ Alone(c)
<1>0. TypeOK
  BY DEF BaseInv
<1>1. /\ pc[c] = "locked" /\ pc' = [pc EXCEPT ![c] = "loop"]
      /\ mem[c].state \notin TerminalStates /\ Resumable(mem[c], ledger, workspace)
      /\ UNCHANGED <<disk, ledger, workspace, patch, mem, att, decision, edits>>
  BY DEF ResumeAccepted, Goto, durable, budgets
<1>2. Alone(c)
  BY <1>0, <1>1, OthersOutside DEF Alone, TypeOK
<1> QED
  BY <1>0, <1>1, <1>2 DEF TypeOK

LEMMA StageEffect ==
    ASSUME BaseInv, NEW c \in Controllers, Stage(c)
    PROVE  /\ pc[c] \in {"begin", "executing", "finish"} /\ att[c] \in DOMAIN ledger
           /\ pc'[c] \in StagePoints
           /\ pc'[c] = "complete" => Current(c).phase # "REPORTING"
           /\ pc'[c] = "save" => Current(c).phase = "REPORTING"
           /\ ledger' \in Seq(AttemptRecord) /\ Len(ledger') = Len(ledger)
           /\ DOMAIN ledger' = DOMAIN ledger
           /\ \A i \in DOMAIN ledger : i # att[c] => ledger'[i] = ledger[i]
           /\ Current(c)'.phase = Current(c).phase /\ Current(c)'.status = Current(c).status
           /\ UNCHANGED <<disk, workspace, mem, att, edits>>
           /\ mem[c].state = Current(c).phase
           /\ Alone(c)
<1>0. TypeOK
  BY DEF BaseInv
<1>1. StageStep(c)
  BY <1>0, StageIsStep
<1>2. /\ pc[c] \in {"begin", "executing", "finish"} /\ att[c] \in DOMAIN ledger
      /\ UNCHANGED <<disk, workspace, mem, att, edits>>
      /\ \E point \in StagePoints :
            /\ pc' = [pc EXCEPT ![c] = point]
            /\ point = "complete" => Current(c).phase # "REPORTING"
            /\ point = "save" => Current(c).phase = "REPORTING"
  BY <1>1 DEF StageStep, Goto, Attempt, Current, budgets
<1>3. /\ ledger' \in Seq(AttemptRecord)
      /\ DOMAIN ledger' = DOMAIN ledger /\ Len(ledger') = Len(ledger)
      /\ \A j \in DOMAIN ledger : /\ ledger'[j].phase = ledger[j].phase
                                  /\ ledger'[j].status = ledger[j].status
                                  /\ j # att[c] => ledger'[j] = ledger[j]
  BY <1>0, <1>1, AmendsLog DEF StageStep
<1>4. Alone(c)
  BY <1>0, <1>2, OthersOutside DEF Alone, TypeOK
<1>5. mem[c].state = Current(c).phase
  BY <1>2 DEF BaseInv, FrameInv, StagePoints, Current
<1> QED
  BY <1>0, <1>2, <1>3, <1>4, <1>5 DEF Current, TypeOK

-----------------------------------------------------------------------------
(* The record in memory is the record on disk *)

\* A controller in the loop or in a stage works on the record that is on disk, at
\* the last attempt; reporting alone has saved before it completes its attempt.
SyncInv ==
    \A c \in Controllers :
        /\ pc[c] \in StagePoints \cup {"loop"} =>
              \/ mem[c] = disk
              \/ pc[c] = "complete" /\ Current(c).phase = "REPORTING" /\ Decided(c) = disk
        /\ pc[c] = "loop" => mem[c].state \notin TerminalStates
        /\ pc[c] \in StagePoints => att[c] = Len(ledger)

LEMMA InitSync == Init => SyncInv
BY ControllersAssumption DEF Init, SyncInv, StagePoints, NewRun, TerminalStates

LEMMA NextSync == BaseInv /\ SyncInv /\ FreshResumes /\ [Next]_vars => SyncInv'
<1> SUFFICES ASSUME BaseInv, SyncInv, FreshResumes, [Next]_vars PROVE SyncInv'
  OBVIOUS
<1>1. ASSUME NEW c \in Controllers, OutsideStages(c) PROVE SyncInv'
  BY <1>1, OutsideEffect DEF SyncInv, Current, Decided, StagePoints
<1>2. ASSUME NEW c \in Controllers, ResumeAccepted(c) PROVE SyncInv'
  BY <1>2, AcceptedEffect DEF SyncInv, FreshResumes, Alone, Current, Decided, StagePoints
<1>3. ASSUME NEW c \in Controllers, ImmediateTransition(c) PROVE SyncInv'
  BY <1>3, ImmediateEffect DEF SyncInv, Alone, Current, Decided, StagePoints
<1>4. ASSUME NEW c \in Controllers, StartAttempt(c) PROVE SyncInv'
  BY <1>4, StartEffect DEF SyncInv, Alone, Current, Decided, StagePoints
<1>5. ASSUME NEW c \in Controllers, Stage(c) PROVE SyncInv'
  BY <1>5, StageEffect DEF SyncInv, Alone, Current, Decided, StagePoints
<1>6. ASSUME NEW c \in Controllers, CompleteAttempt(c) PROVE SyncInv'
  BY <1>6, CompleteEffect DEF SyncInv, Alone, Current, Decided, StagePoints
<1>7. ASSUME NEW c \in Controllers, SaveTransition(c) PROVE SyncInv'
  BY <1>7, SaveEffect DEF SyncInv, Alone, Current, Decided, StagePoints
<1>8. CASE Edit
  BY <1>8 DEF Edit, SyncInv, Current, Decided
<1>9. CASE UNCHANGED vars
  BY <1>9 DEF vars, SyncInv, Current, Decided
<1> QED
  BY <1>1, <1>2, <1>3, <1>4, <1>5, <1>6, <1>7, <1>8, <1>9, NextCases

LEMMA SyncInvariant == Spec /\ []FreshResumes => []SyncInv
BY InitSync, NextSync, BaseInvariant, PTL DEF Spec

\* With one controller nobody else writes the record between the load and the lock.
OnlyOneInv == \A c \in Controllers : pc[c] \in {"loaded", "locked"} => mem[c] = disk

\* A run with one controller satisfies the assumption the theorems below make: what
\* was loaded is what is on disk, although it may have crashed and been resumed any
\* number of times (resume_ticket_lifecycle).
THEOREM OneControllerIsFresh ==
    ASSUME Controllers = {Creator}
    PROVE  Spec => []FreshResumes
<1>1. Init => OnlyOneInv
  BY DEF Init, OnlyOneInv
<1>2. BaseInv /\ OnlyOneInv /\ [Next]_vars => OnlyOneInv'
  <2> SUFFICES ASSUME BaseInv, OnlyOneInv, [Next]_vars PROVE OnlyOneInv'
    OBVIOUS
  <2>0. TypeOK
    BY DEF BaseInv
  <2>1. ASSUME NEW c \in Controllers,
               LoadRecord(c) \/ AcquireLock(c) \/ LockBusy(c) \/ ResumeTerminal(c)
                  \/ StageRaises(c) \/ PublishReport(c) \/ ReleaseLock(c)
                  \/ InvocationWrites(c) \/ Crash(c)
        PROVE  OnlyOneInv'
    BY <2>0, <2>1 DEF LoadRecord, AcquireLock, LockBusy, ResumeTerminal, StageRaises,
          PublishReport, ReleaseLock, InvocationWrites, Crash, Forget, Goto, OnlyOneInv,
          TypeOK, durable
  <2>2. ASSUME NEW c \in Controllers, ResumeRefused(c) \/ RecordFailure(c) \/ Leaves(c)
        PROVE  pc'[c] \notin {"loaded", "locked"}
    BY <2>0, <2>2, LeavesFrame DEF ResumeRefused, RecordFailure, Goto, TypeOK
  <2>3. ASSUME NEW c \in Controllers,
               \/ ResumeAccepted(c) \/ ImmediateTransition(c) \/ StartAttempt(c)
               \/ CompleteAttempt(c) \/ SaveTransition(c)
        PROVE  pc'[c] \notin {"loaded", "locked"}
    BY <2>3, AcceptedEffect, ImmediateEffect, StartEffect, CompleteEffect, SaveEffect
  <2>4. ASSUME NEW c \in Controllers, Stage(c) PROVE pc'[c] \notin {"loaded", "locked"}
    BY <2>4, StageEffect DEF StagePoints
  <2>5. Edit \/ UNCHANGED vars => OnlyOneInv'
    BY DEF Edit, vars, OnlyOneInv
  <2> QED
    BY <2>1, <2>2, <2>3, <2>4, <2>5 DEF Next, Resume, Drive, Leaves, OnlyOneInv
<1>3. OnlyOneInv => FreshResumes
  BY DEF OnlyOneInv, FreshResumes
<1> QED
  BY <1>1, <1>2, <1>3, BaseInvariant, PTL DEF Spec

-----------------------------------------------------------------------------
(* The record moves along the transition table, and only by deciding *)

LEMMA LegalStep ==
    ASSUME BaseInv, SyncInv, [Next]_vars, disk' # disk
    PROVE  LegalTransition(disk.state, disk'.state)
<1>0. TypeOK
  BY DEF BaseInv
<1>1. ASSUME NEW c \in Controllers, OutsideStages(c)
      PROVE  LegalTransition(disk.state, disk'.state)
  BY <1>0, <1>1, OutsideEffect DEF LegalTransition, TypeOK, RunRecord
<1>2. ASSUME NEW c \in Controllers, ImmediateTransition(c)
      PROVE  LegalTransition(disk.state, disk'.state)
  <2>1. mem[c] = disk
    BY <1>2, ImmediateEffect DEF SyncInv
  <2> QED
    BY <1>2, <2>1, ImmediateEffect
       DEF LegalTransition, ForwardTransitions, ImmediateTarget, WorkflowState, TerminalStates
<1>3. ASSUME NEW c \in Controllers, SaveTransition(c)
      PROVE  LegalTransition(disk.state, disk'.state)
  BY <1>3, SaveEffect DEF SyncInv, StagePoints
<1>4. ASSUME NEW c \in Controllers,
             ResumeAccepted(c) \/ StartAttempt(c) \/ Stage(c) \/ CompleteAttempt(c)
      PROVE  UNCHANGED disk
  BY <1>4, AcceptedEffect, StartEffect, StageEffect, CompleteEffect
<1>5. Edit \/ UNCHANGED vars => UNCHANGED disk
  BY DEF Edit, vars
<1> QED
  BY <1>1, <1>2, <1>3, <1>4, <1>5, NextCases

\* Durable progress obeys the transition table and a terminal record is never
\* rewritten, for any number of controllers as long as no resume acts on a record
\* that has changed since it was loaded (validate_workflow_transition at every save).
THEOREM FreshTransitionsAreLegal == Spec /\ []FreshResumes => DurableTransitionsAreLegal
<1>1. BaseInv /\ SyncInv /\ [Next]_vars =>
         [ disk' # disk => LegalTransition(disk.state, disk'.state) ]_vars
  BY LegalStep
<1> QED
  BY <1>1, BaseInvariant, SyncInvariant, PTL DEF Spec, DurableTransitionsAreLegal

LEMMA DecidingStep ==
    ASSUME BaseInv, SyncInv, [Next]_vars,
           disk'.state # disk.state, disk.state \in AttemptPhase,
           disk'.state \notin {"HUMAN_REQUIRED", "FAILED"}
    PROVE  \E c \in Controllers :
              /\ holder = c
              /\ att[c] = Len(ledger)
              /\ ledger[att[c]].phase = disk.state
              /\ disk'.state = RequestedState(disk.state, decision[c].outcome)
<1>1. ASSUME NEW c \in Controllers, OutsideStages(c) PROVE FALSE
  BY <1>1, OutsideEffect
<1>2. ASSUME NEW c \in Controllers, ImmediateTransition(c) PROVE FALSE
  <2>1. disk.state \in {"PREPARED", "CORRECTION_PENDING"}
    BY <1>2, ImmediateEffect DEF SyncInv
  <2> QED
    BY <2>1 DEF AttemptPhase, WritablePhases, ReadOnlyPhases
<1>3. ASSUME NEW c \in Controllers,
             ResumeAccepted(c) \/ StartAttempt(c) \/ Stage(c) \/ CompleteAttempt(c)
      PROVE  FALSE
  BY <1>3, AcceptedEffect, StartEffect, StageEffect, CompleteEffect
<1>4. ~ Edit /\ ~ UNCHANGED vars
  BY DEF Edit, vars
<1>5. PICK c \in Controllers : SaveTransition(c)
  BY <1>1, <1>2, <1>3, <1>4, NextCases
<1>6. /\ mem[c] = disk /\ att[c] = Len(ledger) /\ holder = c
      /\ ledger[att[c]].phase = disk.state /\ disk' = Decided(c)
  BY <1>5, SaveEffect DEF SyncInv, StagePoints, BaseInv, HolderInv, Current
<1> QED
  BY <1>6 DEF Decided

\* An artifact whose transition was interrupted is never adopted: the record leaves
\* an active state, other than to stop, only by the decision that the lock's holder
\* took on an attempt of that state it started itself, the last one (resume in
\* workflow.py re-enters the loop at the state on disk and starts over).
THEOREM FreshRunsAdoptNothing == Spec /\ []FreshResumes => NoAdoption
<1>1. BaseInv /\ SyncInv /\ [Next]_vars =>
         [ disk'.state # disk.state /\ disk.state \in AttemptPhase
              /\ disk'.state \notin {"HUMAN_REQUIRED", "FAILED"}
           => \E c \in Controllers :
                 /\ holder = c
                 /\ att[c] = Len(ledger)
                 /\ ledger[att[c]].phase = disk.state
                 /\ disk'.state = RequestedState(disk.state, decision[c].outcome) ]_vars
  BY DecidingStep
<1> QED
  BY <1>1, BaseInvariant, SyncInvariant, PTL DEF Spec, NoAdoption
-----------------------------------------------------------------------------
(* What each stage does to its attempt and what it decides *)

\* The fields of the current attempt other than these stay.
Keeps(c, fields) ==
    /\ "before"  \in fields => Current(c)'.before  = Current(c).before
    /\ "after"   \in fields => Current(c)'.after   = Current(c).after
    /\ "started" \in fields => Current(c)'.started = Current(c).started
    /\ "verdict" \in fields => Current(c)'.verdict = Current(c).verdict
    /\ "round"   \in fields => Current(c)'.round   = Current(c).round

AllFields == {"before", "after", "started", "verdict", "round"}

LEMMA AmendedCurrent ==
    ASSUME BaseInv, NEW c \in Controllers, att[c] \in DOMAIN ledger, UNCHANGED att,
           NEW r, Amend(c, r)
    PROVE  Current(c)' = r /\ Attempt(c) = Current(c) /\ Current(c) \in AttemptRecord
BY ActiveAttempt DEF BaseInv, TypeOK, Amend, Current, Attempt

LEMMA DecidedCurrent ==
    ASSUME BaseInv, NEW c \in Controllers, NEW outcome, NEW after, NEW correction,
           Decide(c, outcome, after, correction)
    PROVE  /\ decision'[c].outcome = outcome /\ decision'[c].after = after
           /\ decision'[c].correction = correction
           /\ decision'[c].review = IF Current(c).phase = "REVIEWING"
                                    THEN mem[c].review + 1 ELSE mem[c].review
BY DEF BaseInv, TypeOK, Decide, Current, Attempt

LEMMA KeptCurrent ==
    ASSUME NEW c \in Controllers, UNCHANGED <<ledger, att>>
    PROVE  Current(c)' = Current(c) /\ Keeps(c, AllFields)
BY DEF Current, Keeps

LEMMA BeginVerificationEffect ==
    ASSUME BaseInv, NEW c \in Controllers, BeginVerification(c)
    PROVE  /\ pc[c] = "begin" /\ Current(c).phase \in {"PREPARING", "VERIFYING"}
           /\ UNCHANGED patch /\ Keeps(c, {"before", "after", "started"})
           /\ \/ /\ pc'[c] = "executing" /\ UNCHANGED <<ledger, decision>>
                 /\ Current(c).before = workspace /\ workspace \notin Unsafe
              \/ /\ pc'[c] = "finish" /\ decision'[c].outcome = "HUMAN_REQUIRED"
                 /\ decision'[c].correction = mem[c].correction
<1>1. /\ pc[c] = "begin" /\ att[c] \in DOMAIN ledger /\ UNCHANGED <<att, patch>>
      /\ Current(c).phase \in {"PREPARING", "VERIFYING"} /\ Attempt(c) = Current(c)
  BY DEF BeginVerification, In, StageFrame, Current, Attempt
<1>2. PICK seen \in Capture(workspace) :
          IF /\ seen \notin Unsafe \cup {NoFingerprint}
             /\ Unchanged(seen, c)
             /\ Attempt(c).phase = "PREPARING" => seen = Baseline
          THEN Goto(c, "executing") /\ UNCHANGED <<ledger, decision>>
          ELSE /\ StopBeforeStart(c, "HUMAN_REQUIRED", mem[c].correction)
               /\ Amend(c, [Attempt(c) EXCEPT !.verdict = "ERROR",
                                              !.round = disk.correction])
  BY DEF BeginVerification
<1>3. CASE Goto(c, "executing") /\ UNCHANGED <<ledger, decision>>
                /\ seen \notin Unsafe \cup {NoFingerprint} /\ Unchanged(seen, c)
  BY <1>1, <1>3, KeptCurrent DEF Goto, Unchanged, Capture, BaseInv, TypeOK, Keeps, AllFields
<1>4. CASE /\ StopBeforeStart(c, "HUMAN_REQUIRED", mem[c].correction)
           /\ Amend(c, [Attempt(c) EXCEPT !.verdict = "ERROR", !.round = disk.correction])
  <2>1. /\ Current(c)' = [Attempt(c) EXCEPT !.verdict = "ERROR", !.round = disk.correction]
        /\ Current(c) \in AttemptRecord
    BY <1>1, <1>4, AmendedCurrent
  <2>2. Keeps(c, {"before", "after", "started"})
    BY <1>1, <2>1 DEF Keeps, AttemptRecord
  <2> QED
    BY <1>1, <1>4, <2>2, DecidedCurrent DEF StopBeforeStart, Goto, BaseInv, TypeOK
<1> QED
  BY <1>2, <1>3, <1>4

LEMMA PreparationRaisesEffect ==
    ASSUME BaseInv, NEW c \in Controllers, PreparationRaises(c)
    PROVE  /\ Current(c).phase = "PREPARING" /\ pc'[c] = "complete"
           /\ UNCHANGED <<ledger, patch>> /\ Keeps(c, AllFields)
           /\ decision'[c].outcome = "HUMAN_REQUIRED"
           /\ decision'[c].correction = mem[c].correction
<1>1. /\ Current(c).phase = "PREPARING" /\ UNCHANGED <<ledger, patch, att>>
      /\ Decide(c, "HUMAN_REQUIRED", NoFingerprint, mem[c].correction) /\ Goto(c, "complete")
  BY DEF PreparationRaises, In, StageFrame, Current, Attempt
<1> QED
  BY <1>1, KeptCurrent, DecidedCurrent DEF Goto, BaseInv, TypeOK

LEMMA RunVerificationEffect ==
    ASSUME BaseInv, NEW c \in Controllers, RunVerification(c)
    PROVE  /\ pc[c] = "executing" /\ Current(c).phase \in {"PREPARING", "VERIFYING"}
           /\ pc'[c] = "finish"
           /\ UNCHANGED patch /\ Keeps(c, {"before", "after", "started"})
           /\ Current(c)'.round = disk.correction
           /\ Current(c)'.verdict \in {"PASS", "FAIL", "ERROR"}
           /\ Current(c)'.verdict # "ERROR" => Current(c).before \in Capture(workspace)
           /\ decision'[c].outcome = VerificationOutcome(Current(c).phase, Current(c)'.verdict)
           /\ decision'[c].correction = mem[c].correction
<1>1. /\ pc[c] = "executing" /\ att[c] \in DOMAIN ledger /\ UNCHANGED <<att, patch>>
      /\ Current(c).phase \in {"PREPARING", "VERIFYING"} /\ Attempt(c) = Current(c)
      /\ Goto(c, "finish")
  BY DEF RunVerification, In, StageFrame, Current, Attempt
<1>2. PICK seen \in Capture(workspace), result \in {"PASS", "FAIL", "ERROR"},
           status \in {"PASS", "FAIL", "ERROR"} :
         /\ status = IF Unchanged(seen, c) THEN result ELSE "ERROR"
         /\ Amend(c, [Attempt(c) EXCEPT !.verdict = status, !.round = disk.correction])
         /\ Decide(c, VerificationOutcome(Attempt(c).phase, status),
                   NoFingerprint, mem[c].correction)
  BY DEF RunVerification
<1>3. /\ Current(c)' = [Attempt(c) EXCEPT !.verdict = status, !.round = disk.correction]
      /\ Current(c) \in AttemptRecord
  BY <1>1, <1>2, AmendedCurrent
<1>4. /\ Keeps(c, {"before", "after", "started"})
      /\ Current(c)'.round = disk.correction /\ Current(c)'.verdict = status
  BY <1>1, <1>3 DEF Keeps, AttemptRecord
<1>5. /\ decision'[c].outcome = VerificationOutcome(Current(c).phase, status)
      /\ decision'[c].correction = mem[c].correction
  BY <1>1, <1>2, DecidedCurrent
<1> QED
  BY <1>1, <1>2, <1>4, <1>5 DEF Goto, Unchanged, BaseInv, TypeOK

LEMMA BeginReviewEffect ==
    ASSUME BaseInv, NEW c \in Controllers, BeginReview(c)
    PROVE  /\ pc[c] = "begin" /\ Current(c).phase = "REVIEWING"
           /\ UNCHANGED patch /\ Keeps(c, {"before", "after", "verdict", "round"})
           /\ \/ /\ pc'[c] = "executing" /\ Current(c)'.started = TRUE
                 /\ UNCHANGED decision
                 /\ Current(c).before = workspace /\ workspace \notin Unsafe
                 /\ VerifiedSource(ledger, {"PASS"}, workspace)
              \/ /\ pc'[c] = "finish" /\ UNCHANGED ledger
                 /\ decision'[c].outcome = "HUMAN_REQUIRED"
                 /\ decision'[c].correction = mem[c].correction
<1>1. /\ pc[c] = "begin" /\ att[c] \in DOMAIN ledger /\ UNCHANGED <<att, patch>>
      /\ Current(c).phase = "REVIEWING" /\ Attempt(c) = Current(c)
  BY DEF BeginReview, In, StageFrame, Current, Attempt
<1>2. PICK seen \in Capture(workspace) :
          IF /\ seen \notin Unsafe \cup {NoFingerprint}
             /\ Unchanged(seen, c)
             /\ VerifiedSource(ledger, {"PASS"}, seen)
          THEN /\ Amend(c, [Attempt(c) EXCEPT !.started = TRUE])
               /\ Goto(c, "executing") /\ UNCHANGED decision
          ELSE /\ StopBeforeStart(c, "HUMAN_REQUIRED", mem[c].correction)
               /\ UNCHANGED ledger
  BY DEF BeginReview
<1>3. CASE /\ seen \notin Unsafe \cup {NoFingerprint} /\ Unchanged(seen, c)
           /\ VerifiedSource(ledger, {"PASS"}, seen)
           /\ Amend(c, [Attempt(c) EXCEPT !.started = TRUE])
           /\ Goto(c, "executing") /\ UNCHANGED decision
  <2>1. Current(c)' = [Attempt(c) EXCEPT !.started = TRUE] /\ Current(c) \in AttemptRecord
    BY <1>1, <1>3, AmendedCurrent
  <2>2. Keeps(c, {"before", "after", "verdict", "round"}) /\ Current(c)'.started = TRUE
    BY <1>1, <2>1 DEF Keeps, AttemptRecord
  <2> QED
    BY <1>1, <1>3, <2>2 DEF Goto, Unchanged, Capture, BaseInv, TypeOK
<1>4. CASE /\ StopBeforeStart(c, "HUMAN_REQUIRED", mem[c].correction) /\ UNCHANGED ledger
  BY <1>1, <1>4, KeptCurrent, DecidedCurrent
     DEF StopBeforeStart, Goto, BaseInv, TypeOK, Keeps, AllFields
<1> QED
  BY <1>2, <1>3, <1>4

LEMMA RunReviewEffect ==
    ASSUME BaseInv, NEW c \in Controllers, RunReview(c)
    PROVE  /\ pc[c] = "executing" /\ Current(c).phase = "REVIEWING" /\ pc'[c] = "finish"
           /\ UNCHANGED patch /\ Keeps(c, {"before", "after", "started", "round"})
           /\ \/ decision'[c].outcome = "HUMAN_REQUIRED"
              \/ /\ <<Current(c)'.verdict, decision'[c].outcome>> \in ReviewResults
                 /\ Current(c).before \in Capture(workspace)
           /\ decision'[c].correction = mem[c].correction
<1>1. /\ pc[c] = "executing" /\ att[c] \in DOMAIN ledger /\ UNCHANGED <<att, patch>>
      /\ Current(c).phase = "REVIEWING" /\ Attempt(c) = Current(c)
      /\ Goto(c, "finish")
  BY DEF RunReview, In, StageFrame, Current, Attempt
<1>2. PICK seen \in Capture(workspace), result \in ReviewResults :
         /\ Amend(c, [Attempt(c) EXCEPT !.verdict = result[1]])
         /\ Decide(c, IF Unchanged(seen, c) THEN result[2] ELSE "HUMAN_REQUIRED",
                   NoFingerprint, mem[c].correction)
  BY DEF RunReview
<1>3. Current(c)' = [Attempt(c) EXCEPT !.verdict = result[1]] /\ Current(c) \in AttemptRecord
  BY <1>1, <1>2, AmendedCurrent
<1>4. /\ Keeps(c, {"before", "after", "started", "round"})
      /\ Current(c)'.verdict = result[1]
  BY <1>1, <1>3 DEF Keeps, AttemptRecord
<1>5. /\ decision'[c].outcome = IF Unchanged(seen, c) THEN result[2] ELSE "HUMAN_REQUIRED"
      /\ decision'[c].correction = mem[c].correction
  BY <1>1, <1>2, DecidedCurrent
<1>6. <<result[1], result[2]>> \in ReviewResults
  BY <1>2 DEF ReviewResults
<1> QED
  BY <1>1, <1>4, <1>5, <1>6 DEF Goto, Unchanged, BaseInv, TypeOK

LEMMA BeginWritableEffect ==
    ASSUME BaseInv, NEW c \in Controllers, BeginWritable(c)
    PROVE  /\ pc[c] = "begin" /\ Current(c).phase \in WritablePhases
           /\ UNCHANGED patch /\ Keeps(c, {"after", "verdict", "round"})
           /\ \/ /\ pc'[c] = "executing" /\ Current(c)'.started = TRUE
                 /\ UNCHANGED decision
                 /\ Current(c).phase = "CORRECTING" =>
                       CorrectionMayStart(Current(c)'.before)
              \/ /\ pc'[c] = "finish" /\ Current(c)'.started = Current(c).started
                 /\ decision'[c].outcome \in {"HUMAN_REQUIRED", "FAILED"}
                 /\ decision'[c].correction = mem[c].correction
<1>1. /\ pc[c] = "begin" /\ att[c] \in DOMAIN ledger /\ UNCHANGED <<att, patch>>
      /\ Current(c).phase \in WritablePhases /\ Attempt(c) = Current(c)
  BY DEF BeginWritable, In, StageFrame, Current, Attempt
<1>2. PICK seen \in Capture(workspace) :
         \/ /\ Attempt(c).phase # "IMPLEMENTING" => CorrectionMayStart(seen)
            /\ Amend(c, [Attempt(c) EXCEPT !.before = seen, !.started = TRUE])
            /\ Goto(c, "executing") /\ UNCHANGED decision
         \/ \E outcome \in {"HUMAN_REQUIRED", "FAILED"} :
               /\ Amend(c, [Attempt(c) EXCEPT !.before = seen])
               /\ StopBeforeStart(c, outcome, mem[c].correction)
  BY DEF BeginWritable
<1>3. CASE /\ Attempt(c).phase # "IMPLEMENTING" => CorrectionMayStart(seen)
           /\ Amend(c, [Attempt(c) EXCEPT !.before = seen, !.started = TRUE])
           /\ Goto(c, "executing") /\ UNCHANGED decision
  <2>1. /\ Current(c)' = [Attempt(c) EXCEPT !.before = seen, !.started = TRUE]
        /\ Current(c) \in AttemptRecord
    BY <1>1, <1>3, AmendedCurrent
  <2>2. /\ Keeps(c, {"after", "verdict", "round"})
        /\ Current(c)'.started = TRUE /\ Current(c)'.before = seen
    BY <1>1, <2>1 DEF Keeps, AttemptRecord
  <2> QED
    BY <1>1, <1>3, <2>2 DEF Goto, BaseInv, TypeOK
<1>4. ASSUME NEW outcome \in {"HUMAN_REQUIRED", "FAILED"},
             Amend(c, [Attempt(c) EXCEPT !.before = seen]),
             StopBeforeStart(c, outcome, mem[c].correction)
      PROVE  /\ UNCHANGED patch /\ Keeps(c, {"after", "verdict", "round"})
             /\ pc'[c] = "finish" /\ Current(c)'.started = Current(c).started
             /\ decision'[c].outcome \in {"HUMAN_REQUIRED", "FAILED"}
             /\ decision'[c].correction = mem[c].correction
  <2>1. Current(c)' = [Attempt(c) EXCEPT !.before = seen] /\ Current(c) \in AttemptRecord
    BY <1>1, <1>4, AmendedCurrent
  <2>2. /\ Keeps(c, {"after", "verdict", "round"})
        /\ Current(c)'.started = Current(c).started
    BY <1>1, <2>1 DEF Keeps, AttemptRecord
  <2> QED
    BY <1>1, <1>4, <2>2, DecidedCurrent DEF StopBeforeStart, Goto, BaseInv, TypeOK
<1> QED
  BY <1>1, <1>2, <1>3, <1>4

LEMMA RunWritableEffect ==
    ASSUME BaseInv, NEW c \in Controllers, RunWritable(c)
    PROVE  /\ pc[c] = "executing" /\ Current(c).phase \in WritablePhases
           /\ pc'[c] = "complete"
           /\ UNCHANGED patch /\ Keeps(c, {"before", "started", "verdict", "round"})
           /\ Current(c)'.after \in Capture(workspace)
           /\ decision'[c].after = Current(c)'.after
           /\ decision'[c].outcome \in WritableOutcomes(c, Current(c)'.after)
           /\ decision'[c].correction \in CorrectionRounds(c, decision'[c].outcome)
<1>1. /\ pc[c] = "executing" /\ att[c] \in DOMAIN ledger /\ UNCHANGED <<att, patch>>
      /\ Current(c).phase \in WritablePhases /\ Attempt(c) = Current(c)
      /\ Goto(c, "complete")
  BY DEF RunWritable, In, StageFrame, Current, Attempt
<1>2. PICK seen \in Capture(workspace) :
         \E outcome \in WritableOutcomes(c, seen) :
           \E correction \in CorrectionRounds(c, outcome) :
             /\ Amend(c, [Attempt(c) EXCEPT !.after = seen])
             /\ Decide(c, outcome, seen, correction)
  BY DEF RunWritable
<1>3. PICK outcome \in WritableOutcomes(c, seen) :
           \E correction \in CorrectionRounds(c, outcome) :
             /\ Amend(c, [Attempt(c) EXCEPT !.after = seen])
             /\ Decide(c, outcome, seen, correction)
  BY <1>2
<1>4. PICK correction \in CorrectionRounds(c, outcome) :
             /\ Amend(c, [Attempt(c) EXCEPT !.after = seen])
             /\ Decide(c, outcome, seen, correction)
  BY <1>3
<1>5. Current(c)' = [Attempt(c) EXCEPT !.after = seen] /\ Current(c) \in AttemptRecord
  BY <1>1, <1>4, AmendedCurrent
<1>6. Keeps(c, {"before", "started", "verdict", "round"}) /\ Current(c)'.after = seen
  BY <1>1, <1>5 DEF Keeps, AttemptRecord
<1>7. /\ decision'[c].outcome = outcome /\ decision'[c].after = seen
      /\ decision'[c].correction = correction
  BY <1>4, DecidedCurrent
<1> QED
  BY <1>1, <1>2, <1>3, <1>4, <1>6, <1>7 DEF Goto, BaseInv, TypeOK

LEMMA FinishEffect ==
    ASSUME BaseInv, NEW c \in Controllers, Finish(c)
    PROVE  /\ pc[c] = "finish" /\ Current(c).phase # "REPORTING" /\ pc'[c] = "complete"
           /\ UNCHANGED <<ledger, patch>> /\ Keeps(c, AllFields)
           /\ decision'[c].after \in Capture(workspace)
           /\ decision'[c].correction = decision[c].correction
           /\ decision'[c].review = decision[c].review
           /\ \/ decision'[c].outcome = decision[c].outcome
              \/ /\ Current(c).phase \in WritablePhases
                 /\ decision'[c].outcome = "HUMAN_REQUIRED"
<1>1. /\ pc[c] = "finish" /\ UNCHANGED <<ledger, att, patch>>
      /\ Current(c).phase # "REPORTING" /\ Attempt(c) = Current(c) /\ Goto(c, "complete")
  BY DEF Finish, In, StageFrame, Current, Attempt
<1>2. PICK seen \in Capture(workspace) :
         decision' = [decision EXCEPT ![c] = Settled(c, seen)]
  BY DEF Finish
<1>3. decision[c] \in Decision /\ decision'[c] = Settled(c, seen)
  BY <1>2 DEF BaseInv, TypeOK
<1>4. /\ decision'[c].after = seen
      /\ decision'[c].correction = decision[c].correction
      /\ decision'[c].review = decision[c].review
      /\ \/ decision'[c].outcome = decision[c].outcome
         \/ /\ Current(c).phase \in WritablePhases
            /\ decision'[c].outcome = "HUMAN_REQUIRED"
  BY <1>1, <1>3 DEF Settled, Decision
<1> QED
  BY <1>1, <1>2, <1>4, KeptCurrent DEF Goto, BaseInv, TypeOK

LEMMA HandoffEffect ==
    ASSUME BaseInv, NEW c \in Controllers,
           BeginHandoff(c) \/ CapturePatch(c) \/ RecheckHandoff(c)
    PROVE  /\ Current(c).phase = "REPORTING" /\ pc'[c] \in {"executing", "finish", "save"}
           /\ UNCHANGED ledger /\ Keeps(c, AllFields)
           /\ pc'[c] = "save" => decision'[c].correction = mem[c].correction
<1>1. /\ Current(c).phase = "REPORTING" /\ UNCHANGED <<ledger, att>>
      /\ \/ Goto(c, "executing") \/ Goto(c, "finish")
         \/ Goto(c, "save") /\ \E outcome, seen : Decide(c, outcome, seen, mem[c].correction)
  BY DEF BeginHandoff, CapturePatch, RecheckHandoff, In, StageFrame, Current, Attempt
<1> QED
  BY <1>1, KeptCurrent, DecidedCurrent DEF Goto, BaseInv, TypeOK
-----------------------------------------------------------------------------
(* A run that fails has accounted for every write *)

Accounted(i) ==
    ledger[i].phase \in WritablePhases =>
       \/ ledger[i].status = "COMPLETED"
       \/ ~ ledger[i].started
       \/ ledger[i].status = "FAILED" /\ ledger[i].after = ledger[i].before

\* The current attempt, once it has a verdict of failure, left nothing behind.
Untouched(c) == ~ Current(c).started \/ Current(c).after = Current(c).before

\* Every write but the one at work is accounted for, and one that is about to fail
\* will be.
AccountOf(c) ==
    /\ pc[c] = "loop" => \A i \in DOMAIN ledger : Accounted(i)
    /\ pc[c] \in StagePoints => \A i \in DOMAIN ledger : i # att[c] => Accounted(i)
    /\ pc[c] = "begin" => ~ Current(c).started
    /\ pc[c] = "finish" /\ Current(c).phase \in WritablePhases => ~ Current(c).started
    /\ /\ pc[c] = "complete" /\ Current(c).phase \in WritablePhases
       /\ decision[c].outcome = "FAILED"
       => \/ ~ Current(c).started
          \/ /\ Current(c).after = Current(c).before
             /\ decision[c].after = Current(c).before
    /\ pc[c] = "save" /\ Current(c).phase \in WritablePhases =>
          /\ Current(c).status = StatusOf(decision[c].outcome)
          /\ decision[c].outcome = "FAILED" => Untouched(c)

\* A write whose controller dies before it is accounted for stays in the state on
\* disk that resume refuses.
AccountInv ==
    /\ disk.state \notin WritablePhases \cup {"HUMAN_REQUIRED"} =>
          \A i \in DOMAIN ledger : Accounted(i)
    /\ \A c \in Controllers : AccountOf(c)

\* Nothing is asked of a controller that is in no stage and not in the loop.
LEMMA AloneAccounts ==
    ASSUME NEW c \in Controllers, Alone(c)
    PROVE  \A d \in Controllers \ {c} : AccountOf(d)'
BY DEF Alone, AccountOf, StagePoints

LEMMA InitAccount == Init => AccountInv
BY DEF Init, AccountInv, AccountOf, StagePoints

\* What a stage leaves for the completion of a writable attempt.
LEMMA StageAccounts ==
    ASSUME BaseInv, AccountInv, NEW c \in Controllers, Stage(c)
    PROVE  /\ pc'[c] # "begin"
           /\ pc'[c] = "finish" /\ Current(c).phase \in WritablePhases =>
                 ~ Current(c)'.started
           /\ /\ pc'[c] = "complete" /\ Current(c).phase \in WritablePhases
              /\ decision'[c].outcome = "FAILED"
              => \/ ~ Current(c)'.started
                 \/ /\ Current(c)'.after = Current(c)'.before
                    /\ decision'[c].after = Current(c)'.before
<1> DEFINE Goal ==
      /\ pc'[c] # "begin"
      /\ pc'[c] = "finish" /\ Current(c).phase \in WritablePhases => ~ Current(c)'.started
      /\ /\ pc'[c] = "complete" /\ Current(c).phase \in WritablePhases
         /\ decision'[c].outcome = "FAILED"
         => \/ ~ Current(c)'.started
            \/ /\ Current(c)'.after = Current(c)'.before
               /\ decision'[c].after = Current(c)'.before
<1>1. CASE BeginVerification(c) \/ PreparationRaises(c) \/ RunVerification(c)
  BY <1>1, BeginVerificationEffect, PreparationRaisesEffect, RunVerificationEffect
     DEF WritablePhases
<1>2. CASE BeginReview(c) \/ RunReview(c)
  BY <1>2, BeginReviewEffect, RunReviewEffect DEF WritablePhases
<1>3. CASE BeginWritable(c)
  BY <1>3, BeginWritableEffect DEF AccountInv, AccountOf
<1>4. CASE RunWritable(c)
  <2>1. /\ pc'[c] = "complete" /\ Current(c)'.before = Current(c).before
        /\ decision'[c].after = Current(c)'.after
        /\ decision'[c].outcome \in WritableOutcomes(c, Current(c)'.after)
    BY <1>4, RunWritableEffect DEF Keeps
  <2>2. decision'[c].outcome = "FAILED" => Unchanged(Current(c)'.after, c)
    BY <2>1 DEF WritableOutcomes
  <2> QED
    BY <2>1, <2>2 DEF Unchanged, Attempt, Current
<1>5. CASE Finish(c)
  <2>1. /\ pc[c] = "finish" /\ pc'[c] = "complete"
        /\ Current(c)'.started = Current(c).started
    BY <1>5, FinishEffect DEF Keeps, AllFields
  <2> QED
    BY <2>1 DEF AccountInv, AccountOf
<1>6. CASE BeginHandoff(c) \/ CapturePatch(c) \/ RecheckHandoff(c)
  BY <1>6, HandoffEffect DEF WritablePhases
<1> QED
  BY <1>1, <1>2, <1>3, <1>4, <1>5, <1>6 DEF Stage

LEMMA NextAccount ==
    BaseInv /\ SyncInv /\ AccountInv /\ FreshResumes /\ [Next]_vars => AccountInv'
<1> SUFFICES ASSUME BaseInv, SyncInv, AccountInv, FreshResumes, [Next]_vars
             PROVE  AccountInv'
  OBVIOUS
<1>0. TypeOK
  BY DEF BaseInv
<1>1. ASSUME NEW c \in Controllers, OutsideStages(c) PROVE AccountInv'
  <2>1. /\ UNCHANGED ledger
        /\ \/ UNCHANGED disk
           \/ /\ disk.state \notin TerminalStates
              /\ \/ disk'.state = "HUMAN_REQUIRED"
                 \/ disk.state \notin WritablePhases
    BY <1>1, OutsideEffect
  <2>2. \A d \in Controllers :
           pc'[d] \in StagePoints \cup {"loop"} =>
              pc'[d] = pc[d] /\ att'[d] = att[d] /\ decision'[d] = decision[d]
    BY <1>1, OutsideEffect
  <2>3. disk'.state \notin WritablePhases \cup {"HUMAN_REQUIRED"} =>
           \A i \in DOMAIN ledger' : Accounted(i)'
    BY <2>1 DEF AccountInv, AccountOf, Accounted, TerminalStates
  <2> QED
    BY <2>1, <2>2, <2>3 DEF AccountInv, AccountOf, Accounted, Untouched, Current, StagePoints
<1>2. ASSUME NEW c \in Controllers, ResumeAccepted(c) PROVE AccountInv'
  <2>1. /\ disk.state \notin WritablePhases \cup {"HUMAN_REQUIRED"}
        /\ UNCHANGED <<ledger, disk>> /\ pc'[c] = "loop" /\ Alone(c)
    BY <1>2, AcceptedEffect DEF FreshResumes, Resumable, TerminalStates
  <2> QED
    BY <2>1, AloneAccounts DEF AccountInv, AccountOf, Accounted, StagePoints
<1>3. ASSUME NEW c \in Controllers, ImmediateTransition(c) PROVE AccountInv'
  <2>1. AccountOf(c)'
    BY <1>3, ImmediateEffect DEF AccountInv, AccountOf, Accounted, StagePoints
  <2>2. \A i \in DOMAIN ledger' : Accounted(i)'
    BY <1>3, ImmediateEffect DEF AccountInv, AccountOf, Accounted
  <2> QED
    BY <1>3, <2>1, <2>2, ImmediateEffect, AloneAccounts DEF AccountInv
<1>4. ASSUME NEW c \in Controllers, StartAttempt(c) PROVE AccountInv'
  <2>1. /\ pc[c] = "loop" /\ pc'[c] = "begin" /\ att'[c] = Len(ledger) + 1 /\ UNCHANGED disk
        /\ DOMAIN ledger' = 1 .. Len(ledger) + 1 /\ DOMAIN ledger = 1 .. Len(ledger)
        /\ Len(ledger) \in Nat /\ \A i \in DOMAIN ledger : ledger'[i] = ledger[i]
        /\ ledger'[Len(ledger) + 1].started = FALSE /\ Alone(c)
    BY <1>4, StartEffect
  <2>2. \A i \in DOMAIN ledger' : i \in DOMAIN ledger \/ i = Len(ledger) + 1
    BY <2>1
  <2>3. \A i \in DOMAIN ledger' : Accounted(i)'
    BY <2>1, <2>2 DEF AccountInv, AccountOf, Accounted
  <2> QED
    BY <2>1, <2>3, AloneAccounts DEF AccountInv, AccountOf, Current, StagePoints
<1>5. ASSUME NEW c \in Controllers, Stage(c) PROVE AccountInv'
  <2>1. /\ pc[c] \in StagePoints /\ pc[c] # "complete" /\ att[c] \in DOMAIN ledger
        /\ DOMAIN ledger' = DOMAIN ledger
        /\ \A i \in DOMAIN ledger : i # att[c] => ledger'[i] = ledger[i]
        /\ Current(c)'.phase = Current(c).phase
        /\ mem[c].state = Current(c).phase /\ UNCHANGED <<disk, att>> /\ Alone(c)
        /\ pc'[c] \in StagePoints
        /\ pc'[c] = "save" => Current(c).phase = "REPORTING"
    BY <1>5, StageEffect DEF StagePoints
  <2>2. disk.state = Current(c).phase
    BY <2>1 DEF SyncInv
  <2>3. \A i \in DOMAIN ledger' : i # att'[c] => Accounted(i)'
    BY <2>1 DEF AccountInv, AccountOf, Accounted
  <2>4. disk'.state \notin WritablePhases \cup {"HUMAN_REQUIRED"} =>
           \A i \in DOMAIN ledger' : Accounted(i)'
    BY <2>1, <2>2, <2>3 DEF Accounted, Current
  <2>5. /\ pc'[c] \notin {"begin", "loop"}
        /\ pc'[c] = "save" => Current(c)'.phase \notin WritablePhases
    BY <1>5, <2>1, StageAccounts DEF StagePoints, WritablePhases
  <2>6. AccountOf(c)'
    BY <1>5, <2>1, <2>3, <2>5, StageAccounts DEF AccountOf
  <2> QED
    BY <2>1, <2>4, <2>6, AloneAccounts DEF AccountInv
<1>6. ASSUME NEW c \in Controllers, CompleteAttempt(c) PROVE AccountInv'
  <2>1. /\ pc[c] = "complete" /\ att[c] \in DOMAIN ledger
        /\ DOMAIN ledger' = DOMAIN ledger
        /\ \A i \in DOMAIN ledger : i # att[c] => ledger'[i] = ledger[i]
        /\ Current(c)'.phase = Current(c).phase /\ Current(c)'.before = Current(c).before
        /\ Current(c)'.started = Current(c).started
        /\ Current(c)'.status = StatusOf(decision[c].outcome)
        /\ Current(c)'.after = IF decision[c].after = NoFingerprint
                               THEN Current(c).after ELSE decision[c].after
        /\ UNCHANGED <<disk, att, decision>> /\ Alone(c)
        /\ Current(c).phase # "REPORTING" => pc'[c] = "save"
        /\ Current(c).phase = "REPORTING" => pc'[c] = "publish"
    BY <1>6, CompleteEffect
  <2>2. \A i \in DOMAIN ledger' : i # att'[c] => Accounted(i)'
    BY <2>1 DEF AccountInv, AccountOf, Accounted, StagePoints
  <2>3. Current(c).phase \in WritablePhases => disk.state = Current(c).phase
    BY <2>1 DEF SyncInv, BaseInv, FrameInv, Current, StagePoints, WritablePhases
  <2>4. disk'.state \notin WritablePhases \cup {"HUMAN_REQUIRED"} =>
           \A i \in DOMAIN ledger' : Accounted(i)'
    BY <2>1, <2>2, <2>3 DEF Accounted, Current
  <2>5. /\ Current(c).phase \in WritablePhases /\ decision[c].outcome = "FAILED"
        => Untouched(c)'
    BY <2>1 DEF AccountInv, AccountOf, Untouched
  <2>6. AccountOf(c)'
    BY <2>1, <2>2, <2>5 DEF AccountOf, StagePoints, Current
  <2> QED
    BY <2>1, <2>4, <2>6, AloneAccounts DEF AccountInv
<1>7. ASSUME NEW c \in Controllers, SaveTransition(c) PROVE AccountInv'
  <2>1. /\ pc[c] = "save" /\ att[c] \in DOMAIN ledger
        /\ mem[c] = disk /\ mem[c].state = Current(c).phase
        /\ Current(c).phase \in AttemptPhase
        /\ disk'.state = RequestedState(mem[c].state, decision[c].outcome)
        /\ UNCHANGED <<ledger, att, decision>> /\ Alone(c)
        /\ Current(c).phase = "REPORTING" => pc'[c] = "complete"
        /\ Current(c).phase # "REPORTING" =>
              pc'[c] = IF disk'.state \in TerminalStates THEN "publish" ELSE "loop"
    BY <1>7, SaveEffect DEF SyncInv, StagePoints, Decided
  <2>2. decision[c].outcome \in StageOutcome
    BY <1>0 DEF TypeOK, Decision
  <2>3. \A i \in DOMAIN ledger : i # att[c] => Accounted(i)
    BY <2>1 DEF AccountInv, AccountOf, StagePoints
  <2>4. disk'.state # "HUMAN_REQUIRED" => Accounted(att[c])
    <3>1. CASE Current(c).phase \notin WritablePhases
      BY <3>1 DEF Accounted, Current
    <3>2. CASE Current(c).phase \in WritablePhases
      <4>1. /\ Current(c).status = StatusOf(decision[c].outcome)
            /\ decision[c].outcome = "FAILED" => Untouched(c)
        BY <2>1, <3>2 DEF AccountInv, AccountOf
      <4>2. disk'.state # "HUMAN_REQUIRED" => decision[c].outcome # "HUMAN_REQUIRED"
        BY <2>1 DEF RequestedState
      <4> QED
        BY <2>2, <4>1, <4>2 DEF Accounted, Current, Untouched, StatusOf, StageOutcome
    <3> QED
      BY <3>1, <3>2
  <2>5. disk'.state # "HUMAN_REQUIRED" => \A i \in DOMAIN ledger' : Accounted(i)'
    BY <2>1, <2>3, <2>4 DEF Accounted
  <2>6. \A i \in DOMAIN ledger' : i # att'[c] => Accounted(i)'
    BY <2>1, <2>3 DEF Accounted
  <2>7. pc'[c] = "loop" => disk'.state # "HUMAN_REQUIRED"
    BY <2>1 DEF TerminalStates
  <2>8. pc'[c] \notin {"begin", "finish", "save"}
        /\ (pc'[c] = "complete" => Current(c)'.phase \notin WritablePhases)
    BY <2>1 DEF WritablePhases, Current
  <2>9. AccountOf(c)'
    BY <2>1, <2>5, <2>6, <2>7, <2>8 DEF AccountOf
  <2> QED
    BY <2>1, <2>5, <2>9, AloneAccounts DEF AccountInv
<1>8. CASE Edit
  BY <1>8 DEF Edit, AccountInv, AccountOf, Accounted, Untouched, Current
<1>9. CASE UNCHANGED vars
  BY <1>9 DEF vars, AccountInv, AccountOf, Accounted, Untouched, Current
<1> QED
  BY <1>1, <1>2, <1>3, <1>4, <1>5, <1>6, <1>7, <1>8, <1>9, NextCases

LEMMA AccountInvariant == Spec /\ []FreshResumes => []AccountInv
BY InitAccount, NextAccount, BaseInvariant, SyncInvariant, PTL DEF Spec

\* A run is FAILED, rather than left to a human, only when every writable attempt
\* completed, started no agent, or provably left the repository as it found it, with
\* crashes at any point of any number of resumes (classify_unexpected_controller_
\* failure, resume_problem and the FAILED outcomes of the writable stages).
THEOREM FreshFailuresAreAccountedFor == Spec /\ []FreshResumes => []FailedIsAccountedFor
<1>1. AccountInv => FailedIsAccountedFor
  BY DEF AccountInv, AccountOf, Accounted, FailedIsAccountedFor, WritablePhases
<1> QED
  BY <1>1, AccountInvariant, PTL

-----------------------------------------------------------------------------
(* A correction answers the attempt that asked for it *)

Cause(i) == <<ledger[i].phase, ledger[i].verdict>> \in
               {<<"VERIFYING", "FAIL">>, <<"REVIEWING", "CORRECTIONS_REQUIRED">>}

LastDoneIsCause ==
    \E k \in DOMAIN ledger : IsLatest(ledger, k, AttemptPhase, {"COMPLETED"}) /\ Cause(k)

\* What CorrectionAnswersItsCause says of an attempt, without cutting the log.
Answered(i) ==
    /\ \E k \in DOMAIN ledger :
          /\ k < i /\ ledger[k].status = "COMPLETED" /\ Cause(k)
          /\ \A j \in DOMAIN ledger : k < j /\ j < i => ledger[j].status # "COMPLETED"
    /\ \E v \in DOMAIN ledger :
          /\ v < i /\ ledger[v].phase = "VERIFYING" /\ ledger[v].status = "COMPLETED"
          /\ ledger[v].after = ledger[i].before
          /\ \A j \in DOMAIN ledger : v < j /\ j < i =>
                ~ (ledger[j].phase = "VERIFYING" /\ ledger[j].status = "COMPLETED")

\* The cause of a correction is the decision in progress, then the last completed
\* attempt, until the correction is started.
CauseOf(c) ==
    /\ pc[c] \in {"loop", "begin"} /\ mem[c].state = "CORRECTING" => LastDoneIsCause
    /\ /\ pc[c] \in {"finish", "complete", "save"} /\ Current(c).phase # "REPORTING"
       /\ decision[c].outcome = "CORRECTION_REQUIRED"
       => Cause(att[c])
    /\ pc[c] = "save" /\ Current(c).phase # "REPORTING" =>
          Current(c).status = StatusOf(decision[c].outcome)
    /\ pc[c] = "begin" => ~ Current(c).started

CauseInv ==
    /\ disk.state = "CORRECTION_PENDING" => LastDoneIsCause
    /\ \A i \in DOMAIN ledger :
          ledger[i].phase = "CORRECTING" /\ ledger[i].started => Answered(i)
    /\ \A c \in Controllers : CauseOf(c)

\* The prefix of the log before an attempt, as the property looks at it.
LEMMA LogPrefix ==
    ASSUME NEW log \in Seq(AttemptRecord), NEW i \in DOMAIN log
    PROVE  /\ DOMAIN SubSeq(log, 1, i - 1) = { j \in DOMAIN log : j < i }
           /\ \A j \in DOMAIN log : j < i => SubSeq(log, 1, i - 1)[j] = log[j]
BY DEF AttemptRecord

LEMMA CauseImplies == TypeOK /\ CauseInv => CorrectionAnswersItsCause
<1> SUFFICES ASSUME TypeOK, CauseInv,
                    NEW i \in DOMAIN ledger,
                    ledger[i].phase = "CORRECTING", ledger[i].started,
                    NEW before, before = SubSeq(ledger, 1, i - 1)
             PROVE  /\ \E cause \in DOMAIN before :
                          /\ IsLatest(before, cause, AttemptPhase, {"COMPLETED"})
                          /\ <<before[cause].phase, before[cause].verdict>> \in
                                {<<"VERIFYING", "FAIL">>,
                                 <<"REVIEWING", "CORRECTIONS_REQUIRED">>}
                    /\ \E v \in DOMAIN before :
                          /\ IsLatest(before, v, {"VERIFYING"}, {"COMPLETED"})
                          /\ before[v].after = ledger[i].before
  BY DEF CorrectionAnswersItsCause
<1>1. /\ DOMAIN before = { j \in DOMAIN ledger : j < i }
      /\ \A j \in DOMAIN ledger : j < i => before[j] = ledger[j]
  BY LogPrefix DEF TypeOK
<1>2. \A j \in DOMAIN ledger : ledger[j].phase \in AttemptPhase
  BY RecordsTyped DEF AttemptRecord
<1>3. Answered(i)
  BY DEF CauseInv
<1>4. PICK k \in DOMAIN ledger :
         /\ k < i /\ ledger[k].status = "COMPLETED" /\ Cause(k)
         /\ \A j \in DOMAIN ledger : k < j /\ j < i => ledger[j].status # "COMPLETED"
  BY <1>3 DEF Answered
<1>5. k \in DOMAIN before /\ IsLatest(before, k, AttemptPhase, {"COMPLETED"})
  BY <1>1, <1>2, <1>4 DEF IsLatest, TypeOK
<1>6. <<before[k].phase, before[k].verdict>> \in
         {<<"VERIFYING", "FAIL">>, <<"REVIEWING", "CORRECTIONS_REQUIRED">>}
  BY <1>1, <1>4 DEF Cause
<1>7. PICK v \in DOMAIN ledger :
         /\ v < i /\ ledger[v].phase = "VERIFYING" /\ ledger[v].status = "COMPLETED"
         /\ ledger[v].after = ledger[i].before
         /\ \A j \in DOMAIN ledger : v < j /\ j < i =>
               ~ (ledger[j].phase = "VERIFYING" /\ ledger[j].status = "COMPLETED")
  BY <1>3 DEF Answered
<1>8. /\ v \in DOMAIN before /\ IsLatest(before, v, {"VERIFYING"}, {"COMPLETED"})
      /\ before[v].after = ledger[i].before
  BY <1>1, <1>7 DEF IsLatest, TypeOK
<1> QED
  BY <1>5, <1>6, <1>8

LEMMA AloneCauses ==
    ASSUME NEW c \in Controllers, Alone(c)
    PROVE  \A d \in Controllers \ {c} : CauseOf(d)'
BY DEF Alone, CauseOf, StagePoints

LEMMA InitCause == Init => CauseInv
BY DEF Init, CauseInv, CauseOf, StagePoints, NewRun

\* A step that only touches the last attempt, or adds one that has not started,
\* leaves what earlier corrections answer alone.
LEMMA AnswersStay ==
    ASSUME TypeOK, CauseInv,
           DOMAIN ledger' \in { 1 .. Len(ledger), 1 .. Len(ledger) + 1 },
           \A i \in DOMAIN ledger : i # Len(ledger) => ledger'[i] = ledger[i],
           NEW i \in DOMAIN ledger, i # Len(ledger),
           ledger'[i].phase = "CORRECTING", ledger'[i].started
    PROVE  Answered(i)'
<1>1. /\ Len(ledger) \in Nat /\ DOMAIN ledger = 1 .. Len(ledger)
  BY DEF TypeOK
<1>2. ledger'[i] = ledger[i] /\ Answered(i)
  BY DEF CauseInv
<1>3. \A j \in DOMAIN ledger' : j < i => j \in DOMAIN ledger /\ ledger'[j] = ledger[j]
  BY <1>1
<1>4. \A j \in DOMAIN ledger : j < i => j \in DOMAIN ledger' /\ Cause(j)' = Cause(j)
  BY <1>1, <1>3 DEF Cause
<1> QED
  BY <1>2, <1>3, <1>4 DEF Answered

\* A stage asks for a correction only for a cause, and a correction starts only
\* with one, from the source the latest verification left.
LEMMA StageCauses ==
    ASSUME BaseInv, CauseInv, NEW c \in Controllers, Stage(c)
    PROVE  /\ pc'[c] # "begin"
           /\ /\ pc'[c] \in {"finish", "complete"} /\ Current(c).phase # "REPORTING"
              /\ decision'[c].outcome = "CORRECTION_REQUIRED"
              => <<Current(c)'.phase, Current(c)'.verdict>> \in
                    {<<"VERIFYING", "FAIL">>, <<"REVIEWING", "CORRECTIONS_REQUIRED">>}
           /\ /\ Current(c).phase = "CORRECTING" /\ Current(c)'.started
              => \/ /\ Current(c).started /\ Current(c)'.before = Current(c).before
                 \/ LastDoneIsCause /\ CorrectionMayStart(Current(c)'.before)
<1>0. Current(c)'.phase = Current(c).phase /\ mem[c].state = Current(c).phase
  BY StageEffect
<1>1. CASE BeginVerification(c) \/ PreparationRaises(c)
  BY <1>1, BeginVerificationEffect, PreparationRaisesEffect
<1>2. CASE RunVerification(c)
  BY <1>0, <1>2, RunVerificationEffect DEF VerificationOutcome
<1>3. CASE BeginReview(c)
  BY <1>3, BeginReviewEffect
<1>4. CASE RunReview(c)
  BY <1>0, <1>4, RunReviewEffect DEF ReviewResults
<1>5. CASE BeginWritable(c)
  BY <1>0, <1>5, BeginWritableEffect DEF CauseInv, CauseOf
<1>6. CASE RunWritable(c)
  <2>1. decision'[c].outcome # "CORRECTION_REQUIRED"
    BY <1>6, RunWritableEffect DEF WritableOutcomes
  <2> QED
    BY <1>6, <2>1, RunWritableEffect DEF Keeps
<1>7. CASE Finish(c)
  <2>1. /\ pc[c] = "finish" /\ Current(c).phase # "REPORTING" /\ pc'[c] = "complete"
        /\ Current(c)'.verdict = Current(c).verdict
        /\ Current(c)'.started = Current(c).started
        /\ Current(c)'.before = Current(c).before
        /\ decision'[c].outcome \in {decision[c].outcome, "HUMAN_REQUIRED"}
    BY <1>7, FinishEffect DEF Keeps, AllFields
  <2> QED
    BY <1>0, <2>1 DEF CauseInv, CauseOf, Cause, Current
<1>8. CASE BeginHandoff(c) \/ CapturePatch(c) \/ RecheckHandoff(c)
  BY <1>8, HandoffEffect
<1> QED
  BY <1>1, <1>2, <1>3, <1>4, <1>5, <1>6, <1>7, <1>8 DEF Stage

LEMMA NextCause ==
    BaseInv /\ SyncInv /\ CauseInv /\ FreshResumes /\ [Next]_vars => CauseInv'
<1> SUFFICES ASSUME BaseInv, SyncInv, CauseInv, FreshResumes, [Next]_vars
             PROVE  CauseInv'
  OBVIOUS
<1>0. TypeOK /\ DOMAIN ledger = 1 .. Len(ledger) /\ Len(ledger) \in Nat
  BY DEF BaseInv, TypeOK
<1>1. ASSUME NEW c \in Controllers, OutsideStages(c) PROVE CauseInv'
  <2>1. UNCHANGED ledger /\ (UNCHANGED disk \/ disk'.state \in {"HUMAN_REQUIRED", "FAILED"})
    BY <1>1, OutsideEffect
  <2>2. \A d \in Controllers :
           pc'[d] \in StagePoints \cup {"loop"} =>
              /\ pc'[d] = pc[d] /\ mem'[d] = mem[d]
              /\ att'[d] = att[d] /\ decision'[d] = decision[d]
    BY <1>1, OutsideEffect
  <2>3. \A d \in Controllers : CauseOf(d)'
    BY <2>1, <2>2 DEF CauseInv, CauseOf, Current, Cause, LastDoneIsCause, StagePoints
  <2> QED
    BY <2>1, <2>3 DEF CauseInv, LastDoneIsCause, Cause, Answered
<1>2. ASSUME NEW c \in Controllers, ResumeAccepted(c) PROVE CauseInv'
  <2>1. /\ UNCHANGED <<ledger, disk, mem>> /\ pc'[c] = "loop" /\ Alone(c)
        /\ mem[c].state \notin WritablePhases
    BY <1>2, AcceptedEffect DEF Resumable
  <2>2. CauseOf(c)'
    BY <2>1 DEF CauseOf, WritablePhases
  <2> QED
    BY <2>1, <2>2, AloneCauses DEF CauseInv, LastDoneIsCause, Cause, Answered
<1>3. ASSUME NEW c \in Controllers, ImmediateTransition(c) PROVE CauseInv'
  <2>1. /\ UNCHANGED ledger /\ mem[c] = disk /\ mem'[c] = disk' /\ Alone(c)
        /\ mem[c].state \in {"PREPARED", "CORRECTION_PENDING"}
        /\ disk'.state = ImmediateTarget(mem[c]) /\ pc'[c] \in {"publish", "loop"}
    BY <1>3, ImmediateEffect DEF SyncInv
  <2>2. /\ disk'.state # "CORRECTION_PENDING"
        /\ disk'.state = "CORRECTING" => LastDoneIsCause
    BY <2>1 DEF CauseInv, ImmediateTarget
  <2>3. CauseOf(c)'
    BY <2>1, <2>2 DEF CauseOf, LastDoneIsCause, Cause
  <2> QED
    BY <2>1, <2>2, <2>3, AloneCauses DEF CauseInv, Cause, Answered
<1>4. ASSUME NEW c \in Controllers, StartAttempt(c) PROVE CauseInv'
  <2>1. /\ pc[c] = "loop" /\ pc'[c] = "begin" /\ att'[c] = Len(ledger) + 1
        /\ UNCHANGED <<disk, mem>> /\ DOMAIN ledger' = 1 .. Len(ledger) + 1
        /\ \A i \in DOMAIN ledger : ledger'[i] = ledger[i]
        /\ ledger'[Len(ledger) + 1].status = "STARTED"
        /\ ledger'[Len(ledger) + 1].started = FALSE /\ Alone(c)
        /\ mem[c].state \in AttemptPhase
    BY <1>4, StartEffect
  <2>2. \A i \in DOMAIN ledger' : i \in DOMAIN ledger \/ i = Len(ledger) + 1
    BY <1>0, <2>1
  <2>3. LastDoneIsCause => LastDoneIsCause'
    BY <1>0, <2>1, <2>2 DEF LastDoneIsCause, IsLatest, Cause
  <2>4. ASSUME NEW i \in DOMAIN ledger',
               ledger'[i].phase = "CORRECTING", ledger'[i].started
        PROVE  Answered(i)'
    <3>1. i \in DOMAIN ledger /\ Answered(i)
      BY <2>1, <2>2, <2>4 DEF CauseInv
    <3>2. \A j \in DOMAIN ledger' : j < i => j \in DOMAIN ledger /\ ledger'[j] = ledger[j]
      BY <1>0, <2>1, <3>1
    <3> QED
      BY <1>0, <2>1, <3>1, <3>2 DEF Answered, Cause
  <2>5. CauseOf(c)'
    BY <2>1, <2>3 DEF CauseInv, CauseOf, Current
  <2> QED
    BY <2>1, <2>3, <2>4, <2>5, AloneCauses DEF CauseInv
<1>5. ASSUME NEW c \in Controllers, Stage(c) PROVE CauseInv'
  <2>1. /\ pc[c] \in StagePoints /\ pc[c] # "complete" /\ att[c] \in DOMAIN ledger
        /\ DOMAIN ledger' = DOMAIN ledger
        /\ \A i \in DOMAIN ledger : i # att[c] => ledger'[i] = ledger[i]
        /\ Current(c)'.phase = Current(c).phase /\ Current(c).phase = mem[c].state
        /\ UNCHANGED <<disk, att, mem>> /\ Alone(c) /\ pc'[c] \in StagePoints
        /\ pc'[c] = "save" => Current(c).phase = "REPORTING"
    BY <1>5, StageEffect DEF StagePoints
  <2>2. /\ att[c] = Len(ledger) /\ mem[c] = disk /\ disk.state # "CORRECTION_PENDING"
    <3>1. Current(c).phase # "CORRECTION_PENDING"
      BY <1>0, <2>1, RecordsTyped
         DEF Current, AttemptRecord, AttemptPhase, WritablePhases, ReadOnlyPhases
    <3> QED
      BY <2>1, <3>1 DEF SyncInv
  <2>3. CauseOf(c)'
    BY <1>5, <2>1, StageCauses DEF CauseOf, Cause, Current, StagePoints
  <2>4. ASSUME Current(c)'.phase = "CORRECTING", Current(c)'.started
        PROVE  Answered(att[c])'
    <3>1. CASE Current(c).started /\ Current(c)'.before = Current(c).before
      <4>1. Answered(att[c])
        BY <2>1, <2>4, <3>1 DEF CauseInv, Current
      <4> QED
        BY <1>0, <2>1, <2>2, <3>1, <4>1 DEF Answered, Cause, Current
    <3>2. CASE LastDoneIsCause /\ CorrectionMayStart(Current(c)'.before)
      <4>1. PICK k \in DOMAIN ledger : IsLatest(ledger, k, AttemptPhase, {"COMPLETED"}) /\ Cause(k)
        BY <3>2 DEF LastDoneIsCause
      <4>2. PICK v \in DOMAIN ledger :
               /\ IsLatest(ledger, v, {"VERIFYING"}, {"COMPLETED"})
               /\ ledger[v].after = Current(c)'.before
        BY <3>2 DEF CorrectionMayStart, VerifiedSource
      <4>3. k < att[c] /\ v < att[c]
        BY <1>0, <2>1, <2>2, <2>4, <4>1, <4>2 DEF Cause, IsLatest, Current
      <4>4. \A j \in DOMAIN ledger : ledger[j].phase \in AttemptPhase
        BY <1>0, RecordsTyped DEF AttemptRecord
      <4> QED
        BY <1>0, <2>1, <2>2, <4>1, <4>2, <4>3, <4>4 DEF Answered, Cause, IsLatest, Current
    <3> QED
      BY <1>5, <2>1, <2>4, <3>1, <3>2, StageCauses
  <2>5. \A i \in DOMAIN ledger' :
           ledger'[i].phase = "CORRECTING" /\ ledger'[i].started => Answered(i)'
    BY <1>0, <2>1, <2>2, <2>4, AnswersStay DEF Current
  <2> QED
    BY <2>1, <2>2, <2>3, <2>5, AloneCauses DEF CauseInv
<1>6. ASSUME NEW c \in Controllers, CompleteAttempt(c) PROVE CauseInv'
  <2>1. /\ pc[c] = "complete" /\ att[c] \in DOMAIN ledger
        /\ DOMAIN ledger' = DOMAIN ledger
        /\ \A i \in DOMAIN ledger : i # att[c] => ledger'[i] = ledger[i]
        /\ Current(c)'.phase = Current(c).phase /\ Current(c)'.before = Current(c).before
        /\ Current(c)'.started = Current(c).started
        /\ Current(c)'.verdict = Current(c).verdict
        /\ Current(c)'.status = StatusOf(decision[c].outcome)
        /\ UNCHANGED <<disk, att, decision>> /\ Alone(c)
        /\ Current(c).phase # "REPORTING" => pc'[c] = "save"
        /\ Current(c).phase = "REPORTING" => pc'[c] = "publish"
    BY <1>6, CompleteEffect
  <2>2. att[c] = Len(ledger) /\ disk.state # "CORRECTION_PENDING"
    <3>1. /\ att[c] = Len(ledger) /\ Current(c).phase = mem[c].state
          /\ mem[c] = disk \/ (Current(c).phase = "REPORTING" /\ Decided(c) = disk)
      BY <2>1 DEF SyncInv, BaseInv, FrameInv, StagePoints, Current
    <3>2. Current(c).phase = "REPORTING" => Decided(c).state \in TerminalStates
      BY <2>1 DEF BaseInv, PublishInv, Current
    <3>3. Current(c).phase # "CORRECTION_PENDING"
      BY <1>0, <2>1, RecordsTyped
         DEF Current, AttemptRecord, AttemptPhase, WritablePhases, ReadOnlyPhases
    <3> QED
      BY <3>1, <3>2, <3>3 DEF TerminalStates
  <2>3. CauseOf(c)'
    BY <2>1 DEF CauseInv, CauseOf, Cause, Current
  <2>4. ASSUME Current(c)'.phase = "CORRECTING", Current(c)'.started
        PROVE  Answered(att[c])'
    <3>1. Answered(att[c])
      BY <2>1, <2>4 DEF CauseInv, Current
    <3> QED
      BY <1>0, <2>1, <2>2, <3>1 DEF Answered, Cause, Current
  <2>5. \A i \in DOMAIN ledger' :
           ledger'[i].phase = "CORRECTING" /\ ledger'[i].started => Answered(i)'
    BY <1>0, <2>1, <2>2, <2>4, AnswersStay DEF Current
  <2> QED
    BY <2>1, <2>2, <2>3, <2>5, AloneCauses DEF CauseInv
<1>7. ASSUME NEW c \in Controllers, SaveTransition(c) PROVE CauseInv'
  <2>1. /\ pc[c] = "save" /\ att[c] \in DOMAIN ledger
        /\ mem[c].state = Current(c).phase /\ Current(c).phase \in AttemptPhase
        /\ LegalTransition(mem[c].state, disk'.state)
        /\ disk'.state = RequestedState(mem[c].state, decision[c].outcome)
        /\ UNCHANGED <<ledger, att, decision>> /\ Alone(c)
        /\ Current(c).phase = "REPORTING" => pc'[c] = "complete"
        /\ Current(c).phase # "REPORTING" =>
              /\ mem'[c] = disk'
              /\ pc'[c] = IF disk'.state \in TerminalStates THEN "publish" ELSE "loop"
    BY <1>7, SaveEffect DEF Decided
  <2>2. decision[c].outcome \in StageOutcome /\ att[c] = Len(ledger)
    BY <1>0, <2>1 DEF TypeOK, Decision, SyncInv, StagePoints
  <2>3. disk'.state # "CORRECTING"
    BY <2>1, <2>2 DEF RequestedState, StageOutcome, CompletedTransition, AttemptPhase,
                      WritablePhases, ReadOnlyPhases
  <2>4. disk'.state = "CORRECTION_PENDING" =>
           decision[c].outcome = "CORRECTION_REQUIRED" /\ Current(c).phase # "REPORTING"
    BY <2>1, <2>2 DEF RequestedState, StageOutcome, CompletedTransition, AttemptPhase,
         WritablePhases, ReadOnlyPhases, LegalTransition, ForwardTransitions
  <2>5. disk'.state = "CORRECTION_PENDING" => LastDoneIsCause'
    <3>1. ASSUME disk'.state = "CORRECTION_PENDING" PROVE LastDoneIsCause
      <4>1. Cause(att[c]) /\ Current(c).status = "COMPLETED"
        BY <2>1, <2>4, <3>1 DEF CauseInv, CauseOf, StatusOf
      <4>2. IsLatest(ledger, att[c], AttemptPhase, {"COMPLETED"})
        BY <1>0, <2>1, <2>2, <4>1 DEF IsLatest, Current
      <4> QED
        BY <2>1, <4>1, <4>2 DEF LastDoneIsCause
    <3> QED
      BY <2>1, <3>1 DEF LastDoneIsCause, Cause
  <2>6. CauseOf(c)'
    BY <2>1, <2>3 DEF CauseOf, Current
  <2> QED
    BY <2>1, <2>5, <2>6, AloneCauses DEF CauseInv, Answered, Cause
<1>8. CASE Edit
  BY <1>8 DEF Edit, CauseInv, CauseOf, LastDoneIsCause, Answered, Cause, Current
<1>9. CASE UNCHANGED vars
  BY <1>9 DEF vars, CauseInv, CauseOf, LastDoneIsCause, Answered, Cause, Current
<1> QED
  BY <1>1, <1>2, <1>3, <1>4, <1>5, <1>6, <1>7, <1>8, <1>9, NextCases

LEMMA CauseInvariant == Spec /\ []FreshResumes => []CauseInv
BY InitCause, NextCause, BaseInvariant, SyncInvariant, PTL DEF Spec

\* A correction is about findings of the last attempt completed before it, and its
\* agent starts from the source the latest verification left, through any crashes
\* and resumes (plan_pending_correction, _correction_source_fingerprint).
THEOREM FreshCorrectionsAnswerTheirCause ==
    Spec /\ []FreshResumes => []CorrectionAnswersItsCause
<1>1. BaseInv => TypeOK
  BY DEF BaseInv
<1> QED
  BY <1>1, CauseImplies, BaseInvariant, CauseInvariant, PTL

-----------------------------------------------------------------------------
(* The delivered patch is of the reviewed source *)

\* The latest completed review left the repository at s.
Delivers(s) ==
    \E r \in DOMAIN ledger :
       IsLatest(ledger, r, {"REVIEWING"}, {"COMPLETED"}) /\ ledger[r].after = s

\* An acceptance that goes on is of the source its attempt began with; each way that
\* the patch can be of another one has cost an edit, and hiding it a second.
PatchOf(c) ==
    LET source == Current(c).before IN
    Current(c).phase = "REPORTING" =>
       /\ pc[c] = "executing" =>
             Delivers(source) /\ (workspace = source \/ edits >= 1)
       /\ pc[c] = "finish" =>
             /\ Delivers(source)
             /\ \/ patch = source
                \/ edits >= 1 /\ (workspace = source => edits >= 2)
       /\ pc[c] = "save" /\ decision[c].outcome = "COMPLETED" =>
             Delivers(source) /\ (patch = source \/ edits >= 2)

PatchInv == SingleEditIsCaught /\ \A c \in Controllers : PatchOf(c)

LEMMA AlonePatches ==
    ASSUME NEW c \in Controllers, Alone(c)
    PROVE  \A d \in Controllers \ {c} : PatchOf(d)'
BY DEF Alone, PatchOf, StagePoints

LEMMA InitPatch == Init => PatchInv
BY DEF Init, PatchInv, SingleEditIsCaught, PatchIsReviewedSource, PatchOf, NewRun

\* The handoff policy looks at the latest review whatever became of it.
LEMMA AcceptedDelivers ==
    ASSUME NEW rec, NEW source, HandoffAccepts(rec, ledger, source)
    PROVE  Delivers(source)
<1>1. PICK w, v, r \in DOMAIN ledger :
         /\ ledger[v].after = source
         /\ IsLatest(ledger, r, {"REVIEWING"}, AttemptStatus)
         /\ ledger[r].status = "COMPLETED" /\ ledger[r].after = ledger[v].after
  BY DEF HandoffAccepts
<1>2. IsLatest(ledger, r, {"REVIEWING"}, {"COMPLETED"})
  BY <1>1 DEF IsLatest, AttemptStatus
<1> QED
  BY <1>1, <1>2 DEF Delivers

LEMMA ReportingEffect ==
    ASSUME BaseInv, NEW c \in Controllers,
           BeginHandoff(c) \/ CapturePatch(c) \/ RecheckHandoff(c)
    PROVE  \/ /\ pc[c] = "begin" /\ pc'[c] = "executing" /\ UNCHANGED patch
              /\ Current(c).before = workspace
              /\ HandoffAccepts(mem[c], ledger, workspace)
           \/ pc[c] = "executing" /\ pc'[c] = "finish" /\ patch' = workspace
           \/ /\ pc[c] = "finish" /\ pc'[c] = "save" /\ UNCHANGED patch
              /\ decision'[c].outcome = "COMPLETED" => Current(c).before = workspace
           \/ pc'[c] = "save" /\ decision'[c].outcome = "HUMAN_REQUIRED"
<1>0. TypeOK /\ Attempt(c) = Current(c)
  BY DEF BaseInv, Current, Attempt
<1>1. CASE BeginHandoff(c)
  <2>1. PICK seen \in Capture(workspace) :
           IF Unchanged(seen, c) /\ HandoffAccepts(mem[c], ledger, seen)
           THEN Goto(c, "executing") /\ UNCHANGED decision
           ELSE /\ Decide(c, "HUMAN_REQUIRED", seen, mem[c].correction)
                /\ Goto(c, "save")
    BY <1>1 DEF BeginHandoff
  <2>2. CASE Unchanged(seen, c) /\ HandoffAccepts(mem[c], ledger, seen)
    <3>1. seen = workspace
      BY <2>1, <2>2 DEF Capture, HandoffAccepts
    <3> QED
      BY <1>0, <1>1, <2>1, <2>2, <3>1 DEF BeginHandoff, In, Unchanged, Goto, TypeOK
  <2>3. CASE ~ (Unchanged(seen, c) /\ HandoffAccepts(mem[c], ledger, seen))
    BY <1>0, <2>1, <2>3, DecidedCurrent DEF Goto, TypeOK
  <2> QED
    BY <2>2, <2>3
<1>2. CASE CapturePatch(c)
  BY <1>0, <1>2, DecidedCurrent DEF CapturePatch, In, Goto, TypeOK
<1>3. CASE RecheckHandoff(c)
  <2>1. PICK seen \in Capture(workspace) :
           Decide(c, IF Unchanged(seen, c) /\ seen # NoFingerprint
                     THEN "COMPLETED" ELSE "HUMAN_REQUIRED", seen, mem[c].correction)
    BY <1>3 DEF RecheckHandoff
  <2>2. decision'[c].outcome = "COMPLETED" => Unchanged(seen, c) /\ seen # NoFingerprint
    BY <2>1, DecidedCurrent
  <2> QED
    BY <1>0, <1>3, <2>2 DEF RecheckHandoff, In, Goto, TypeOK, Unchanged, Capture
<1> QED
  BY <1>1, <1>2, <1>3

\* The other stages leave the patch alone.
LEMMA PatchStays ==
    ASSUME BaseInv, NEW c \in Controllers, Stage(c), Current(c).phase # "REPORTING"
    PROVE  UNCHANGED patch
BY BeginVerificationEffect, PreparationRaisesEffect, RunVerificationEffect,
   BeginReviewEffect, RunReviewEffect, BeginWritableEffect, RunWritableEffect,
   FinishEffect, HandoffEffect DEF Stage

LEMMA NextPatch ==
    BaseInv /\ SyncInv /\ PatchInv /\ FreshResumes /\ [Next]_vars => PatchInv'
<1> SUFFICES ASSUME BaseInv, SyncInv, PatchInv, FreshResumes, [Next]_vars
             PROVE  PatchInv'
  OBVIOUS
<1>0. TypeOK /\ DOMAIN ledger = 1 .. Len(ledger) /\ Len(ledger) \in Nat /\ edits \in Nat
  BY DEF BaseInv, TypeOK
<1>1. ASSUME NEW c \in Controllers, OutsideStages(c) PROVE PatchInv'
  <2>1. /\ UNCHANGED <<ledger, patch, edits>>
        /\ UNCHANGED disk \/ disk'.state \in {"HUMAN_REQUIRED", "FAILED"}
        /\ \/ UNCHANGED workspace
           \/ In(c, "executing", AttemptPhase \ {"REPORTING"}) /\ UNCHANGED pc
    BY <1>1, OutsideEffect
  <2>2. SingleEditIsCaught'
    BY <2>1 DEF PatchInv, SingleEditIsCaught, PatchIsReviewedSource
  <2>3. ASSUME NEW d \in Controllers PROVE PatchOf(d)'
    <3>1. CASE pc'[d] \notin StagePoints \cup {"loop"}
      BY <3>1 DEF PatchOf, StagePoints
    <3>2. CASE pc'[d] \in StagePoints \cup {"loop"}
      <4>1. /\ pc'[d] = pc[d] /\ att'[d] = att[d] /\ decision'[d] = decision[d]
            /\ Current(d)' = Current(d)
        BY <1>1, <2>1, <3>2, OutsideEffect DEF Current
      <4>2. CASE UNCHANGED workspace
        BY <2>1, <4>1, <4>2 DEF PatchInv, PatchOf, Delivers
      <4>3. CASE In(c, "executing", AttemptPhase \ {"REPORTING"})
        <5>1. d = c
          BY <3>2, <4>1, <4>3, OthersOutside DEF In
        <5> QED
          BY <4>1, <4>3, <5>1 DEF PatchOf, In, Current
      <4> QED
        BY <2>1, <4>2, <4>3
    <3> QED
      BY <3>1, <3>2
  <2> QED
    BY <2>2, <2>3 DEF PatchInv
<1>2. ASSUME NEW c \in Controllers,
             \/ /\ UNCHANGED <<ledger, disk, patch, edits>>
                /\ pc'[c] \notin StagePoints /\ Alone(c)
             \/ /\ UNCHANGED <<ledger, patch, edits>> /\ disk'.state # "READY_FOR_HUMAN"
                /\ pc'[c] \notin StagePoints /\ Alone(c)
      PROVE  PatchInv'
  <2>1. PatchOf(c)' /\ SingleEditIsCaught'
    BY <1>2 DEF PatchOf, StagePoints, PatchInv, SingleEditIsCaught, PatchIsReviewedSource
  <2> QED
    BY <1>2, <2>1, AlonePatches DEF PatchInv
<1>3. ASSUME NEW c \in Controllers, ResumeAccepted(c) \/ ImmediateTransition(c)
      PROVE  PatchInv'
  BY <1>2, <1>3, AcceptedEffect, ImmediateEffect DEF ImmediateTarget, StagePoints
<1>4. ASSUME NEW c \in Controllers, StartAttempt(c) PROVE PatchInv'
  <2>1. /\ pc'[c] = "begin" /\ Alone(c) /\ UNCHANGED <<disk, patch, edits>>
        /\ mem[c] = disk /\ mem[c].state \notin TerminalStates
    BY <1>4, StartEffect DEF SyncInv
  <2>2. PatchOf(c)' /\ SingleEditIsCaught'
    BY <2>1 DEF PatchOf, SingleEditIsCaught, PatchIsReviewedSource, TerminalStates
  <2> QED
    BY <2>1, <2>2, AlonePatches DEF PatchInv
<1>5. ASSUME NEW c \in Controllers, Stage(c) PROVE PatchInv'
  <2>1. /\ pc[c] \in StagePoints /\ pc[c] # "complete" /\ att[c] \in DOMAIN ledger
        /\ Current(c)'.phase = Current(c).phase /\ Current(c).phase = mem[c].state
        /\ UNCHANGED <<disk, att, workspace, edits>> /\ Alone(c)
    BY <1>5, StageEffect DEF StagePoints
  <2>2. disk.state # "READY_FOR_HUMAN"
    <3>1. Current(c).phase # "READY_FOR_HUMAN"
      BY <1>0, <2>1, RecordsTyped
         DEF Current, AttemptRecord, AttemptPhase, WritablePhases, ReadOnlyPhases
    <3> QED
      BY <2>1, <3>1 DEF SyncInv
  <2>3. SingleEditIsCaught'
    BY <2>1, <2>2 DEF SingleEditIsCaught, PatchIsReviewedSource
  <2>4. CASE Current(c).phase # "REPORTING"
    BY <2>1, <2>3, <2>4, AlonePatches DEF PatchInv, PatchOf
  <2>5. CASE Current(c).phase = "REPORTING"
    <3>1. BeginHandoff(c) \/ CapturePatch(c) \/ RecheckHandoff(c)
      BY <1>5, <2>5, BeginVerificationEffect, PreparationRaisesEffect, RunVerificationEffect,
         BeginReviewEffect, RunReviewEffect, BeginWritableEffect, RunWritableEffect,
         FinishEffect DEF Stage, WritablePhases
    <3>2. /\ UNCHANGED ledger /\ Current(c)' = Current(c)
      BY <2>1, <3>1, HandoffEffect DEF Current
    <3>3. PatchOf(c)'
      <4>1. CASE /\ pc'[c] = "executing" /\ Current(c).before = workspace
                 /\ HandoffAccepts(mem[c], ledger, workspace)
        <5>1. Delivers(Current(c).before)
          BY <4>1, AcceptedDelivers
        <5> QED
          BY <2>1, <3>2, <4>1, <5>1 DEF PatchOf, Delivers
      <4>2. CASE pc[c] = "executing" /\ pc'[c] = "finish" /\ patch' = workspace
        BY <2>1, <2>5, <3>2, <4>2 DEF PatchInv, PatchOf, Delivers
      <4>3. CASE /\ pc[c] = "finish" /\ pc'[c] = "save" /\ UNCHANGED patch
                 /\ decision'[c].outcome = "COMPLETED" => Current(c).before = workspace
        BY <1>0, <2>1, <2>5, <3>2, <4>3 DEF PatchInv, PatchOf, Delivers
      <4>4. CASE pc'[c] = "save" /\ decision'[c].outcome = "HUMAN_REQUIRED"
        BY <4>4 DEF PatchOf
      <4> QED
        BY <3>1, <4>1, <4>2, <4>3, <4>4, ReportingEffect
    <3> QED
      BY <2>1, <2>3, <3>3, AlonePatches DEF PatchInv
  <2> QED
    BY <2>4, <2>5
<1>6. ASSUME NEW c \in Controllers, CompleteAttempt(c) PROVE PatchInv'
  <2>1. /\ pc[c] = "complete" /\ att[c] \in DOMAIN ledger
        /\ DOMAIN ledger' = DOMAIN ledger
        /\ \A i \in DOMAIN ledger : i # att[c] => ledger'[i] = ledger[i]
        /\ Current(c)'.phase = Current(c).phase
        /\ UNCHANGED <<disk, att, patch, edits>> /\ Alone(c)
        /\ Current(c).phase # "REPORTING" => pc'[c] = "save"
        /\ Current(c).phase = "REPORTING" => pc'[c] = "publish"
    BY <1>6, CompleteEffect
  <2>2. PatchOf(c)'
    BY <2>1 DEF PatchOf
  <2>3. CASE Current(c).phase = "REPORTING"
    <3>1. ASSUME NEW r \in DOMAIN ledger, IsLatest(ledger, r, {"REVIEWING"}, {"COMPLETED"})
          PROVE  IsLatest(ledger', r, {"REVIEWING"}, {"COMPLETED"}) /\ ledger'[r] = ledger[r]
      BY <2>1, <2>3, <3>1 DEF IsLatest, Current
    <3>2. SingleEditIsCaught'
      BY <2>1, <3>1 DEF PatchInv, SingleEditIsCaught, PatchIsReviewedSource
    <3> QED
      BY <2>1, <2>2, <3>2, AlonePatches DEF PatchInv
  <2>4. CASE Current(c).phase # "REPORTING"
    <3>1. mem[c] = disk /\ Current(c).phase = mem[c].state
      BY <2>1, <2>4 DEF SyncInv, BaseInv, FrameInv, StagePoints, Current
    <3>2. disk.state # "READY_FOR_HUMAN"
      BY <1>0, <2>1, <3>1, RecordsTyped
         DEF Current, AttemptRecord, AttemptPhase, WritablePhases, ReadOnlyPhases
    <3> QED
      BY <2>1, <2>2, <3>2, AlonePatches DEF PatchInv, SingleEditIsCaught, PatchIsReviewedSource
  <2> QED
    BY <2>3, <2>4
<1>7. ASSUME NEW c \in Controllers, SaveTransition(c) PROVE PatchInv'
  <2>1. /\ pc[c] = "save" /\ att[c] \in DOMAIN ledger
        /\ mem[c].state = Current(c).phase /\ mem[c].state \in AttemptPhase
        /\ disk' = Decided(c)
        /\ UNCHANGED <<ledger, att, patch, edits>> /\ Alone(c)
        /\ pc'[c] \in {"complete", "publish", "loop"}
    BY <1>7, SaveEffect
  <2>2. PatchOf(c)'
    BY <2>1 DEF PatchOf
  <2>3. ASSUME disk'.state = "READY_FOR_HUMAN", edits <= 1
        PROVE  Delivers(Current(c).before) /\ patch = Current(c).before
    <3>1. Current(c).phase = "REPORTING" /\ decision[c].outcome = "COMPLETED"
      BY <1>0, <2>1, <2>3, ReadyNeedsReporting
    <3> QED
      BY <1>0, <2>1, <2>3, <3>1 DEF PatchInv, PatchOf
  <2>4. SingleEditIsCaught'
    BY <2>1, <2>3 DEF SingleEditIsCaught, PatchIsReviewedSource, Delivers
  <2> QED
    BY <2>1, <2>2, <2>4, AlonePatches DEF PatchInv
<1>8. CASE Edit
  <2>1. /\ edits' = edits + 1 /\ workspace' # workspace
        /\ UNCHANGED <<disk, ledger, patch, pc, mem, att, decision>>
    BY <1>8 DEF Edit
  <2>2. SingleEditIsCaught'
    BY <1>0, <2>1 DEF PatchInv, SingleEditIsCaught, PatchIsReviewedSource
  <2>3. ASSUME NEW c \in Controllers PROVE PatchOf(c)'
    BY <1>0, <2>1 DEF PatchInv, PatchOf, Delivers, Current
  <2> QED
    BY <2>2, <2>3 DEF PatchInv
<1>9. CASE UNCHANGED vars
  BY <1>9 DEF vars, PatchInv, SingleEditIsCaught, PatchIsReviewedSource, PatchOf, Delivers,
              Current
<1> QED
  BY <1>1, <1>3, <1>4, <1>5, <1>6, <1>7, <1>8, <1>9, NextCases

LEMMA PatchInvariant == Spec /\ []FreshResumes => []PatchInv
BY InitPatch, NextPatch, BaseInvariant, SyncInvariant, PTL DEF Spec

\* The patch of an accepted run is of the source its latest review covered unless
\* two writes from outside met the acceptance, one to falsify the patch and one to
\* hide it (HandoffAcceptanceService.accept captures between two equal snapshots).
THEOREM FreshSingleEditIsCaught == Spec /\ []FreshResumes => []SingleEditIsCaught
<1>1. PatchInv => SingleEditIsCaught
  BY DEF PatchInv
<1> QED
  BY <1>1, PatchInvariant, PTL

-----------------------------------------------------------------------------
(***************************************************************************)
(* Third part: from the evidence of a run to the contract it implements    *)
(*                                                                         *)
(* A run that reaches reporting with nothing recorded against it has all   *)
(* the evidence the handoff policy asks for, through any crashes and       *)
(* resumes: its agents' attempts started their agents, its rounds fit its  *)
(* attempts and are within the limit, and the latest write, verification   *)
(* and review are of one source.                                           *)
(*                                                                         *)
(* The lifecycle implements the ticket contract, step by step: an attempt  *)
(* that starts, is amended or ends writes, verifies, reviews, or takes an  *)
(* earlier approval back; the run record delivers or gives up; every other *)
(* step changes nothing the contract knows of.                             *)
(***************************************************************************)

-----------------------------------------------------------------------------
(* Two ways the attempt log changes *)

\* Only the record k changes, and its phase stays.
Touches(k) ==
    /\ DOMAIN ledger' = DOMAIN ledger
    /\ \A i \in DOMAIN ledger : i # k => ledger'[i] = ledger[i]
    /\ k \in DOMAIN ledger => ledger'[k].phase = ledger[k].phase

\* A started attempt is added.
Grows ==
    /\ DOMAIN ledger' = 1 .. Len(ledger) + 1
    /\ \A i \in DOMAIN ledger : ledger'[i] = ledger[i]
    /\ ledger'[Len(ledger) + 1].status = "STARTED"

LEMMA LedgerDomain ==
    ASSUME TypeOK
    PROVE  Len(ledger) \in Nat /\ DOMAIN ledger = 1 .. Len(ledger)
BY DEF TypeOK

LEMMA LatestUnique ==
    ASSUME TypeOK, NEW P, NEW S,
           NEW i, IsLatest(ledger, i, P, S), NEW j, IsLatest(ledger, j, P, S)
    PROVE  i = j
BY LedgerDomain DEF IsLatest

\* The latest record of some phases stays the latest when another phase is touched,
LEMMA LatestTouched ==
    ASSUME NEW k, Touches(k), NEW P, NEW S, k \in DOMAIN ledger => ledger[k].phase \notin P,
           NEW i, IsLatest(ledger, i, P, S)
    PROVE  IsLatest(ledger', i, P, S) /\ ledger'[i] = ledger[i]
BY DEF Touches, IsLatest

\* and when the record that is added is not one of those looked for.
LEMMA LatestGrown ==
    ASSUME TypeOK, Grows, NEW P, NEW S,
           ledger'[Len(ledger) + 1].phase \notin P \/ "STARTED" \notin S,
           NEW i, IsLatest(ledger, i, P, S)
    PROVE  IsLatest(ledger', i, P, S) /\ ledger'[i] = ledger[i]
BY LedgerDomain DEF Grows, IsLatest

LEMMA StageTouches ==
    ASSUME BaseInv, NEW c \in Controllers, Stage(c) \/ CompleteAttempt(c)
    PROVE  Touches(att[c]) /\ att' = att
BY StageEffect, CompleteEffect DEF Touches, Current

LEMMA StartGrows ==
    ASSUME BaseInv, NEW c \in Controllers, StartAttempt(c)
    PROVE  Grows
BY StartEffect DEF Grows

\* The other steps leave the log alone.
LEMMA LogStays ==
    ASSUME BaseInv, NEW c \in Controllers,
           \/ OutsideStages(c) \/ ResumeAccepted(c) \/ ImmediateTransition(c)
           \/ SaveTransition(c) \/ Edit
    PROVE  UNCHANGED ledger
BY OutsideEffect, AcceptedEffect, ImmediateEffect, SaveEffect DEF Edit

-----------------------------------------------------------------------------
(* The premise *)

\* No stop is recorded against the run, no inspection failed when an attempt was
\* completed and nobody edited the repository: the premise of the property.
Clean ==
    /\ edits = 0
    /\ \A i \in DOMAIN ledger :
          /\ ledger[i].status \notin {"FAILED", "HUMAN_REQUIRED"}
          /\ ledger[i].status = "COMPLETED" => ledger[i].after # NoFingerprint

\* Records are amended only until they have an outcome, so that what is clean now
\* was clean before.
LEMMA CleanBefore ==
    ASSUME BaseInv, EvidenceInv, [Next]_vars, Clean'
    PROVE  Clean
<1>0. TypeOK /\ edits \in Nat
  BY DEF BaseInv, TypeOK
<1>1. ASSUME NEW c \in Controllers,
             OutsideStages(c) \/ ResumeAccepted(c) \/ ImmediateTransition(c) \/ SaveTransition(c)
      PROVE  Clean
  BY <1>1, OutsideEffect, AcceptedEffect, ImmediateEffect, SaveEffect DEF Clean
<1>2. ASSUME NEW c \in Controllers, StartAttempt(c) PROVE Clean
  <2>1. UNCHANGED edits /\ Grows
    BY <1>2, StartEffect, StartGrows
  <2> QED
    BY <1>0, <2>1, LedgerDomain DEF Clean, Grows
<1>3. ASSUME NEW c \in Controllers, Stage(c) \/ CompleteAttempt(c) PROVE Clean
  <2>1. att[c] \in DOMAIN ledger /\ UNCHANGED edits /\ ledger[att[c]].status = "STARTED"
    BY <1>3, StageEffect, CompleteEffect DEF EvidenceInv, Current
  <2>2. Touches(att[c])
    BY <1>3, StageTouches
  <2> QED
    BY <2>1, <2>2 DEF Clean, Touches
<1>4. ~ Edit
  BY <1>0 DEF Edit, Clean
<1>5. UNCHANGED vars => Clean
  BY DEF vars, Clean
<1> QED
  BY <1>1, <1>2, <1>3, <1>4, <1>5, NextCases

-----------------------------------------------------------------------------
(* Agents were started *)

\* c's stage, other than reporting, has decided that its attempt is COMPLETED.
Done(c) ==
    /\ pc[c] \in {"finish", "complete", "save"}
    /\ Current(c).phase # "REPORTING"
    /\ decision[c].outcome \in {"COMPLETED", "CORRECTION_REQUIRED"}

\* Phases that run an agent.
AgentPhases == WritablePhases \cup {"REVIEWING"}

\* No attempt of an agent's completes unless the agent was started.
StartedOf(c) ==
    Current(c).phase \in AgentPhases =>
       /\ pc[c] = "executing" => Current(c).started
       /\ Done(c) /\ pc[c] # "save" => Current(c).started

StartedInv == AgentTasksStarted(ledger) /\ \A c \in Controllers : StartedOf(c)

LEMMA InitStarted == Init => StartedInv
BY DEF Init, StartedInv, AgentTasksStarted, StartedOf, Done

LEMMA AloneStarted ==
    ASSUME NEW c \in Controllers, Alone(c)
    PROVE  \A d \in Controllers \ {c} : StartedOf(d)'
BY DEF Alone, StartedOf, Done, StagePoints

\* An invocation starts its agent; a stage that gives up before it does not complete.
LEMMA StageStarts ==
    ASSUME BaseInv, StartedInv, NEW c \in Controllers, Stage(c)
    PROVE  StartedOf(c)'
<1>0. Current(c)'.phase = Current(c).phase
  BY StageEffect
<1>1. CASE BeginVerification(c) \/ PreparationRaises(c) \/ RunVerification(c)
  BY <1>0, <1>1, BeginVerificationEffect, PreparationRaisesEffect, RunVerificationEffect
     DEF StartedOf, AgentPhases, WritablePhases
<1>2. CASE BeginReview(c)
  BY <1>2, BeginReviewEffect DEF StartedOf, Done
<1>3. CASE RunReview(c)
  BY <1>0, <1>3, RunReviewEffect DEF StartedOf, StartedInv, Keeps, AgentPhases
<1>4. CASE BeginWritable(c)
  BY <1>4, BeginWritableEffect DEF StartedOf, Done
<1>5. CASE RunWritable(c)
  BY <1>0, <1>5, RunWritableEffect DEF StartedOf, StartedInv, Keeps, AgentPhases
<1>6. CASE Finish(c)
  <2>1. /\ pc[c] = "finish" /\ pc'[c] = "complete" /\ Current(c).phase # "REPORTING"
        /\ Current(c)'.started = Current(c).started
        /\ decision'[c].outcome \in {decision[c].outcome, "HUMAN_REQUIRED"}
    BY <1>6, FinishEffect DEF Keeps, AllFields
  <2> QED
    BY <1>0, <2>1 DEF StartedOf, StartedInv, Done
<1>7. CASE BeginHandoff(c) \/ CapturePatch(c) \/ RecheckHandoff(c)
  BY <1>0, <1>7, HandoffEffect DEF StartedOf, AgentPhases, WritablePhases
<1> QED
  BY <1>1, <1>2, <1>3, <1>4, <1>5, <1>6, <1>7 DEF Stage

LEMMA NextStarted == BaseInv /\ EvidenceInv /\ StartedInv /\ [Next]_vars => StartedInv'
<1> SUFFICES ASSUME BaseInv, EvidenceInv, StartedInv, [Next]_vars PROVE StartedInv'
  OBVIOUS
<1>0. TypeOK
  BY DEF BaseInv
<1>1. ASSUME NEW c \in Controllers, OutsideStages(c) PROVE StartedInv'
  <2>1. UNCHANGED ledger
    BY <1>1, OutsideEffect
  <2>2. ASSUME NEW d \in Controllers PROVE StartedOf(d)'
    <3>1. CASE pc'[d] \notin StagePoints
      BY <3>1 DEF StartedOf, Done, StagePoints
    <3>2. CASE pc'[d] \in StagePoints
      BY <1>1, <2>1, <3>2, OutsideEffect DEF StartedInv, StartedOf, Done, Current
    <3> QED
      BY <3>1, <3>2
  <2> QED
    BY <2>1, <2>2 DEF StartedInv, AgentTasksStarted
<1>2. ASSUME NEW c \in Controllers, ResumeAccepted(c) \/ ImmediateTransition(c) \/ SaveTransition(c)
      PROVE  StartedInv'
  <2>1. UNCHANGED <<ledger, att>> /\ Alone(c) /\ pc'[c] \in {"loop", "publish", "complete"}
        /\ (pc'[c] = "complete" => Current(c).phase = "REPORTING")
    BY <1>2, AcceptedEffect, ImmediateEffect, SaveEffect
  <2>2. StartedOf(c)'
    BY <2>1 DEF StartedOf, Done, Current
  <2> QED
    BY <2>1, <2>2, AloneStarted DEF StartedInv, AgentTasksStarted
<1>3. ASSUME NEW c \in Controllers, StartAttempt(c) PROVE StartedInv'
  <2>1. Alone(c) /\ pc'[c] = "begin" /\ Grows
    BY <1>3, StartEffect, StartGrows
  <2>2. StartedOf(c)'
    BY <2>1 DEF StartedOf, Done
  <2>3. AgentTasksStarted(ledger')
    BY <1>0, <2>1, LedgerDomain DEF Grows, StartedInv, AgentTasksStarted
  <2> QED
    BY <2>1, <2>2, <2>3, AloneStarted DEF StartedInv, AgentTasksStarted
<1>4. ASSUME NEW c \in Controllers, Stage(c) PROVE StartedInv'
  <2>1. /\ Alone(c) /\ att[c] \in DOMAIN ledger /\ Touches(att[c])
        /\ ledger'[att[c]].status = ledger[att[c]].status
        /\ ledger[att[c]].status = "STARTED"
    BY <1>4, StageEffect, StageTouches DEF EvidenceInv, Current
  <2>2. AgentTasksStarted(ledger')
    BY <2>1 DEF Touches, StartedInv, AgentTasksStarted
  <2> QED
    BY <1>4, <2>1, <2>2, StageStarts, AloneStarted DEF StartedInv, AgentTasksStarted
<1>5. ASSUME NEW c \in Controllers, CompleteAttempt(c) PROVE StartedInv'
  <2>1. /\ pc[c] = "complete" /\ Alone(c) /\ att[c] \in DOMAIN ledger /\ Touches(att[c])
        /\ Current(c)'.started = Current(c).started
        /\ Current(c)'.status = StatusOf(decision[c].outcome)
        /\ UNCHANGED att /\ pc'[c] \in {"save", "publish"}
    BY <1>5, CompleteEffect, StageTouches
  <2>2. StartedOf(c)'
    BY <2>1 DEF StartedOf, Done
  <2>3. /\ Current(c).phase \in AgentPhases /\ Current(c)'.status = "COMPLETED"
        => Current(c).started
    <3>1. decision[c].outcome \in StageOutcome
      BY <1>0 DEF TypeOK, Decision
    <3> QED
      BY <2>1, <3>1 DEF StartedInv, StartedOf, Done, StatusOf, StageOutcome, AgentPhases,
                        WritablePhases
  <2>4. AgentTasksStarted(ledger')
    BY <2>1, <2>3 DEF Touches, StartedInv, AgentTasksStarted, Current, AgentPhases
  <2> QED
    BY <2>1, <2>2, <2>4, AloneStarted DEF StartedInv, AgentTasksStarted
<1>6. CASE Edit \/ UNCHANGED vars
  BY <1>6 DEF Edit, vars, StartedInv, StartedOf, Done, AgentTasksStarted, Current
<1> QED
  BY <1>1, <1>2, <1>3, <1>4, <1>5, <1>6, NextCases

LEMMA StartedInvariant == Spec => []StartedInv
BY InitStarted, NextStarted, BaseInvariant, EvidenceInvariant, PTL DEF Spec

-----------------------------------------------------------------------------
(* Correction rounds *)

\* The correction round stays within the limit until the decision is saved.
RoundsOf(c) ==
    /\ \/ pc[c] \in {"finish", "complete"} /\ Current(c).phase # "REPORTING"
       \/ pc[c] = "save"
       => decision[c].correction <= MaxCorrectionRounds
    /\ pc[c] = "executing" /\ Current(c).phase = "CORRECTING" =>
          disk.correction < MaxCorrectionRounds

RoundsInv ==
    /\ disk.correction <= MaxCorrectionRounds
    /\ \A c \in Controllers : RoundsOf(c)

LEMMA AloneRounds ==
    ASSUME NEW c \in Controllers, Alone(c)
    PROVE  \A d \in Controllers \ {c} : RoundsOf(d)'
BY DEF Alone, RoundsOf, StagePoints

LEMMA InitRounds == Init => RoundsInv
BY RoundsAssumption DEF Init, RoundsInv, RoundsOf, NewRun

\* Only a correction that was started within the limit advances the round.
LEMMA StageRounds ==
    ASSUME BaseInv, SyncInv, RoundsInv, NEW c \in Controllers, Stage(c)
    PROVE  RoundsOf(c)'
<1>0. /\ TypeOK /\ Current(c)'.phase = Current(c).phase
      /\ pc[c] \in StagePoints /\ pc[c] # "complete" /\ UNCHANGED disk
  BY StageEffect DEF BaseInv, StagePoints
<1>1. mem[c] = disk /\ mem[c].correction <= MaxCorrectionRounds
  BY <1>0 DEF SyncInv, RoundsInv
<1>2. CASE BeginVerification(c) \/ PreparationRaises(c) \/ RunVerification(c)
  BY <1>0, <1>1, <1>2, BeginVerificationEffect, PreparationRaisesEffect, RunVerificationEffect
     DEF RoundsOf
<1>3. CASE BeginReview(c) \/ RunReview(c)
  BY <1>0, <1>1, <1>3, BeginReviewEffect, RunReviewEffect DEF RoundsOf
<1>4. CASE BeginWritable(c)
  BY <1>0, <1>1, <1>4, BeginWritableEffect DEF RoundsOf, CorrectionMayStart
<1>5. CASE RunWritable(c)
  <2>1. /\ pc[c] = "executing" /\ pc'[c] = "complete"
        /\ Current(c).phase \in {"IMPLEMENTING", "CORRECTING"}
        /\ decision'[c].correction \in CorrectionRounds(c, decision'[c].outcome)
    BY <1>5, RunWritableEffect DEF WritablePhases
  <2>2. \/ decision'[c].correction = mem[c].correction
        \/ Current(c).phase = "CORRECTING" /\ decision'[c].correction = disk.correction + 1
    BY <2>1 DEF CorrectionRounds, Attempt, Current
  <2>3. decision'[c].correction <= MaxCorrectionRounds
    BY <1>0, <1>1, <2>1, <2>2, RoundsAssumption DEF RoundsInv, RoundsOf, TypeOK, RunRecord
  <2> QED
    BY <2>1, <2>3 DEF RoundsOf
<1>6. CASE Finish(c)
  BY <1>0, <1>6, FinishEffect DEF RoundsInv, RoundsOf
<1>7. CASE BeginHandoff(c) \/ CapturePatch(c) \/ RecheckHandoff(c)
  BY <1>0, <1>1, <1>7, HandoffEffect DEF RoundsOf
<1> QED
  BY <1>2, <1>3, <1>4, <1>5, <1>6, <1>7 DEF Stage

LEMMA NextRounds == BaseInv /\ SyncInv /\ RoundsInv /\ FreshResumes /\ [Next]_vars => RoundsInv'
<1> SUFFICES ASSUME BaseInv, SyncInv, RoundsInv, FreshResumes, [Next]_vars PROVE RoundsInv'
  OBVIOUS
<1>1. ASSUME NEW c \in Controllers, OutsideStages(c) PROVE RoundsInv'
  <2>1. UNCHANGED ledger /\ (UNCHANGED disk \/ disk'.correction = disk.correction)
    BY <1>1, OutsideEffect
  <2>2. ASSUME NEW d \in Controllers PROVE RoundsOf(d)'
    <3>1. CASE pc'[d] \notin StagePoints
      BY <3>1 DEF RoundsOf, StagePoints
    <3>2. CASE pc'[d] \in StagePoints
      BY <1>1, <2>1, <3>2, OutsideEffect DEF RoundsInv, RoundsOf, Current
    <3> QED
      BY <3>1, <3>2
  <2> QED
    BY <2>1, <2>2 DEF RoundsInv
<1>2. ASSUME NEW c \in Controllers, ResumeAccepted(c) \/ StartAttempt(c) PROVE RoundsInv'
  <2>1. UNCHANGED disk /\ Alone(c) /\ pc'[c] \in {"loop", "begin"}
    BY <1>2, AcceptedEffect, StartEffect
  <2>2. RoundsOf(c)'
    BY <2>1 DEF RoundsOf
  <2> QED
    BY <2>1, <2>2, AloneRounds DEF RoundsInv
<1>3. ASSUME NEW c \in Controllers, ImmediateTransition(c) PROVE RoundsInv'
  <2>1. disk'.correction = disk.correction /\ Alone(c) /\ pc'[c] \in {"loop", "publish"}
    BY <1>3, ImmediateEffect DEF SyncInv
  <2>2. RoundsOf(c)'
    BY <2>1 DEF RoundsOf
  <2> QED
    BY <2>1, <2>2, AloneRounds DEF RoundsInv
<1>4. ASSUME NEW c \in Controllers, Stage(c) PROVE RoundsInv'
  BY <1>4, StageEffect, StageRounds, AloneRounds DEF RoundsInv
<1>5. ASSUME NEW c \in Controllers, CompleteAttempt(c) PROVE RoundsInv'
  <2>1. /\ pc[c] = "complete" /\ Alone(c) /\ UNCHANGED <<disk, decision>>
        /\ Current(c).phase # "REPORTING" => pc'[c] = "save"
        /\ Current(c).phase = "REPORTING" => pc'[c] = "publish"
    BY <1>5, CompleteEffect
  <2>2. RoundsOf(c)'
    BY <2>1 DEF RoundsInv, RoundsOf
  <2> QED
    BY <2>1, <2>2, AloneRounds DEF RoundsInv
<1>6. ASSUME NEW c \in Controllers, SaveTransition(c) PROVE RoundsInv'
  <2>1. /\ pc[c] = "save" /\ disk'.correction = decision[c].correction /\ Alone(c)
        /\ UNCHANGED <<ledger, att>> /\ pc'[c] \in {"complete", "publish", "loop"}
        /\ (pc'[c] = "complete" => Current(c).phase = "REPORTING")
    BY <1>6, SaveEffect DEF Decided
  <2>2. RoundsOf(c)'
    BY <2>1 DEF RoundsOf, Current
  <2>3. disk'.correction <= MaxCorrectionRounds
    BY <2>1 DEF RoundsInv, RoundsOf
  <2> QED
    BY <2>1, <2>2, <2>3, AloneRounds DEF RoundsInv
<1>7. CASE Edit \/ UNCHANGED vars
  BY <1>7 DEF Edit, vars, RoundsInv, RoundsOf, Current
<1> QED
  BY <1>1, <1>2, <1>3, <1>4, <1>5, <1>6, <1>7, NextCases

LEMMA RoundsInvariant == Spec /\ []FreshResumes => []RoundsInv
BY InitRounds, NextRounds, BaseInvariant, SyncInvariant, PTL DEF Spec

-----------------------------------------------------------------------------
(* Counting attempts *)

Selected(log, phase, statuses) ==
    { i \in DOMAIN log : log[i].phase = phase /\ log[i].status \in statuses }

LEMMA CountTyped ==
    ASSUME TypeOK, NEW phase, NEW statuses
    PROVE  /\ IsFiniteSet(Selected(ledger, phase, statuses))
           /\ CountPhase(ledger, phase, statuses) = Cardinality(Selected(ledger, phase, statuses))
           /\ CountPhase(ledger, phase, statuses) \in Nat
<1>1. IsFiniteSet(1 .. Len(ledger)) /\ Selected(ledger, phase, statuses) \subseteq 1 .. Len(ledger)
  BY LedgerDomain, FS_Interval DEF Selected
<1>2. IsFiniteSet(Selected(ledger, phase, statuses))
  BY <1>1, FS_Subset
<1> QED
  BY <1>2, FS_CardinalityType DEF CountPhase, Selected

LEMMA CountSame ==
    ASSUME NEW phase, NEW statuses,
           Selected(ledger', phase, statuses) = Selected(ledger, phase, statuses)
    PROVE  CountPhase(ledger', phase, statuses) = CountPhase(ledger, phase, statuses)
BY DEF CountPhase, Selected

LEMMA CountMore ==
    ASSUME TypeOK, NEW phase, NEW statuses,
           NEW k, k \notin Selected(ledger, phase, statuses),
           Selected(ledger', phase, statuses) = Selected(ledger, phase, statuses) \cup {k}
    PROVE  CountPhase(ledger', phase, statuses) = CountPhase(ledger, phase, statuses) + 1
<1>1. Cardinality(Selected(ledger, phase, statuses) \cup {k})
         = Cardinality(Selected(ledger, phase, statuses)) + 1
  BY CountTyped, FS_AddElement
<1> QED
  BY <1>1, CountTyped DEF CountPhase, Selected

CorrectionCount == CountPhase(ledger, "CORRECTING", AttemptStatus)
ReviewCount     == CountPhase(ledger, "REVIEWING", {"COMPLETED"})

\* A stage changes neither count,
LEMMA StageCounts ==
    ASSUME BaseInv, NEW c \in Controllers, Stage(c)
    PROVE  CorrectionCount' = CorrectionCount /\ ReviewCount' = ReviewCount
<1>1. /\ Touches(att[c]) /\ att[c] \in DOMAIN ledger
      /\ ledger'[att[c]].status = ledger[att[c]].status
  BY StageEffect, StageTouches DEF Current
<1>2. ASSUME NEW phase, NEW statuses
      PROVE  Selected(ledger', phase, statuses) = Selected(ledger, phase, statuses)
  BY <1>1 DEF Selected, Touches
<1> QED
  BY <1>2, CountSame DEF CorrectionCount, ReviewCount

\* an attempt that starts counts if it is a correction,
LEMMA StartCounts ==
    ASSUME BaseInv, NEW c \in Controllers, StartAttempt(c)
    PROVE  /\ CorrectionCount' = IF mem[c].state = "CORRECTING"
                                 THEN CorrectionCount + 1 ELSE CorrectionCount
           /\ ReviewCount' = ReviewCount
<1>0. TypeOK /\ Len(ledger) \in Nat /\ DOMAIN ledger = 1 .. Len(ledger)
  BY LedgerDomain DEF BaseInv
<1>1. /\ DOMAIN ledger' = DOMAIN ledger \cup {Len(ledger) + 1}
      /\ Len(ledger) + 1 \notin DOMAIN ledger
      /\ \A i \in DOMAIN ledger : ledger'[i] = ledger[i]
      /\ ledger'[Len(ledger) + 1].phase = mem[c].state
      /\ ledger'[Len(ledger) + 1].status = "STARTED"
  <2>1. /\ DOMAIN ledger' = 1 .. Len(ledger) + 1
        /\ \A i \in DOMAIN ledger : ledger'[i] = ledger[i]
        /\ ledger'[Len(ledger) + 1].phase = mem[c].state
        /\ ledger'[Len(ledger) + 1].status = "STARTED"
    BY StartEffect
  <2> QED
    BY <1>0, <2>1
<1>2. Selected(ledger', "REVIEWING", {"COMPLETED"}) = Selected(ledger, "REVIEWING", {"COMPLETED"})
  BY <1>1 DEF Selected
<1>3. CASE mem[c].state = "CORRECTING"
  <2>1. /\ Selected(ledger', "CORRECTING", AttemptStatus)
            = Selected(ledger, "CORRECTING", AttemptStatus) \cup {Len(ledger) + 1}
        /\ Len(ledger) + 1 \notin Selected(ledger, "CORRECTING", AttemptStatus)
    BY <1>1, <1>3 DEF Selected, AttemptStatus
  <2> QED
    BY <1>0, <1>2, <1>3, <2>1, CountMore, CountSame DEF CorrectionCount, ReviewCount
<1>4. CASE mem[c].state # "CORRECTING"
  <2>1. Selected(ledger', "CORRECTING", AttemptStatus) = Selected(ledger, "CORRECTING", AttemptStatus)
    BY <1>1, <1>4 DEF Selected
  <2> QED
    BY <1>2, <1>4, <2>1, CountSame DEF CorrectionCount, ReviewCount
<1> QED
  BY <1>3, <1>4

\* and one that ends counts if it is a completed review.
LEMMA CompleteCounts ==
    ASSUME BaseInv, NEW c \in Controllers, CompleteAttempt(c)
    PROVE  /\ CorrectionCount' = CorrectionCount
           /\ ReviewCount' = IF /\ Current(c).phase = "REVIEWING"
                                /\ StatusOf(decision[c].outcome) = "COMPLETED"
                             THEN ReviewCount + 1 ELSE ReviewCount
<1>0. TypeOK
  BY DEF BaseInv
<1>1. /\ Touches(att[c]) /\ att[c] \in DOMAIN ledger
      /\ ledger[att[c]].status = "STARTED"
      /\ ledger'[att[c]].status = StatusOf(decision[c].outcome)
      /\ decision[c].outcome \in StageOutcome
  BY <1>0, CompleteEffect, StageTouches DEF Current, TypeOK, Decision
<1>2. Selected(ledger', "CORRECTING", AttemptStatus) = Selected(ledger, "CORRECTING", AttemptStatus)
  BY <1>1 DEF Selected, Touches, StatusOf, StageOutcome, AttemptStatus
<1>3. CASE Current(c).phase = "REVIEWING" /\ StatusOf(decision[c].outcome) = "COMPLETED"
  <2>1. /\ Selected(ledger', "REVIEWING", {"COMPLETED"})
            = Selected(ledger, "REVIEWING", {"COMPLETED"}) \cup {att[c]}
        /\ att[c] \notin Selected(ledger, "REVIEWING", {"COMPLETED"})
    BY <1>1, <1>3 DEF Selected, Touches, Current
  <2> QED
    BY <1>0, <1>2, <1>3, <2>1, CountMore, CountSame DEF CorrectionCount, ReviewCount
<1>4. CASE ~ (Current(c).phase = "REVIEWING" /\ StatusOf(decision[c].outcome) = "COMPLETED")
  <2>1. Selected(ledger', "REVIEWING", {"COMPLETED"}) = Selected(ledger, "REVIEWING", {"COMPLETED"})
    BY <1>1, <1>4 DEF Selected, Touches, Current
  <2> QED
    BY <1>2, <1>4, <2>1, CountSame DEF CorrectionCount, ReviewCount
<1> QED
  BY <1>3, <1>4

\* 1 for the stage that advances the correction round, or the review round, when it
\* completes.
CorrectionAdvance(c) == IF Current(c).phase = "CORRECTING" THEN 1 ELSE 0
ReviewAdvance(c)     == IF Current(c).phase = "REVIEWING" THEN 1 ELSE 0

\* The rounds a controller is about to save fit the attempts it leaves.
CountOf(c) ==
    /\ pc[c] = "loop" /\ mem[c].state = "CORRECTING" => CorrectionCount = disk.correction
    /\ pc[c] \in StagePoints /\ Current(c).phase = "CORRECTING" =>
          CorrectionCount = disk.correction + 1
    /\ Done(c) =>
          /\ decision[c].correction = disk.correction + CorrectionAdvance(c)
          /\ decision[c].review = disk.review + ReviewAdvance(c)
          /\ pc[c] = "save" => ReviewCount >= decision[c].review

\* The rounds of a run record are those of its attempts, except in the state that
\* is about to add one, which no resume enters.
CountInv ==
    Clean =>
       /\ disk.state \notin {"CORRECTING"} \cup TerminalStates =>
             CorrectionCount = disk.correction
       /\ disk.state \notin TerminalStates => ReviewCount >= disk.review
       /\ disk.state = "REPORTING" => disk.review >= 1
       /\ \A c \in Controllers : CountOf(c)

LEMMA InitCount == Init => CountInv
<1> SUFFICES ASSUME Init PROVE CountInv
  OBVIOUS
<1>1. CorrectionCount = 0 /\ ReviewCount = 0
  <2>1. \A phase, statuses : Selected(ledger, phase, statuses) = {}
    BY DEF Init, Selected
  <2> QED
    BY <2>1, FS_EmptySet DEF CorrectionCount, ReviewCount, CountPhase, Selected
<1> QED
  BY <1>1 DEF Init, CountInv, CountOf, Done, NewRun, StagePoints

LEMMA AloneCounts ==
    ASSUME NEW c \in Controllers, Alone(c)
    PROVE  \A d \in Controllers \ {c} : CountOf(d)'
BY DEF Alone, CountOf, Done, StagePoints

\* A stage that has something to complete has decided on the review round.
LEMMA StageReviewRound ==
    ASSUME BaseInv, NEW c \in Controllers, Stage(c), Current(c).phase # "REPORTING",
           pc'[c] \in {"finish", "complete"}
    PROVE  decision'[c].review = mem[c].review + ReviewAdvance(c) \/ Finish(c)
<1>1. \/ \E outcome, after, correction : Decide(c, outcome, after, correction)
      \/ Finish(c)
  <2> USE DEF BaseInv, TypeOK, Goto
  <2>1. CASE BeginVerification(c) \/ BeginReview(c) \/ BeginWritable(c)
    BY <2>1 DEF BeginVerification, BeginReview, BeginWritable, StopBeforeStart
  <2>2. CASE PreparationRaises(c) \/ RunVerification(c) \/ RunReview(c) \/ RunWritable(c)
    BY <2>2 DEF PreparationRaises, RunVerification, RunReview, RunWritable
  <2>3. ~ (BeginHandoff(c) \/ CapturePatch(c) \/ RecheckHandoff(c))
    BY HandoffEffect
  <2> QED
    BY <2>1, <2>2, <2>3 DEF Stage
<1> QED
  BY <1>1, DecidedCurrent DEF BaseInv, TypeOK, RunRecord, ReviewAdvance

\* A stage that completes advances the rounds as its phase does.
LEMMA StageAdvances ==
    ASSUME BaseInv, SyncInv, NEW c \in Controllers, CountOf(c), Stage(c), Done(c)'
    PROVE  /\ pc'[c] \in {"finish", "complete"} /\ Current(c).phase # "REPORTING"
           /\ decision'[c].correction = disk.correction + CorrectionAdvance(c)
           /\ decision'[c].review = disk.review + ReviewAdvance(c)
<1>0. /\ TypeOK /\ Current(c)'.phase = Current(c).phase
      /\ pc[c] \in StagePoints /\ pc[c] # "complete" /\ mem[c].state = Current(c).phase
      /\ pc'[c] = "save" => Current(c).phase = "REPORTING"
  BY StageEffect DEF BaseInv, StagePoints
<1>1. /\ Current(c).phase # "REPORTING" /\ pc'[c] \in {"finish", "complete"}
      /\ decision'[c].outcome \in {"COMPLETED", "CORRECTION_REQUIRED"}
  BY <1>0 DEF Done
<1>2. mem[c] = disk /\ disk.correction \in Nat /\ disk.review \in Nat
  BY <1>0 DEF SyncInv, TypeOK, RunRecord
<1>3. CASE Finish(c)
  <2>1. /\ pc[c] = "finish" /\ decision'[c].correction = decision[c].correction
        /\ decision'[c].review = decision[c].review
        /\ decision'[c].outcome \in {decision[c].outcome, "HUMAN_REQUIRED"}
    BY <1>3, FinishEffect
  <2> QED
    BY <1>1, <2>1 DEF CountOf, Done
<1>4. CASE ~ Finish(c)
  <2>1. decision'[c].review = disk.review + ReviewAdvance(c)
    BY <1>1, <1>2, <1>4, StageReviewRound
  <2>2. decision'[c].correction = disk.correction + CorrectionAdvance(c)
    <3>1. CASE BeginVerification(c) \/ PreparationRaises(c) \/ RunVerification(c)
      BY <1>1, <1>2, <3>1, BeginVerificationEffect, PreparationRaisesEffect,
         RunVerificationEffect DEF CorrectionAdvance
    <3>2. CASE BeginReview(c) \/ RunReview(c)
      <4>1. decision'[c].correction = mem[c].correction /\ Current(c).phase = "REVIEWING"
        BY <1>1, <3>2, BeginReviewEffect, RunReviewEffect
      <4> QED
        BY <1>2, <4>1 DEF CorrectionAdvance
    <3>3. CASE BeginWritable(c)
      BY <1>1, <3>3, BeginWritableEffect
    <3>4. CASE RunWritable(c)
      <4>1. /\ Current(c).phase \in {"IMPLEMENTING", "CORRECTING"}
            /\ decision'[c].correction \in CorrectionRounds(c, decision'[c].outcome)
            /\ decision'[c].outcome = "COMPLETED"
        BY <1>1, <3>4, RunWritableEffect DEF WritablePhases, WritableOutcomes
      <4> QED
        BY <1>2, <4>1 DEF CorrectionRounds, CorrectionAdvance, Attempt, Current
    <3>5. ~ (BeginHandoff(c) \/ CapturePatch(c) \/ RecheckHandoff(c))
      BY <1>1, HandoffEffect
    <3> QED
      BY <1>4, <3>1, <3>2, <3>3, <3>4, <3>5 DEF Stage
  <2> QED
    BY <1>1, <2>1, <2>2
<1> QED
  BY <1>3, <1>4

LEMMA NextCount ==
    BaseInv /\ SyncInv /\ EvidenceInv /\ CountInv /\ FreshResumes /\ [Next]_vars => CountInv'
<1> SUFFICES ASSUME BaseInv, SyncInv, EvidenceInv, CountInv, FreshResumes, [Next]_vars, Clean'
             PROVE  CountInv'
  BY DEF CountInv
<1>0. /\ TypeOK /\ disk \in RunRecord /\ disk.correction \in Nat /\ disk.review \in Nat
      /\ CorrectionCount \in Nat /\ ReviewCount \in Nat
  BY CountTyped DEF BaseInv, TypeOK, RunRecord, CorrectionCount, ReviewCount
<1>c. /\ disk.state \notin {"CORRECTING"} \cup TerminalStates =>
            CorrectionCount = disk.correction
      /\ disk.state \notin TerminalStates => ReviewCount >= disk.review
      /\ disk.state = "REPORTING" => disk.review >= 1
      /\ \A c \in Controllers : CountOf(c)
  BY CleanBefore DEF CountInv
<1>u. ASSUME UNCHANGED ledger
      PROVE  CorrectionCount' = CorrectionCount /\ ReviewCount' = ReviewCount
  BY <1>u DEF CorrectionCount, ReviewCount
<1>1. ASSUME NEW c \in Controllers, OutsideStages(c) PROVE CountInv'
  <2>1. UNCHANGED ledger /\ (UNCHANGED disk \/ disk'.state \in {"HUMAN_REQUIRED", "FAILED"})
    BY <1>1, OutsideEffect
  <2>2. ASSUME NEW d \in Controllers PROVE CountOf(d)'
    <3>1. CASE pc'[d] \notin StagePoints \cup {"loop"}
      BY <3>1 DEF CountOf, Done, StagePoints
    <3>2. CASE pc'[d] \in StagePoints \cup {"loop"}
      <4>1. /\ pc'[d] = pc[d] /\ mem'[d] = mem[d] /\ Current(d)' = Current(d)
            /\ decision'[d] = decision[d] /\ UNCHANGED disk
        BY <1>1, <2>1, <3>2, OutsideEffect DEF Current
      <4> QED
        BY <1>c, <1>u, <2>1, <4>1 DEF CountOf, Done, CorrectionAdvance, ReviewAdvance
    <3> QED
      BY <3>1, <3>2
  <2> QED
    BY <1>c, <1>u, <2>1, <2>2 DEF CountInv, TerminalStates
<1>2. ASSUME NEW c \in Controllers, ResumeAccepted(c) PROVE CountInv'
  <2>1. /\ UNCHANGED <<ledger, disk, mem>> /\ pc'[c] = "loop" /\ Alone(c)
        /\ mem[c].state \notin WritablePhases
    BY <1>2, AcceptedEffect DEF Resumable
  <2>2. CountOf(c)'
    BY <2>1 DEF CountOf, Done, StagePoints, WritablePhases
  <2> QED
    BY <1>c, <1>u, <2>1, <2>2, AloneCounts DEF CountInv
<1>3. ASSUME NEW c \in Controllers, ImmediateTransition(c) PROVE CountInv'
  <2>1. /\ UNCHANGED ledger /\ mem[c] = disk /\ mem'[c] = disk' /\ Alone(c)
        /\ disk.state \in {"PREPARED", "CORRECTION_PENDING"}
        /\ disk'.correction = disk.correction /\ disk'.review = disk.review
        /\ disk'.state = ImmediateTarget(mem[c]) /\ pc'[c] \in {"publish", "loop"}
    BY <1>3, ImmediateEffect DEF SyncInv
  <2>2. CorrectionCount' = disk'.correction /\ ReviewCount' >= disk'.review
    BY <1>c, <1>u, <2>1 DEF TerminalStates
  <2>3. CountOf(c)' /\ disk'.state # "REPORTING"
    BY <2>1, <2>2 DEF CountOf, Done, StagePoints, ImmediateTarget
  <2> QED
    BY <2>1, <2>2, <2>3, AloneCounts DEF CountInv
<1>4. ASSUME NEW c \in Controllers, StartAttempt(c) PROVE CountInv'
  <2>1. /\ pc[c] = "loop" /\ pc'[c] = "begin" /\ UNCHANGED disk /\ mem[c] = disk /\ Alone(c)
        /\ mem[c].state \in AttemptPhase /\ Current(c)'.phase = mem[c].state
    BY <1>4, StartEffect DEF SyncInv, Current
  <2>2. /\ CorrectionCount' = IF disk.state = "CORRECTING"
                              THEN CorrectionCount + 1 ELSE CorrectionCount
        /\ ReviewCount' = ReviewCount
    BY <1>4, <2>1, StartCounts
  <2>3. CountOf(c)'
    BY <1>c, <2>1, <2>2 DEF CountOf, Done
  <2> QED
    BY <1>c, <2>1, <2>2, <2>3, AloneCounts DEF CountInv
<1>5. ASSUME NEW c \in Controllers, Stage(c) PROVE CountInv'
  <2>1. /\ pc[c] \in StagePoints /\ pc'[c] \in StagePoints
        /\ Current(c)'.phase = Current(c).phase /\ UNCHANGED disk /\ Alone(c)
    BY <1>5, StageEffect DEF StagePoints
  <2>2. CorrectionCount' = CorrectionCount /\ ReviewCount' = ReviewCount
    BY <1>5, StageCounts
  <2>3. Done(c)' => /\ pc'[c] \in {"finish", "complete"}
                    /\ decision'[c].correction = disk.correction + CorrectionAdvance(c)
                    /\ decision'[c].review = disk.review + ReviewAdvance(c)
    BY <1>5, <1>c, StageAdvances
  <2>4. CountOf(c)'
    BY <1>c, <2>1, <2>2, <2>3 DEF CountOf, CorrectionAdvance, ReviewAdvance, StagePoints
  <2> QED
    BY <1>c, <2>1, <2>2, <2>4, AloneCounts DEF CountInv
<1>6. ASSUME NEW c \in Controllers, CompleteAttempt(c) PROVE CountInv'
  <2>1. /\ pc[c] = "complete" /\ Current(c)'.phase = Current(c).phase
        /\ UNCHANGED <<disk, decision>> /\ Alone(c) /\ att[c] \in DOMAIN ledger
        /\ Current(c).phase # "REPORTING" => pc'[c] = "save"
        /\ Current(c).phase = "REPORTING" => pc'[c] = "publish"
    BY <1>6, CompleteEffect
  <2>2. /\ CorrectionCount' = CorrectionCount
        /\ ReviewCount' = IF /\ Current(c).phase = "REVIEWING"
                             /\ StatusOf(decision[c].outcome) = "COMPLETED"
                          THEN ReviewCount + 1 ELSE ReviewCount
    BY <1>6, CompleteCounts
  <2>3. Current(c).phase # "REPORTING" => disk.state \notin TerminalStates
    <3>1. Current(c).phase # "REPORTING" => disk.state = Current(c).phase
      BY <2>1 DEF SyncInv, BaseInv, FrameInv, StagePoints, Current
    <3>2. Current(c).phase \notin TerminalStates
      BY <1>0, <2>1, RecordsTyped DEF Current, AttemptRecord, AttemptPhase, WritablePhases,
                                      ReadOnlyPhases, TerminalStates
    <3> QED
      BY <3>1, <3>2
  <2>4. CountOf(c)'
    <3>1. CASE Current(c).phase = "REPORTING"
      BY <2>1, <3>1 DEF CountOf, Done, StagePoints
    <3>2. CASE Current(c).phase # "REPORTING"
      <4>1. pc'[c] = "save" /\ (Done(c)' => Done(c)) /\ ReviewCount >= disk.review
        BY <1>c, <2>1, <2>3, <3>2 DEF Done
      <4>2. Current(c).phase = "CORRECTING" => CorrectionCount' = disk'.correction + 1
        BY <1>c, <2>1, <2>2 DEF CountOf, StagePoints
      <4>3. ASSUME Done(c)'
            PROVE  /\ decision'[c].correction = disk'.correction + CorrectionAdvance(c)'
                   /\ decision'[c].review = disk'.review + ReviewAdvance(c)'
                   /\ ReviewCount' >= decision'[c].review
        <5>1. /\ decision[c].correction = disk.correction + CorrectionAdvance(c)
              /\ decision[c].review = disk.review + ReviewAdvance(c)
              /\ StatusOf(decision[c].outcome) = "COMPLETED"
          BY <1>c, <4>1, <4>3 DEF CountOf, Done, StatusOf
        <5>2. ReviewCount' >= decision[c].review
          BY <1>0, <2>2, <4>1, <5>1 DEF ReviewAdvance
        <5> QED
          BY <2>1, <5>1, <5>2 DEF CorrectionAdvance, ReviewAdvance
      <4> QED
        BY <2>1, <4>1, <4>2, <4>3 DEF CountOf
    <3> QED
      BY <3>1, <3>2
  <2>5. ReviewCount' >= ReviewCount
    BY <1>0, <2>2
  <2> QED
    BY <1>0, <1>c, <2>1, <2>2, <2>4, <2>5, AloneCounts DEF CountInv
<1>7. ASSUME NEW c \in Controllers, SaveTransition(c) PROVE CountInv'
  <2>1. /\ pc[c] = "save" /\ Alone(c) /\ UNCHANGED <<ledger, att, decision>>
        /\ mem[c] = disk /\ disk.state = Current(c).phase /\ disk.state \in AttemptPhase
        /\ LegalTransition(disk.state, disk'.state)
        /\ disk'.state = RequestedState(disk.state, decision[c].outcome)
        /\ disk'.correction = decision[c].correction /\ disk'.review = decision[c].review
        /\ pc'[c] \in {"complete", "loop", "publish"}
        /\ pc'[c] = "complete" => Current(c).phase = "REPORTING"
        /\ pc'[c] = "loop" => disk'.state \notin TerminalStates /\ mem'[c] = disk'
        /\ Current(c)' = Current(c)
    BY <1>7, SaveEffect DEF SyncInv, StagePoints, Decided, Current
  <2>2. CASE disk'.state \in TerminalStates
    <3>1. CountOf(c)'
      BY <2>1, <2>2 DEF CountOf, Done, StagePoints
    <3> QED
      BY <2>1, <2>2, <3>1, AloneCounts DEF CountInv, TerminalStates
  <2>3. CASE disk'.state \notin TerminalStates
    <3>1. disk.state # "REPORTING" /\ disk.state \notin TerminalStates
      BY <2>1, <2>3 DEF LegalTransition, ForwardTransitions, TerminalStates
    <3>2. Done(c)
      <4>1. decision[c].outcome \in StageOutcome
        BY <1>0 DEF TypeOK, Decision
      <4> QED
        BY <2>1, <2>3, <3>1, <4>1 DEF Done, StageOutcome, RequestedState, TerminalStates
    <3>3. /\ decision[c].correction = disk.correction + CorrectionAdvance(c)
          /\ decision[c].review = disk.review + ReviewAdvance(c)
          /\ ReviewCount >= decision[c].review
      BY <1>c, <2>1, <3>2 DEF CountOf
    <3>4. CorrectionCount = disk'.correction
      BY <1>0, <1>c, <2>1, <3>1, <3>3 DEF CountOf, CorrectionAdvance, StagePoints
    <3>5. disk'.state = "REPORTING" => disk.state = "REVIEWING"
      BY <2>1 DEF LegalTransition, ForwardTransitions
    <3>6. disk'.state # "CORRECTING"
      BY <2>1 DEF LegalTransition, ForwardTransitions, AttemptPhase, WritablePhases,
                  ReadOnlyPhases
    <3>7. disk'.state = "REPORTING" => disk'.review >= 1
      BY <1>0, <2>1, <3>3, <3>5 DEF ReviewAdvance
    <3>8. CountOf(c)'
      BY <2>1, <3>1, <3>6 DEF CountOf, Done, StagePoints
    <3> QED
      BY <1>u, <2>1, <3>3, <3>4, <3>7, <3>8, AloneCounts DEF CountInv
  <2> QED
    BY <2>2, <2>3
<1>8. ~ Edit
  BY <1>0 DEF Edit, Clean, TypeOK
<1>9. CASE UNCHANGED vars
  BY <1>c, <1>u, <1>9 DEF vars, CountInv, CountOf, Done, CorrectionAdvance, ReviewAdvance, Current
<1> QED
  BY <1>1, <1>2, <1>3, <1>4, <1>5, <1>6, <1>7, <1>8, <1>9, NextCases

LEMMA CountInvariant == Spec /\ []FreshResumes => []CountInv
BY InitCount, NextCount, BaseInvariant, SyncInvariant, EvidenceInvariant, PTL DEF Spec

-----------------------------------------------------------------------------
(* One source was written, verified and reviewed *)

\* The step leaves the records of phases P alone and adds none.
Spares(P) ==
    \/ UNCHANGED ledger
    \/ \E k \in DOMAIN ledger : Touches(k) /\ ledger[k].phase \notin P
    \/ Grows /\ ledger'[Len(ledger) + 1].phase \notin P

LEMMA LatestSpared ==
    ASSUME TypeOK, NEW P, NEW S, Spares(P), NEW i, IsLatest(ledger, i, P, S)
    PROVE  IsLatest(ledger', i, P, S) /\ ledger'[i] = ledger[i] /\ i \in DOMAIN ledger'
<1>1. i \in DOMAIN ledger
  BY DEF IsLatest
<1>2. CASE UNCHANGED ledger
  BY <1>1, <1>2
<1>3. CASE \E k \in DOMAIN ledger : Touches(k) /\ ledger[k].phase \notin P
  BY <1>1, <1>3, LatestTouched DEF Touches
<1>4. CASE Grows /\ ledger'[Len(ledger) + 1].phase \notin P
  <2>1. i \in DOMAIN ledger'
    BY <1>1, <1>4, LedgerDomain DEF Grows
  <2> QED
    BY <1>4, <2>1, LatestGrown
<1> QED
  BY <1>2, <1>3, <1>4 DEF Spares

SoundSources == Workspaces \ Unsafe

\* The latest write left s.
Wrote(s) == \E w \in DOMAIN ledger : LatestWritable(ledger, w) /\ ledger[w].after = s

LeftBy(i, s) == ledger[i].before = s /\ ledger[i].after = s

\* v is a verification of s that passed in this correction round, after the write
\* that left s, and no verification follows it.
VerifiedBy(v, s) ==
    /\ IsLatest(ledger, v, {"VERIFYING"}, AttemptStatus)
    /\ ledger[v].status = "COMPLETED" /\ ledger[v].verdict = "PASS"
    /\ ledger[v].round = disk.correction /\ LeftBy(v, s)
    /\ \E w \in DOMAIN ledger : LatestWritable(ledger, w) /\ ledger[w].after = s /\ w < v

\* r is a review of s that passed, after v, and only reporting follows it.
ReviewedBy(r, v, s) ==
    /\ IsLatest(ledger, r, AttemptPhase \ {"REPORTING"}, AttemptStatus)
    /\ ledger[r].phase = "REVIEWING"
    /\ ledger[r].status = "COMPLETED" /\ ledger[r].verdict = "PASS"
    /\ LeftBy(r, s) /\ v < r

Verified == \E v \in DOMAIN ledger, s \in SoundSources : VerifiedBy(v, s)
Reviewed == \E v, r \in DOMAIN ledger, s \in SoundSources :
               VerifiedBy(v, s) /\ ReviewedBy(r, v, s)

\* What a verification or a review knows about the source it works on, which is
\* the one its attempt began with.
ReadOf(c) ==
    LET source == Current(c).before IN
    /\ pc[c] \in {"begin", "executing", "finish", "complete"} =>
          Current(c).after = NoFingerprint
    /\ pc[c] = "executing" => source \in SoundSources /\ Wrote(source)
    /\ Done(c) /\ decision[c].outcome = "COMPLETED" =>
          /\ source \in SoundSources /\ Wrote(source) /\ workspace = source
          /\ Current(c).verdict = "PASS"
          /\ Current(c).phase = "VERIFYING" => Current(c).round = disk.correction
          /\ pc[c] = "complete" => decision[c].after \in Capture(workspace)
          /\ pc[c] = "save" => Current(c).status = "COMPLETED" /\ Current(c).after = source

\* A write that is done leaves the workspace its agent left.
WriteOf(c) ==
    Done(c) =>
       /\ pc[c] # "finish"
       /\ Current(c).after = workspace /\ decision[c].after = workspace
       /\ pc[c] = "save" => Current(c).status = "COMPLETED"

SourcePhases == {"VERIFYING", "REVIEWING", "REPORTING"}

ChainOf(c) ==
    /\ pc[c] \in {"loop", "begin"} /\ mem[c].state \in SourcePhases => Wrote(workspace)
    /\ Current(c).phase \in {"VERIFYING", "REVIEWING"} => ReadOf(c)
    /\ Current(c).phase \in WritablePhases => WriteOf(c)

\* The states after verification and after review are only entered with the evidence
\* for them, and nothing can disturb it there.
ChainInv ==
    Clean =>
       /\ disk.state = "REVIEWING" => Verified
       /\ disk.state = "REPORTING" => Reviewed
       /\ \A c \in Controllers : ChainOf(c)

LEMMA InitChain == Init => ChainInv
BY DEF Init, ChainInv, ChainOf, ReadOf, WriteOf, Done, NewRun, SourcePhases

LEMMA AloneChains ==
    ASSUME NEW c \in Controllers, Alone(c)
    PROVE  \A d \in Controllers \ {c} : ChainOf(d)'
BY DEF Alone, ChainOf, ReadOf, WriteOf, Done, StagePoints

LEMMA VerifiedStays ==
    ASSUME TypeOK, UNCHANGED disk, Spares({"VERIFYING"} \cup WritablePhases),
           NEW v, NEW s, VerifiedBy(v, s)
    PROVE  VerifiedBy(v, s)' /\ v \in DOMAIN ledger'
<1>1. Spares({"VERIFYING"}) /\ Spares(WritablePhases)
  BY DEF Spares
<1>2. PICK w \in DOMAIN ledger :
         LatestWritable(ledger, w) /\ ledger[w].after = s /\ w < v
  BY DEF VerifiedBy
<1>3. /\ LatestWritable(ledger', w) /\ ledger'[w] = ledger[w] /\ w \in DOMAIN ledger'
      /\ IsLatest(ledger', v, {"VERIFYING"}, AttemptStatus)
      /\ ledger'[v] = ledger[v] /\ v \in DOMAIN ledger'
  BY <1>1, <1>2, LatestSpared DEF LatestWritable, VerifiedBy
<1> QED
  BY <1>2, <1>3 DEF VerifiedBy, LeftBy

LEMMA ReviewedStays ==
    ASSUME TypeOK, Spares(AttemptPhase \ {"REPORTING"}), NEW r, NEW v, NEW s, ReviewedBy(r, v, s)
    PROVE  ReviewedBy(r, v, s)' /\ r \in DOMAIN ledger'
BY LatestSpared DEF ReviewedBy, LeftBy

\* After verification the loop only reviews and reports, and after review it only
\* reports.
LEMMA StepSpares ==
    ASSUME BaseInv, SyncInv, [Next]_vars, disk.state \in {"REVIEWING", "REPORTING"}
    PROVE  /\ Spares({"VERIFYING"} \cup WritablePhases)
           /\ disk.state = "REPORTING" => Spares(AttemptPhase \ {"REPORTING"})
<1> DEFINE Goal == /\ Spares({"VERIFYING"} \cup WritablePhases)
                   /\ disk.state = "REPORTING" => Spares(AttemptPhase \ {"REPORTING"})
<1>1. ASSUME NEW c \in Controllers,
             OutsideStages(c) \/ ResumeAccepted(c) \/ ImmediateTransition(c) \/ SaveTransition(c)
      PROVE  Goal
  BY <1>1, LogStays DEF Spares
<1>2. ASSUME NEW c \in Controllers, StartAttempt(c) PROVE Goal
  <2>1. Grows /\ ledger'[Len(ledger) + 1].phase = disk.state
    BY <1>2, StartEffect, StartGrows DEF SyncInv
  <2> QED
    BY <2>1 DEF Spares, WritablePhases
<1>3. ASSUME NEW c \in Controllers, Stage(c) \/ CompleteAttempt(c) PROVE Goal
  <2>1. /\ Touches(att[c]) /\ att[c] \in DOMAIN ledger /\ pc[c] \in StagePoints
        /\ mem[c].state = ledger[att[c]].phase
    BY <1>3, StageTouches, StageEffect, CompleteEffect DEF BaseInv, FrameInv, StagePoints
  <2>2. ledger[att[c]].phase \in {disk.state, "REPORTING"}
    BY <2>1 DEF SyncInv, Current
  <2> QED
    BY <2>1, <2>2 DEF Spares, WritablePhases
<1>4. CASE Edit \/ UNCHANGED vars
  BY <1>4 DEF Edit, vars, Spares
<1> QED
  BY <1>1, <1>2, <1>3, <1>4, NextCases

\* While the log keeps its writes, what they left stays known.
LEMMA WorkspaceStaysWritten ==
    ASSUME TypeOK, Spares(WritablePhases), UNCHANGED workspace, Wrote(workspace)
    PROVE  Wrote(workspace)'
BY LatestSpared DEF Wrote, LatestWritable

LEMMA SourceStaysWritten ==
    ASSUME TypeOK, Spares(WritablePhases), NEW c \in Controllers,
           Current(c)'.before = Current(c).before, Wrote(Current(c).before)
    PROVE  Wrote(Current(c).before)'
BY LatestSpared DEF Wrote, LatestWritable

\* A verification or review begins with the workspace the latest write left, and
\* completes only if it ends with it.
LEMMA StageReads ==
    ASSUME BaseInv, SyncInv, NEW c \in Controllers, ChainOf(c), Stage(c),
           Current(c).phase \in {"VERIFYING", "REVIEWING"}
    PROVE  ReadOf(c)'
<1>0. /\ TypeOK /\ pc[c] \in {"begin", "executing", "finish"}
      /\ Touches(att[c]) /\ att[c] \in DOMAIN ledger
      /\ UNCHANGED <<disk, workspace, att>> /\ ReadOf(c)
      /\ Current(c)'.phase = Current(c).phase
      /\ pc'[c] # "save" /\ mem[c].state = Current(c).phase
  BY StageEffect, StageTouches DEF BaseInv, ChainOf
<1>1. Spares(WritablePhases) /\ workspace \in Workspaces
  BY <1>0 DEF Spares, Current, WritablePhases, TypeOK
<1>2. Current(c).after = NoFingerprint
  BY <1>0 DEF ReadOf
<1>3. CASE BeginVerification(c) \/ BeginReview(c)
  <2>1. /\ pc[c] = "begin" /\ Current(c)'.before = Current(c).before
        /\ Current(c)'.after = Current(c).after
        /\ \/ pc'[c] = "executing" /\ Current(c).before = workspace /\ workspace \notin Unsafe
           \/ pc'[c] = "finish" /\ decision'[c].outcome = "HUMAN_REQUIRED"
    BY <1>3, BeginVerificationEffect, BeginReviewEffect DEF Keeps
  <2>2. Wrote(workspace)
    BY <1>0, <2>1 DEF ChainOf, SourcePhases
  <2>3. CASE pc'[c] = "executing" /\ Current(c).before = workspace /\ workspace \notin Unsafe
    <3>1. Current(c)'.before \in SoundSources /\ Wrote(Current(c).before)'
      BY <1>0, <1>1, <2>1, <2>2, <2>3, SourceStaysWritten DEF SoundSources
    <3> QED
      BY <1>2, <2>1, <2>3, <3>1 DEF ReadOf, Done
  <2>4. CASE pc'[c] = "finish" /\ decision'[c].outcome = "HUMAN_REQUIRED"
    BY <1>2, <2>1, <2>4 DEF ReadOf, Done
  <2> QED
    BY <2>1, <2>3, <2>4
<1>4. CASE RunVerification(c) \/ RunReview(c)
  <2>1. /\ pc[c] = "executing" /\ pc'[c] = "finish"
        /\ Current(c)'.before = Current(c).before /\ Current(c)'.after = Current(c).after
    BY <1>4, RunVerificationEffect, RunReviewEffect DEF Keeps
  <2>2. Current(c).before \in SoundSources /\ Wrote(Current(c).before)
    BY <1>0, <2>1 DEF ReadOf
  <2>3. decision'[c].outcome = "COMPLETED" =>
           /\ Current(c)'.verdict = "PASS" /\ Current(c).before \in Capture(workspace)
           /\ Current(c).phase = "VERIFYING" => Current(c)'.round = disk.correction
    <3>1. CASE RunVerification(c)
      BY <3>1, RunVerificationEffect DEF VerificationOutcome
    <3>2. CASE RunReview(c)
      BY <3>2, RunReviewEffect DEF ReviewResults
    <3> QED
      BY <1>4, <3>1, <3>2
  <2>4. Wrote(Current(c).before)'
    BY <1>0, <1>1, <2>1, <2>2, SourceStaysWritten
  <2>5. Current(c).before \in Capture(workspace) => workspace = Current(c).before
    BY <2>2, WorkspacesAssumption DEF Capture, SoundSources
  <2> QED
    BY <1>0, <1>2, <2>1, <2>2, <2>3, <2>4, <2>5 DEF ReadOf, Done
<1>5. CASE Finish(c)
  <2>1. /\ pc[c] = "finish" /\ pc'[c] = "complete" /\ UNCHANGED <<ledger, att>>
        /\ decision'[c].after \in Capture(workspace)
        /\ decision'[c].outcome = decision[c].outcome
        /\ Current(c)' = Current(c)
    BY <1>0, <1>5, FinishEffect DEF WritablePhases, Current
  <2>2. Done(c)' /\ decision'[c].outcome = "COMPLETED" =>
           /\ Current(c).before \in SoundSources /\ Wrote(Current(c).before)
           /\ workspace = Current(c).before /\ Current(c).verdict = "PASS"
           /\ Current(c).phase = "VERIFYING" => Current(c).round = disk.correction
    BY <1>0, <2>1 DEF ReadOf, Done
  <2>3. Wrote(Current(c).before) => Wrote(Current(c).before)'
    BY <1>0, <1>1, <2>1, SourceStaysWritten
  <2> QED
    BY <1>0, <1>2, <2>1, <2>2, <2>3 DEF ReadOf
<1>6. ~ (\/ PreparationRaises(c) \/ BeginWritable(c) \/ RunWritable(c)
         \/ BeginHandoff(c) \/ CapturePatch(c) \/ RecheckHandoff(c))
  BY PreparationRaisesEffect, BeginWritableEffect, RunWritableEffect, HandoffEffect
     DEF WritablePhases
<1> QED
  BY <1>3, <1>4, <1>5, <1>6 DEF Stage

\* An agent's write completes only with a workspace that could be inspected.
LEMMA StageWrites ==
    ASSUME BaseInv, NEW c \in Controllers, ChainOf(c), Stage(c),
           Current(c).phase \in WritablePhases
    PROVE  WriteOf(c)'
<1>0. TypeOK /\ WriteOf(c) /\ UNCHANGED workspace /\ pc'[c] # "save"
      /\ Current(c).phase # "REPORTING"
  BY StageEffect DEF BaseInv, ChainOf, WritablePhases
<1>1. CASE BeginWritable(c)
  BY <1>1, BeginWritableEffect DEF WriteOf, Done
<1>2. CASE RunWritable(c)
  <2>1. /\ pc'[c] = "complete" /\ Current(c)'.after \in Capture(workspace)
        /\ decision'[c].after = Current(c)'.after
        /\ decision'[c].outcome \in WritableOutcomes(c, Current(c)'.after)
    BY <1>2, RunWritableEffect
  <2>2. decision'[c].outcome \in {"COMPLETED", "CORRECTION_REQUIRED"} =>
           Current(c)'.after # NoFingerprint
    BY <2>1 DEF WritableOutcomes
  <2> QED
    BY <1>0, <2>1, <2>2 DEF WriteOf, Done, Capture
<1>3. CASE Finish(c)
  <2>1. /\ pc[c] = "finish" /\ decision'[c].outcome \in {decision[c].outcome, "HUMAN_REQUIRED"}
    BY <1>3, FinishEffect
  <2>2. decision[c].outcome \notin {"COMPLETED", "CORRECTION_REQUIRED"}
    BY <1>0, <2>1 DEF WriteOf, Done
  <2> QED
    BY <2>1, <2>2 DEF WriteOf, Done
<1>4. ~ (\/ BeginVerification(c) \/ PreparationRaises(c) \/ RunVerification(c)
         \/ BeginReview(c) \/ RunReview(c)
         \/ BeginHandoff(c) \/ CapturePatch(c) \/ RecheckHandoff(c))
  BY BeginVerificationEffect, PreparationRaisesEffect, RunVerificationEffect,
     BeginReviewEffect, RunReviewEffect, HandoffEffect DEF WritablePhases
<1> QED
  BY <1>1, <1>2, <1>3, <1>4 DEF Stage

LEMMA StageLeavesBegin ==
    ASSUME BaseInv, NEW c \in Controllers, Stage(c)
    PROVE  pc'[c] # "begin"
BY BeginVerificationEffect, PreparationRaisesEffect, RunVerificationEffect,
   BeginReviewEffect, RunReviewEffect, BeginWritableEffect, RunWritableEffect,
   FinishEffect, HandoffEffect DEF Stage

LEMMA StageChains ==
    ASSUME BaseInv, SyncInv, NEW c \in Controllers, ChainOf(c), Stage(c)
    PROVE  ChainOf(c)'
<1>1. Current(c)'.phase = Current(c).phase /\ pc'[c] \notin {"loop", "begin"}
  BY StageEffect, StageLeavesBegin DEF StagePoints
<1> QED
  BY <1>1, StageReads, StageWrites DEF ChainOf

\* The transition of a verification or review that passed is saved with the evidence
\* the next state is entered for.
LEMMA SaveVerified ==
    ASSUME BaseInv, SyncInv, NEW c \in Controllers, SaveTransition(c), Done(c),
           Current(c).phase = "VERIFYING", decision[c].outcome = "COMPLETED",
           ChainOf(c), decision[c].correction = disk.correction
    PROVE  Verified' /\ Wrote(workspace)'
<1>0. /\ TypeOK /\ pc[c] = "save" /\ att[c] \in DOMAIN ledger
      /\ UNCHANGED <<ledger, workspace>> /\ disk'.correction = decision[c].correction
      /\ att[c] = Len(ledger) /\ DOMAIN ledger = 1 .. Len(ledger) /\ Len(ledger) \in Nat
  BY SaveEffect, LedgerDomain DEF BaseInv, SyncInv, StagePoints, Decided
<1>1. PICK v \in DOMAIN ledger : v = att[c]
  BY <1>0
<1>2. PICK s \in SoundSources : s = workspace
  BY <1>0 DEF ChainOf, ReadOf
<1>3. /\ ledger[v].before = s /\ ledger[v].after = s /\ Wrote(s)
      /\ ledger[v].status = "COMPLETED" /\ ledger[v].verdict = "PASS"
      /\ ledger[v].round = disk.correction /\ ledger[v].phase = "VERIFYING"
  BY <1>0, <1>1, <1>2 DEF ChainOf, ReadOf, Current
<1>4. IsLatest(ledger, v, {"VERIFYING"}, AttemptStatus)
  BY <1>0, <1>1, <1>3 DEF IsLatest, AttemptStatus
<1>5. PICK w \in DOMAIN ledger : LatestWritable(ledger, w) /\ ledger[w].after = s
  BY <1>3 DEF Wrote
<1>6. w < v
  <2>1. w # v
    BY <1>3, <1>5 DEF LatestWritable, IsLatest, WritablePhases
  <2> QED
    BY <1>0, <1>1, <1>5, <2>1
<1>7. VerifiedBy(v, s)'
  BY <1>0, <1>3, <1>4, <1>5, <1>6 DEF VerifiedBy, LeftBy
<1> QED
  BY <1>0, <1>1, <1>2, <1>3, <1>7 DEF Verified, Wrote

LEMMA SaveReviewed ==
    ASSUME BaseInv, SyncInv, NEW c \in Controllers, SaveTransition(c), Done(c),
           Current(c).phase = "REVIEWING", decision[c].outcome = "COMPLETED",
           ChainOf(c), decision[c].correction = disk.correction, Verified
    PROVE  Reviewed' /\ Wrote(workspace)'
<1>0. /\ TypeOK /\ pc[c] = "save" /\ att[c] \in DOMAIN ledger
      /\ UNCHANGED <<ledger, workspace>> /\ disk'.correction = decision[c].correction
      /\ att[c] = Len(ledger) /\ DOMAIN ledger = 1 .. Len(ledger) /\ Len(ledger) \in Nat
  BY SaveEffect, LedgerDomain DEF BaseInv, SyncInv, StagePoints, Decided
<1>1. PICK r \in DOMAIN ledger : r = att[c]
  BY <1>0
<1>2. PICK s \in SoundSources : s = workspace
  BY <1>0 DEF ChainOf, ReadOf
<1>3. /\ ledger[r].before = s /\ ledger[r].after = s /\ Wrote(s)
      /\ ledger[r].status = "COMPLETED" /\ ledger[r].verdict = "PASS"
      /\ ledger[r].phase = "REVIEWING"
  BY <1>0, <1>1, <1>2 DEF ChainOf, ReadOf, Current
<1>4. IsLatest(ledger, r, AttemptPhase \ {"REPORTING"}, AttemptStatus)
  BY <1>0, <1>1, <1>3 DEF IsLatest, AttemptStatus, AttemptPhase, ReadOnlyPhases
<1>5. PICK v \in DOMAIN ledger, t \in SoundSources : VerifiedBy(v, t)
  BY DEF Verified
<1>6. t = s
  BY <1>0, <1>3, <1>5, LatestUnique DEF Wrote, VerifiedBy, LatestWritable
<1>7. v < r
  <2>1. v # r
    BY <1>3, <1>5 DEF VerifiedBy, IsLatest
  <2> QED
    BY <1>0, <1>1, <1>5, <2>1
<1>8. VerifiedBy(v, s)'
  BY <1>0, <1>5, <1>6 DEF VerifiedBy, LeftBy
<1>9. ReviewedBy(r, v, s)'
  BY <1>0, <1>3, <1>4, <1>7 DEF ReviewedBy, LeftBy
<1> QED
  BY <1>0, <1>2, <1>3, <1>8, <1>9 DEF Reviewed, Wrote

\* A write that is done is the latest one.
LEMMA SaveWritten ==
    ASSUME BaseInv, SyncInv, NEW c \in Controllers, SaveTransition(c), Done(c),
           Current(c).phase \in WritablePhases, ChainOf(c)
    PROVE  Wrote(workspace)'
<1>0. /\ TypeOK /\ pc[c] = "save" /\ att[c] \in DOMAIN ledger
      /\ UNCHANGED <<ledger, workspace>>
      /\ att[c] = Len(ledger) /\ DOMAIN ledger = 1 .. Len(ledger) /\ Len(ledger) \in Nat
  BY SaveEffect, LedgerDomain DEF BaseInv, SyncInv, StagePoints
<1>1. PICK w \in DOMAIN ledger : w = att[c]
  BY <1>0
<1>2. ledger[w].after = workspace /\ ledger[w].status = "COMPLETED"
      /\ ledger[w].phase \in WritablePhases
  BY <1>0, <1>1 DEF ChainOf, WriteOf, Current
<1>3. LatestWritable(ledger, w)
  BY <1>0, <1>1, <1>2 DEF LatestWritable, IsLatest
<1> QED
  BY <1>0, <1>2, <1>3 DEF Wrote

\* The attempt of a verification, review or write records what its stage decided on.
LEMMA CompleteChains ==
    ASSUME BaseInv, SyncInv, NEW c \in Controllers, ChainOf(c), CompleteAttempt(c), Clean'
    PROVE  ChainOf(c)'
<1>0. /\ TypeOK /\ pc[c] = "complete" /\ att[c] \in DOMAIN ledger /\ Touches(att[c])
      /\ UNCHANGED <<disk, workspace, att, decision>>
      /\ Current(c)'.phase = Current(c).phase /\ Current(c)'.before = Current(c).before
      /\ Current(c)'.verdict = Current(c).verdict /\ Current(c)'.round = Current(c).round
      /\ Current(c)'.status = StatusOf(decision[c].outcome)
      /\ Current(c)'.after = IF decision[c].after = NoFingerprint
                             THEN Current(c).after ELSE decision[c].after
      /\ Current(c).phase # "REPORTING" => pc'[c] = "save"
      /\ Current(c).phase = "REPORTING" => pc'[c] = "publish"
  BY CompleteEffect, StageTouches DEF BaseInv
<1>1. Current(c)'.status = "COMPLETED" => Current(c)'.after # NoFingerprint
  BY <1>0 DEF Clean, Touches, Current
<1>2. workspace # NoFingerprint
  BY <1>0, WorkspacesAssumption DEF TypeOK
<1>3. CASE Current(c).phase = "REPORTING"
  BY <1>0, <1>3 DEF ChainOf, WritablePhases
<1>4. CASE Current(c).phase \in {"VERIFYING", "REVIEWING"}
  <2>1. ReadOf(c) /\ Spares(WritablePhases) /\ pc'[c] = "save"
    BY <1>0, <1>4 DEF ChainOf, Spares, Current, WritablePhases
  <2>2. ASSUME Done(c)', decision'[c].outcome = "COMPLETED"
        PROVE  /\ Current(c)'.before \in SoundSources /\ Wrote(Current(c).before)'
               /\ workspace' = Current(c)'.before /\ Current(c)'.verdict = "PASS"
               /\ Current(c)'.phase = "VERIFYING" => Current(c)'.round = disk'.correction
               /\ Current(c)'.status = "COMPLETED" /\ Current(c)'.after = Current(c)'.before
    <3>1. /\ Current(c).before \in SoundSources /\ Wrote(Current(c).before)
          /\ workspace = Current(c).before /\ Current(c).verdict = "PASS"
          /\ Current(c).phase = "VERIFYING" => Current(c).round = disk.correction
          /\ decision[c].after \in Capture(workspace) /\ Current(c).after = NoFingerprint
      BY <1>0, <2>1, <2>2 DEF ReadOf, Done
    <3>2. Wrote(Current(c).before)'
      BY <1>0, <2>1, <3>1, SourceStaysWritten
    <3>3. Current(c)'.status = "COMPLETED" /\ Current(c)'.after = workspace
      BY <1>0, <1>1, <2>2, <3>1 DEF StatusOf, Capture
    <3> QED
      BY <1>0, <3>1, <3>2, <3>3
  <2>3. ReadOf(c)'
    BY <2>1, <2>2 DEF ReadOf
  <2> QED
    BY <1>0, <1>4, <2>1, <2>3 DEF ChainOf, WritablePhases
<1>5. CASE Current(c).phase \in WritablePhases
  <2>1. WriteOf(c)'
    BY <1>0, <1>2, <1>5 DEF ChainOf, WriteOf, Done, StatusOf
  <2> QED
    BY <1>0, <1>5, <2>1 DEF ChainOf, WritablePhases
<1>6. CASE Current(c).phase = "PREPARING"
  BY <1>0, <1>6 DEF ChainOf, WritablePhases
<1> QED
  BY <1>0, <1>3, <1>4, <1>5, <1>6, RecordsTyped
     DEF Current, AttemptRecord, AttemptPhase, ReadOnlyPhases

LEMMA NextChain ==
    /\ BaseInv /\ SyncInv /\ EvidenceInv /\ CountInv /\ ChainInv /\ FreshResumes
    /\ [Next]_vars
    => ChainInv'
<1> SUFFICES ASSUME BaseInv, SyncInv, EvidenceInv, CountInv, ChainInv, FreshResumes,
                    [Next]_vars, Clean'
             PROVE  ChainInv'
  BY DEF ChainInv
<1>0. TypeOK
  BY DEF BaseInv
<1>c. /\ disk.state = "REVIEWING" => Verified
      /\ disk.state = "REPORTING" => Reviewed
      /\ \A c \in Controllers : ChainOf(c) /\ CountOf(c)
  BY CleanBefore DEF ChainInv, CountInv
<1>d. ASSUME UNCHANGED disk \/ disk'.state \notin {"REVIEWING", "REPORTING"}
      PROVE  /\ disk'.state = "REVIEWING" => Verified'
             /\ disk'.state = "REPORTING" => Reviewed'
  <2>1. ASSUME disk'.state = "REVIEWING" PROVE Verified'
    <3>1. UNCHANGED disk /\ Verified /\ Spares({"VERIFYING"} \cup WritablePhases)
      BY <1>c, <1>d, <2>1, StepSpares
    <3> QED
      BY <1>0, <3>1, VerifiedStays DEF Verified
  <2>2. ASSUME disk'.state = "REPORTING" PROVE Reviewed'
    <3>1. /\ UNCHANGED disk /\ Reviewed /\ Spares({"VERIFYING"} \cup WritablePhases)
          /\ Spares(AttemptPhase \ {"REPORTING"})
      BY <1>c, <1>d, <2>2, StepSpares
    <3> QED
      BY <1>0, <3>1, VerifiedStays, ReviewedStays DEF Reviewed
  <2> QED
    BY <2>1, <2>2
<1>1. ASSUME NEW c \in Controllers, OutsideStages(c) PROVE ChainInv'
  <2>1. /\ UNCHANGED ledger
        /\ UNCHANGED disk \/ disk'.state \in {"HUMAN_REQUIRED", "FAILED"}
    BY <1>1, OutsideEffect
  <2>2. ASSUME NEW d \in Controllers PROVE ChainOf(d)'
    <3>1. CASE pc'[d] \notin StagePoints \cup {"loop"}
      BY <3>1 DEF ChainOf, ReadOf, WriteOf, Done, StagePoints
    <3>2. CASE pc'[d] \in StagePoints \cup {"loop"}
      <4>1. /\ pc'[d] = pc[d] /\ mem'[d] = mem[d] /\ att'[d] = att[d]
            /\ decision'[d] = decision[d] /\ UNCHANGED disk /\ Current(d)' = Current(d)
        BY <1>1, <2>1, <3>2, OutsideEffect DEF Current
      <4>2. ChainOf(d)
        BY <1>c
      <4>3. CASE UNCHANGED workspace
        BY <2>1, <4>1, <4>2, <4>3 DEF ChainOf, ReadOf, WriteOf, Done, Wrote
      <4>4. CASE In(c, "executing", AttemptPhase \ {"REPORTING"}) /\ UNCHANGED pc
        <5>1. pc[d] = "executing"
          BY <1>1, <3>2, <4>1, <4>4, OthersOutside DEF In, StagePoints
        <5> QED
          BY <2>1, <4>1, <4>2, <5>1 DEF ChainOf, ReadOf, WriteOf, Done, Wrote
      <4> QED
        BY <1>1, <4>3, <4>4, OutsideEffect
    <3> QED
      BY <3>1, <3>2
  <2> QED
    BY <1>d, <2>1, <2>2 DEF ChainInv
<1>2. ASSUME NEW c \in Controllers, ResumeAccepted(c) PROVE ChainInv'
  <2>1. /\ UNCHANGED <<disk, ledger, workspace, mem>> /\ pc'[c] = "loop" /\ Alone(c)
        /\ Resumable(mem[c], ledger, workspace)
    BY <1>2, AcceptedEffect
  <2>2. mem[c].state \in SourcePhases => Wrote(workspace)'
    BY <2>1 DEF Resumable, SourcePhases, ReadOnlyPhases, Wrote
  <2>3. ChainOf(c)'
    BY <2>1, <2>2 DEF ChainOf, ReadOf, WriteOf, Done
  <2> QED
    BY <1>d, <2>1, <2>3, AloneChains DEF ChainInv
<1>3. ASSUME NEW c \in Controllers, ImmediateTransition(c) PROVE ChainInv'
  <2>1. /\ disk'.state \in {"IMPLEMENTING", "CORRECTING", "HUMAN_REQUIRED"}
        /\ mem'[c] = disk' /\ pc'[c] \in {"loop", "publish"} /\ Alone(c)
    BY <1>3, ImmediateEffect DEF ImmediateTarget
  <2>2. ChainOf(c)'
    BY <2>1 DEF ChainOf, ReadOf, WriteOf, Done, SourcePhases
  <2> QED
    BY <1>d, <2>1, <2>2, AloneChains DEF ChainInv
<1>4. ASSUME NEW c \in Controllers, StartAttempt(c) PROVE ChainInv'
  <2>1. /\ pc[c] = "loop" /\ pc'[c] = "begin" /\ UNCHANGED <<disk, workspace, mem>>
        /\ Grows /\ ledger'[Len(ledger) + 1].phase = mem[c].state
        /\ Current(c)'.after = NoFingerprint /\ Alone(c)
    BY <1>4, StartEffect, StartGrows DEF Current
  <2>2. mem[c].state \in SourcePhases => Wrote(workspace)'
    <3>1. mem[c].state \in SourcePhases => Spares(WritablePhases) /\ Wrote(workspace)
      BY <1>c, <2>1 DEF ChainOf, Spares, SourcePhases, WritablePhases
    <3> QED
      BY <1>0, <2>1, <3>1, WorkspaceStaysWritten
  <2>3. ChainOf(c)'
    BY <2>1, <2>2 DEF ChainOf, ReadOf, WriteOf, Done
  <2> QED
    BY <1>d, <2>1, <2>3, AloneChains DEF ChainInv
<1>5. ASSUME NEW c \in Controllers, Stage(c) \/ CompleteAttempt(c) PROVE ChainInv'
  <2>1. UNCHANGED disk /\ Alone(c)
    BY <1>5, StageEffect, CompleteEffect
  <2>2. ChainOf(c)'
    BY <1>c, <1>5, StageChains, CompleteChains
  <2> QED
    BY <1>d, <2>1, <2>2, AloneChains DEF ChainInv
<1>6. ASSUME NEW c \in Controllers, SaveTransition(c) PROVE ChainInv'
  <2>1. /\ pc[c] = "save" /\ Alone(c) /\ UNCHANGED <<ledger, workspace, att, decision>>
        /\ mem[c] = disk /\ disk.state = Current(c).phase /\ disk.state \in AttemptPhase
        /\ LegalTransition(disk.state, disk'.state)
        /\ disk'.state = RequestedState(disk.state, decision[c].outcome)
        /\ pc'[c] \in {"complete", "loop", "publish"}
        /\ pc'[c] = "complete" => Current(c).phase = "REPORTING"
        /\ pc'[c] = "loop" => mem'[c] = disk'
        /\ Current(c)' = Current(c)
    BY <1>6, SaveEffect DEF SyncInv, StagePoints, Decided, Current
  <2>2. CASE disk'.state \notin SourcePhases
    <3>1. ChainOf(c)'
      BY <2>1, <2>2 DEF ChainOf, ReadOf, WriteOf, Done, WritablePhases
    <3> QED
      BY <1>d, <2>1, <2>2, <3>1, AloneChains DEF ChainInv, SourcePhases
  <2>3. CASE disk'.state \in SourcePhases
    <3>1. /\ disk'.state = "VERIFYING" => Current(c).phase \in WritablePhases
          /\ disk'.state = "REVIEWING" => Current(c).phase = "VERIFYING"
          /\ disk'.state = "REPORTING" => Current(c).phase = "REVIEWING"
      BY <2>1 DEF LegalTransition, ForwardTransitions, WritablePhases
    <3>2. decision[c].outcome = "COMPLETED" /\ Done(c)
      <4>1. decision[c].outcome \in StageOutcome
        BY <1>0 DEF TypeOK, Decision
      <4>2. decision[c].outcome = "COMPLETED"
        BY <2>1, <2>3, <4>1 DEF StageOutcome, RequestedState, SourcePhases
      <4> QED
        BY <2>1, <2>3, <3>1, <4>2 DEF Done, SourcePhases, WritablePhases
    <3>3. Current(c).phase # "CORRECTING" => decision[c].correction = disk.correction
      <4>1. decision[c].correction = disk.correction + CorrectionAdvance(c)
        BY <1>c, <3>2 DEF CountOf
      <4>2. disk.correction \in Nat
        BY <1>0 DEF TypeOK, RunRecord
      <4> QED
        BY <4>1, <4>2 DEF CorrectionAdvance
    <3>4. Wrote(workspace)'
      BY <1>c, <1>6, <2>1, <2>3, <3>1, <3>2, <3>3, SaveVerified, SaveReviewed, SaveWritten
         DEF SourcePhases
    <3>5. disk'.state = "REVIEWING" => Verified'
      BY <1>c, <1>6, <3>1, <3>2, <3>3, SaveVerified
    <3>6. disk'.state = "REPORTING" => Reviewed'
      BY <1>c, <1>6, <2>1, <3>1, <3>2, <3>3, SaveReviewed
    <3>7. ChainOf(c)'
      BY <2>1, <3>4 DEF ChainOf, ReadOf, WriteOf, Done, WritablePhases
    <3> QED
      BY <2>1, <3>5, <3>6, <3>7, AloneChains DEF ChainInv
  <2> QED
    BY <2>2, <2>3
<1>7. ~ Edit
  BY <1>0 DEF Edit, Clean, TypeOK
<1>8. CASE UNCHANGED vars
  <2>1. ASSUME NEW c \in Controllers PROVE ChainOf(c)'
    <3>1. ChainOf(c)
      BY <1>c
    <3> QED
      BY <1>8, <3>1 DEF vars, ChainOf, ReadOf, WriteOf, Done, Current, Wrote
  <2>2. UNCHANGED disk
    BY <1>8 DEF vars
  <2> QED
    BY <1>d, <2>1, <2>2 DEF ChainInv
<1> QED
  BY <1>1, <1>2, <1>3, <1>4, <1>5, <1>6, <1>7, <1>8, NextCases

LEMMA ChainInvariant == Spec /\ []FreshResumes => []ChainInv
BY InitChain, NextChain, CountInvariant, BaseInvariant, SyncInvariant, EvidenceInvariant, PTL
   DEF Spec

-----------------------------------------------------------------------------
(* The handoff policy finds nothing to object to *)

LEMMA ReportingSuffices ==
    ASSUME BaseInv, SyncInv, QuietInv, EvidenceInv, StartedInv, RoundsInv, CountInv, ChainInv,
           Clean, NEW c \in Controllers, In(c, "begin", {"REPORTING"})
    PROVE  HandoffAccepts(mem[c], ledger, workspace)
<1>0. /\ TypeOK /\ pc[c] = "begin" /\ pc[c] \in StagePoints /\ att[c] \in DOMAIN ledger
      /\ ledger[att[c]].phase = "REPORTING"
  BY DEF BaseInv, In, StagePoints
<1>1. mem[c] = disk /\ disk.state = "REPORTING" /\ att[c] = Len(ledger)
  BY <1>0 DEF SyncInv, BaseInv, FrameInv
<1>2. Len(ledger) > 0 /\ ledger[Len(ledger)].phase = "REPORTING"
      /\ ledger[Len(ledger)].status = "STARTED"
  BY <1>0, <1>1, LedgerDomain DEF EvidenceInv
<1>3. \A i \in DOMAIN ledger :
         /\ ledger[i].phase \in WritablePhases => ledger[i].status = "COMPLETED"
         /\ ledger[i].status \notin {"FAILED", "HUMAN_REQUIRED"}
  <2>1. ASSUME NEW i \in DOMAIN ledger, ledger[i].phase \in WritablePhases
        PROVE  ledger[i].status # "STARTED"
    BY <1>0, <2>1 DEF QuietInv, OpenWrite, WritablePhases
  <2> QED
    BY <1>0, <2>1, RecordsTyped DEF Clean, AttemptRecord, AttemptStatus
<1>4. /\ AgentTasksStarted(ledger) /\ disk.correction <= MaxCorrectionRounds
      /\ CountPhase(ledger, "CORRECTING", AttemptStatus) = disk.correction
      /\ disk.review >= 1
      /\ CountPhase(ledger, "REVIEWING", {"COMPLETED"}) >= disk.review
  BY <1>1 DEF StartedInv, RoundsInv, CountInv, CorrectionCount, ReviewCount, TerminalStates
<1>5. Reviewed /\ Wrote(workspace)
  BY <1>0, <1>1 DEF ChainInv, ChainOf, SourcePhases
<1>6. PICK v, r \in DOMAIN ledger, s \in SoundSources : VerifiedBy(v, s) /\ ReviewedBy(r, v, s)
  BY <1>5 DEF Reviewed
<1>7. PICK w \in DOMAIN ledger : LatestWritable(ledger, w) /\ ledger[w].after = s /\ w < v
  BY <1>6 DEF VerifiedBy
<1>8. s = workspace /\ workspace \notin Unsafe \cup {NoFingerprint}
  <2>1. s = workspace
    BY <1>0, <1>5, <1>7, LatestUnique DEF Wrote, LatestWritable
  <2> QED
    BY <2>1, WorkspacesAssumption DEF SoundSources
<1>9. IsLatest(ledger, r, {"REVIEWING"}, AttemptStatus)
  BY <1>6 DEF ReviewedBy, IsLatest, AttemptPhase, ReadOnlyPhases
<1>10. /\ LatestWritable(ledger, w) /\ ledger[w].after = workspace
       /\ IsLatest(ledger, v, {"VERIFYING"}, AttemptStatus)
       /\ ledger[v].status = "COMPLETED" /\ ledger[v].verdict = "PASS"
       /\ ledger[v].round = disk.correction /\ w < v
       /\ ledger[v].before = workspace /\ ledger[v].after = workspace
       /\ ledger[r].status = "COMPLETED" /\ ledger[r].verdict = "PASS" /\ v < r
       /\ ledger[r].before = ledger[v].after /\ ledger[r].after = ledger[v].after
       /\ IsLatest(ledger, r, AttemptPhase \ {"REPORTING"}, AttemptStatus)
  BY <1>6, <1>7, <1>8 DEF VerifiedBy, ReviewedBy, LeftBy
<1> QED
  BY <1>1, <1>2, <1>3, <1>4, <1>8, <1>9, <1>10 DEF HandoffAccepts

\* Nothing but the repository or an inspection that failed can turn down a run that
\* got as far as reporting with no stop recorded against it: whatever crashed and
\* was resumed before, every condition of the handoff policy holds by then
\* (evaluate_handoff_policy).
THEOREM FreshReportingEvidenceSuffices ==
    Spec /\ []FreshResumes => []ReportingEvidenceSuffices
<1>1. /\ BaseInv /\ SyncInv /\ QuietInv /\ EvidenceInv /\ StartedInv /\ RoundsInv /\ CountInv
      /\ ChainInv
      => ReportingEvidenceSuffices
  BY ReportingSuffices DEF ReportingEvidenceSuffices, Clean
<1> QED
  BY <1>1, BaseInvariant, SyncInvariant, QuietInvariant, EvidenceInvariant, StartedInvariant,
     RoundsInvariant, CountInvariant, ChainInvariant, PTL

\* A run that one controller creates, drives and resumes, whatever crashes and whatever is
\* written from outside, needs no premise (workflow.py): its records follow the table, nothing
\* interrupted is adopted, failures are accounted for, corrections answer their cause, one
\* edit is caught, and reporting has its evidence.
THEOREM OneControllerIsSound ==
    ASSUME Controllers = {Creator}
    PROVE  Spec => /\ DurableTransitionsAreLegal /\ NoAdoption
                   /\ []FailedIsAccountedFor /\ []CorrectionAnswersItsCause
                   /\ []SingleEditIsCaught /\ []ReportingEvidenceSuffices
<1>1. Spec => []FreshResumes
  BY OneControllerIsFresh
<1> QED
  BY <1>1, FreshTransitionsAreLegal, FreshRunsAdoptNothing, FreshFailuresAreAccountedFor,
     FreshCorrectionsAnswerTheirCause, FreshSingleEditIsCaught, FreshReportingEvidenceSuffices,
     PTL


-----------------------------------------------------------------------------
(* The current source *)

LEMMA SourceIs ==
    ASSUME TypeOK, NEW w \in DOMAIN ledger, CurrentWrite(w)
    PROVE  CurrentSource = ledger[w].after
<1>1. \A x \in DOMAIN ledger : CurrentWrite(x) => x = w
  BY LedgerDomain DEF CurrentWrite, LastWrite
<1>2. (CHOOSE x \in DOMAIN ledger : CurrentWrite(x)) = w
  BY <1>1
<1> QED
  BY <1>2 DEF CurrentSource

LEMMA SourceIsNext ==
    ASSUME TypeOK', NEW w \in DOMAIN ledger', CurrentWrite(w)'
    PROVE  CurrentSource' = ledger'[w].after
<1>0. Len(ledger') \in Nat /\ DOMAIN ledger' = 1 .. Len(ledger')
  BY DEF TypeOK
<1>1. \A x \in DOMAIN ledger' : CurrentWrite(x)' => x = w
  BY <1>0 DEF CurrentWrite, LastWrite
<1>2. (CHOOSE x \in DOMAIN ledger' : CurrentWrite(x)') = w
  BY <1>1
<1> QED
  BY <1>2 DEF CurrentSource

LEMMA SourceTyped ==
    ASSUME TypeOK'
    PROVE  CurrentSource' \in Workspaces \cup {NoFingerprint}
<1>1. CASE \E w \in DOMAIN ledger' : CurrentWrite(w)'
  <2>1. PICK w \in DOMAIN ledger' : CurrentWrite(w)'
    BY <1>1
  <2>2. ledger'[w] \in AttemptRecord
    BY <2>1 DEF TypeOK
  <2> QED
    BY <2>1, <2>2, SourceIsNext DEF AttemptRecord, Fingerprints
<1>2. CASE ~ \E w \in DOMAIN ledger' : CurrentWrite(w)'
  BY <1>2 DEF CurrentSource
<1> QED
  BY <1>1, <1>2

-----------------------------------------------------------------------------
(* One attempt at a time moves, and it is the last *)

\* k, of this phase and without an outcome so far, is added to the log or amended.
Moves(k, phase) ==
    /\ k \in DOMAIN ledger' /\ k = Len(ledger') /\ k \in Nat
    /\ Len(ledger) \in {k, k - 1}
    /\ DOMAIN ledger = 1 .. Len(ledger) /\ DOMAIN ledger' = 1 .. k
    /\ \A i \in DOMAIN ledger : i # k => ledger'[i] = ledger[i]
    /\ ledger'[k].phase = phase
    /\ k \in DOMAIN ledger => ledger[k].phase = phase /\ ledger[k].status = "STARTED"

LEMMA StartMoves ==
    ASSUME BaseInv, NEW c \in Controllers, StartAttempt(c)
    PROVE  Moves(Len(ledger) + 1, mem[c].state)
<1>1. /\ Len(ledger) \in Nat /\ Len(ledger') = Len(ledger) + 1
      /\ DOMAIN ledger' = 1 .. Len(ledger) + 1 /\ DOMAIN ledger = 1 .. Len(ledger)
      /\ \A i \in DOMAIN ledger : ledger'[i] = ledger[i]
      /\ ledger'[Len(ledger) + 1].phase = mem[c].state
  BY StartEffect
<1> QED
  BY <1>1 DEF Moves

LEMMA StageMoves ==
    ASSUME BaseInv, SyncInv, EvidenceInv, NEW c \in Controllers,
           Stage(c) \/ CompleteAttempt(c)
    PROVE  Moves(Len(ledger), Current(c).phase)
<1>1. /\ Len(ledger) \in Nat /\ DOMAIN ledger = 1 .. Len(ledger)
      /\ Len(ledger') = Len(ledger) /\ DOMAIN ledger' = DOMAIN ledger
  BY StageEffect, CompleteEffect, LedgerDomain DEF BaseInv
<1>2. /\ att[c] = Len(ledger) /\ att[c] \in DOMAIN ledger /\ Touches(att[c])
      /\ ledger[att[c]].status = "STARTED"
  BY StageEffect, CompleteEffect, StageTouches DEF SyncInv, EvidenceInv, StagePoints, Current
<1> QED
  BY <1>1, <1>2 DEF Moves, Touches, Current

\* A record of another phase does not change what was written,
LEMMA MovesKeepSource ==
    ASSUME TypeOK, TypeOK', NEW k, NEW phase, Moves(k, phase), phase \notin WritablePhases
    PROVE  /\ \A w \in 1 .. k : (w \in DOMAIN ledger /\ CurrentWrite(w)) <=> CurrentWrite(w)'
           /\ CurrentSource' = CurrentSource
<1>1. \A w \in 1 .. k : (w \in DOMAIN ledger /\ CurrentWrite(w)) <=> CurrentWrite(w)'
  BY DEF Moves, CurrentWrite, LastWrite
<1>2. ASSUME \E w \in DOMAIN ledger : CurrentWrite(w)
      PROVE  CurrentSource' = CurrentSource
  <2>1. PICK w \in DOMAIN ledger : CurrentWrite(w)
    BY <1>2
  <2>2. w \in DOMAIN ledger' /\ CurrentWrite(w)' /\ w # k
    BY <1>1, <2>1 DEF Moves, CurrentWrite, LastWrite
  <2> QED
    BY <2>1, <2>2, SourceIs, SourceIsNext DEF Moves
<1>3. ASSUME ~ \E w \in DOMAIN ledger : CurrentWrite(w)
      PROVE  CurrentSource' = CurrentSource
  <2>1. ~ \E w \in DOMAIN ledger' : CurrentWrite(w)'
    BY <1>1, <1>3 DEF Moves
  <2> QED
    BY <1>3, <2>1 DEF CurrentSource
<1> QED
  BY <1>1, <1>2, <1>3

\* or what was verified,
LEMMA MovesKeepVerification ==
    ASSUME TypeOK, TypeOK', NEW k, NEW phase, Moves(k, phase),
           phase \notin WritablePhases \cup {"VERIFYING"}
    PROVE  /\ \A v \in 1 .. k : (v \in DOMAIN ledger /\ Verification(v)) <=> Verification(v)'
           /\ SourceVerified' <=> SourceVerified
<1>1. \A w \in 1 .. k : (w \in DOMAIN ledger /\ CurrentWrite(w)) <=> CurrentWrite(w)'
  BY MovesKeepSource
<1>2. ASSUME NEW v \in 1 .. k
      PROVE  (v \in DOMAIN ledger /\ Verification(v)) <=> Verification(v)'
  <2>1. v = k => ~ Verification(v)' /\ (v \in DOMAIN ledger => ~ Verification(v))
    BY DEF Moves, Verification, Passed
  <2>2. CASE v # k
    <3>1. v \in DOMAIN ledger /\ ledger'[v] = ledger[v] /\ v \in Nat
      BY <2>2 DEF Moves
    <3>2. \A w \in 1 .. v - 1 : /\ w \in DOMAIN ledger /\ w \in 1 .. k
                                /\ ledger'[w] = ledger[w]
      BY <2>2, <3>1 DEF Moves
    <3>3. (\E w \in 1 .. v - 1 : ledger[w].after = ledger[v].after /\ CurrentWrite(w))
            <=> (\E w \in 1 .. v - 1 : ledger'[w].after = ledger'[v].after /\ CurrentWrite(w)')
      BY <1>1, <3>1, <3>2
    <3>4. (\A j \in v + 1 .. Len(ledger) : ledger[j].phase \notin WritablePhases \cup {"VERIFYING"})
            <=> (\A j \in v + 1 .. Len(ledger') :
                    ledger'[j].phase \notin WritablePhases \cup {"VERIFYING"})
      BY <2>2, <3>1 DEF Moves
    <3> QED
      BY <3>1, <3>3, <3>4 DEF Verification, Passed
  <2> QED
    BY <2>1, <2>2
<1> QED
  BY <1>2 DEF SourceVerified, Moves

\* r is a review of the current source, the latest.
Review(r) ==
    /\ Passed(r, "REVIEWING")
    /\ \A j \in r + 1 .. Len(ledger) : ledger[j].phase # "REVIEWING"
    /\ \E v \in 1 .. r - 1 : ledger[v].after = ledger[r].after /\ Verification(v)

\* or what was reviewed.
LEMMA MovesKeepReview ==
    ASSUME TypeOK, TypeOK', NEW k, NEW phase, Moves(k, phase),
           phase \notin WritablePhases \cup {"VERIFYING", "REVIEWING"}
    PROVE  SourceReviewed' <=> SourceReviewed
<1>1. \A v \in 1 .. k : (v \in DOMAIN ledger /\ Verification(v)) <=> Verification(v)'
  BY MovesKeepVerification
<1>2. ASSUME NEW r \in 1 .. k
      PROVE  (r \in DOMAIN ledger /\ Review(r)) <=> Review(r)'
  <2>1. r = k => ~ Review(r)' /\ (r \in DOMAIN ledger => ~ Review(r))
    BY DEF Moves, Review, Passed
  <2>2. CASE r # k
    <3>1. r \in DOMAIN ledger /\ ledger'[r] = ledger[r] /\ r \in Nat
      BY <2>2 DEF Moves
    <3>2. \A v \in 1 .. r - 1 : /\ v \in DOMAIN ledger /\ v \in 1 .. k
                                /\ ledger'[v] = ledger[v]
      BY <2>2, <3>1 DEF Moves
    <3>3. (\E v \in 1 .. r - 1 : ledger[v].after = ledger[r].after /\ Verification(v))
            <=> (\E v \in 1 .. r - 1 : ledger'[v].after = ledger'[r].after /\ Verification(v)')
      BY <1>1, <3>1, <3>2
    <3>4. (\A j \in r + 1 .. Len(ledger) : ledger[j].phase # "REVIEWING")
            <=> (\A j \in r + 1 .. Len(ledger') : ledger'[j].phase # "REVIEWING")
      BY <2>2, <3>1 DEF Moves
    <3> QED
      BY <3>1, <3>3, <3>4 DEF Review, Passed
  <2> QED
    BY <2>1, <2>2
<1>3. SourceReviewed <=> \E r \in DOMAIN ledger : Review(r)
  BY DEF SourceReviewed, Review
<1>4. SourceReviewed' <=> \E r \in DOMAIN ledger' : Review(r)'
  BY DEF SourceReviewed, Review
<1> QED
  BY <1>2, <1>3, <1>4 DEF Moves

-----------------------------------------------------------------------------
(* What a moving attempt is to the contract *)

\* A writable attempt, whatever becomes of it, is a write,
LEMMA MovesWrite ==
    ASSUME TypeOK, TypeOK', NEW k, NEW phase \in WritablePhases, Moves(k, phase),
           UNCHANGED disk, disk.state \notin TerminalStates
    PROVE  Contract!Next
<1>1. CurrentSource' \in Workspaces \cup {NoFingerprint}
  BY SourceTyped
<1>2. \A v \in DOMAIN ledger' : ~ Verification(v)'
  <2> SUFFICES ASSUME NEW v \in DOMAIN ledger', Verification(v)' PROVE FALSE
    OBVIOUS
  <2>1. v # k
    BY DEF Verification, Passed, Moves, WritablePhases
  <2>2. k \in v + 1 .. Len(ledger')
    BY <2>1 DEF Moves
  <2> QED
    BY <2>2 DEF Verification, Moves
<1>3. ~ SourceVerified' /\ ~ SourceReviewed'
  <2>1. ASSUME NEW r \in DOMAIN ledger', NEW v \in 1 .. r - 1 PROVE v \in DOMAIN ledger'
    BY DEF Moves
  <2> QED
    BY <1>2, <2>1 DEF SourceVerified, SourceReviewed
<1>4. Contract!Write
  BY <1>1, <1>3 DEF Contract!Write, TerminalStates
<1> QED
  BY <1>4 DEF Contract!Next

\* a verification that moves takes the approvals back, or gives the first,
LEMMA MovesVerify ==
    ASSUME TypeOK, TypeOK', NEW k, Moves(k, "VERIFYING"),
           UNCHANGED disk, disk.state \notin TerminalStates
    PROVE  Contract!Next
<1>1. CurrentSource' = CurrentSource
  BY MovesKeepSource DEF WritablePhases
<1>2. \A v \in DOMAIN ledger' : Verification(v)' => v = k
  <2> SUFFICES ASSUME NEW v \in DOMAIN ledger', Verification(v)', v # k PROVE FALSE
    OBVIOUS
  <2>1. k \in v + 1 .. Len(ledger')
    BY DEF Moves
  <2> QED
    BY <2>1 DEF Verification, Moves
<1>3. ~ SourceReviewed'
  <2>1. ASSUME NEW r \in DOMAIN ledger', NEW v \in 1 .. r - 1
        PROVE  v \in DOMAIN ledger' /\ v # k
    BY DEF Moves
  <2> QED
    BY <1>2, <2>1 DEF SourceReviewed
<1>4. SourceVerified' => CurrentSource # NoFingerprint
  <2> SUFFICES ASSUME NEW v \in DOMAIN ledger', Verification(v)'
               PROVE  CurrentSource' # NoFingerprint
    BY <1>1 DEF SourceVerified
  <2>1. PICK w \in 1 .. v - 1 : (ledger'[w].after = ledger'[v].after) /\ CurrentWrite(w)'
    BY DEF Verification
  <2>2. w \in DOMAIN ledger'
    BY DEF Moves
  <2>3. CurrentSource' = ledger'[v].after
    BY <2>1, <2>2, SourceIsNext
  <2> QED
    BY <2>3 DEF Verification, Passed
<1>5. CASE SourceVerified'
  BY <1>1, <1>3, <1>4, <1>5 DEF Contract!Next, Contract!Verify, TerminalStates
<1>6. CASE ~ SourceVerified'
  BY <1>1, <1>3, <1>6 DEF Contract!Next, Contract!TakeBackVerification, TerminalStates
<1> QED
  BY <1>5, <1>6

\* and a review the second;
LEMMA MovesReview ==
    ASSUME TypeOK, TypeOK', NEW k, Moves(k, "REVIEWING"),
           UNCHANGED disk, disk.state \notin TerminalStates
    PROVE  Contract!Next
<1>1. CurrentSource' = CurrentSource /\ (SourceVerified' <=> SourceVerified)
  BY MovesKeepSource, MovesKeepVerification DEF WritablePhases
<1>2. SourceReviewed' => SourceVerified'
  <2> SUFFICES ASSUME NEW r \in DOMAIN ledger', NEW v \in 1 .. r - 1, Verification(v)'
               PROVE  SourceVerified'
    BY DEF SourceReviewed
  <2>1. v \in DOMAIN ledger'
    BY DEF Moves
  <2> QED
    BY <2>1 DEF SourceVerified
<1>3. CASE SourceReviewed'
  BY <1>1, <1>2, <1>3 DEF Contract!Next, Contract!Review, TerminalStates
<1>4. CASE ~ SourceReviewed'
  <2>1. SourceReviewed' = FALSE
    BY <1>4
  <2>2. SourceVerified' = SourceVerified
    BY <1>1
  <2>3. Contract!TakeBackReview
    BY <1>1, <2>1, <2>2 DEF Contract!TakeBackReview, TerminalStates
  <2>4. (IF disk.state \in TerminalStates THEN disk.state ELSE "OPEN") = "OPEN"
    OBVIOUS
  <2> QED
    BY <2>3, <2>4 DEF Contract!Next
<1> QED
  BY <1>3, <1>4

\* the other attempts are nothing to it.
LEMMA MovesNothing ==
    ASSUME TypeOK, TypeOK', NEW k, NEW phase, Moves(k, phase),
           phase \in {"PREPARING", "REPORTING"},
           UNCHANGED disk, UNCHANGED patch \/ disk.state \notin TerminalStates
    PROVE  UNCHANGED Contract!contract
<1>1. CurrentSource' = CurrentSource
  BY MovesKeepSource DEF WritablePhases
<1>2. SourceVerified' <=> SourceVerified
  BY MovesKeepVerification DEF WritablePhases
<1>3. SourceReviewed' <=> SourceReviewed
  BY MovesKeepReview DEF WritablePhases
<1> QED
  BY <1>1, <1>2, <1>3 DEF Contract!contract, TerminalStates

LEMMA MovesImplement ==
    ASSUME TypeOK, TypeOK', NEW k, NEW phase \in AttemptPhase, Moves(k, phase),
           UNCHANGED disk,
           disk.state \notin TerminalStates \/ (phase = "REPORTING" /\ UNCHANGED patch)
    PROVE  [Contract!Next]_(Contract!contract)
<1>1. CASE phase \in {"PREPARING", "REPORTING"}
  BY <1>1, MovesNothing
<1>2. CASE phase \notin {"PREPARING", "REPORTING"}
  BY <1>2, MovesWrite, MovesVerify, MovesReview DEF AttemptPhase, ReadOnlyPhases
<1> QED
  BY <1>1, <1>2

-----------------------------------------------------------------------------
(* An acceptance that goes on is of an approved source *)

\* evaluate_handoff_policy looks for exactly what the contract calls approved.
LEMMA HandoffApproves ==
    ASSUME TypeOK, NEW rec, NEW s, HandoffAccepts(rec, ledger, s)
    PROVE  SourceVerified /\ SourceReviewed /\ CurrentSource = s
<1>1. PICK w, v, r \in DOMAIN ledger :
         /\ LatestWritable(ledger, w) /\ ledger[w].after = s
         /\ IsLatest(ledger, v, {"VERIFYING"}, AttemptStatus)
         /\ ledger[v].status = "COMPLETED" /\ ledger[v].verdict = "PASS"
         /\ w < v /\ ledger[v].before = s /\ ledger[v].after = s
         /\ IsLatest(ledger, r, {"REVIEWING"}, AttemptStatus)
         /\ ledger[r].status = "COMPLETED" /\ ledger[r].verdict = "PASS"
         /\ v < r
         /\ ledger[r].before = ledger[v].after /\ ledger[r].after = ledger[v].after
  BY DEF HandoffAccepts
<1>2. /\ s # NoFingerprint
      /\ \A i \in DOMAIN ledger :
            ledger[i].phase \in WritablePhases => ledger[i].status = "COMPLETED"
  BY DEF HandoffAccepts
<1>3. /\ Len(ledger) \in Nat /\ DOMAIN ledger = 1 .. Len(ledger)
      /\ \A i \in DOMAIN ledger : ledger[i].status \in AttemptStatus
  BY LedgerDomain, RecordsTyped DEF AttemptRecord
<1>4. \A j \in w + 1 .. Len(ledger) : j \in DOMAIN ledger /\ ledger[j].phase \notin WritablePhases
  BY <1>1, <1>2, <1>3 DEF LatestWritable, IsLatest
<1>5. CurrentWrite(w)
  BY <1>1, <1>4 DEF CurrentWrite, LastWrite, LatestWritable, IsLatest
<1>6. Verification(v)
  <2>1. Passed(v, "VERIFYING")
    BY <1>1, <1>2 DEF Passed, IsLatest
  <2>2. ASSUME NEW j \in v + 1 .. Len(ledger)
        PROVE  ledger[j].phase \notin WritablePhases \cup {"VERIFYING"}
    <3>1. j \in DOMAIN ledger /\ j > v /\ j \in w + 1 .. Len(ledger)
      BY <1>1, <1>3
    <3>2. ledger[j].phase # "VERIFYING"
      BY <1>1, <1>3, <3>1 DEF IsLatest
    <3> QED
      BY <1>4, <3>1, <3>2
  <2>3. w \in 1 .. v - 1
    BY <1>1, <1>3
  <2> QED
    BY <1>1, <1>5, <2>1, <2>2, <2>3 DEF Verification
<1>7. Passed(r, "REVIEWING") /\ \A j \in r + 1 .. Len(ledger) : ledger[j].phase # "REVIEWING"
  BY <1>1, <1>2, <1>3 DEF Passed, IsLatest
<1>8. v \in 1 .. r - 1
  BY <1>1, <1>3
<1> QED
  BY <1>1, <1>5, <1>6, <1>7, <1>8, SourceIs DEF SourceVerified, SourceReviewed

\* What reporting has accepted stays approved until it is delivered.
ContractInv ==
    \A c \in Controllers :
        Accepted(c) => SourceVerified /\ SourceReviewed /\ CurrentSource = Current(c).before

LEMMA ApprovalStays ==
    ASSUME UNCHANGED ledger
    PROVE  /\ CurrentSource' = CurrentSource
           /\ SourceVerified' = SourceVerified /\ SourceReviewed' = SourceReviewed
BY DEF CurrentSource, SourceVerified, SourceReviewed, Verification, Passed, CurrentWrite,
       LastWrite

LEMMA InitContract == Init => ContractInv
BY DEF Init, ContractInv, Accepted, StagePoints

LEMMA StageApproves ==
    ASSUME BaseInv, ContractInv, NEW c \in Controllers, Stage(c), Accepted(c)'
    PROVE  /\ UNCHANGED ledger /\ Current(c)' = Current(c)
           /\ SourceVerified /\ SourceReviewed /\ CurrentSource = Current(c).before
<1>0. TypeOK
  BY DEF BaseInv
<1>1. Current(c).phase = "REPORTING" /\ pc'[c] # "begin" /\ att' = att
  BY StageEffect DEF Accepted, Current
<1>2. BeginHandoff(c) \/ CapturePatch(c) \/ RecheckHandoff(c)
  BY <1>1, BeginVerificationEffect, PreparationRaisesEffect, RunVerificationEffect,
     BeginReviewEffect, RunReviewEffect, BeginWritableEffect, RunWritableEffect,
     FinishEffect DEF Stage, WritablePhases
<1>3. UNCHANGED ledger /\ Current(c)' = Current(c)
  BY <1>1, <1>2, HandoffEffect DEF Current
<1>4. CASE Current(c).before = workspace /\ HandoffAccepts(mem[c], ledger, workspace)
  BY <1>0, <1>3, <1>4, HandoffApproves
<1>5. CASE pc[c] \in {"executing", "finish"}
  <2>1. Accepted(c)
    BY <1>1, <1>5 DEF Accepted, StagePoints, Current
  <2> QED
    BY <1>3, <2>1 DEF ContractInv
<1>6. ~ (pc'[c] = "save" /\ decision'[c].outcome = "HUMAN_REQUIRED")
  BY DEF Accepted
<1> QED
  BY <1>2, <1>4, <1>5, <1>6, ReportingEffect

LEMMA NextContract == BaseInv /\ SyncInv /\ ContractInv /\ [Next]_vars => ContractInv'
<1> SUFFICES ASSUME BaseInv, SyncInv, ContractInv, [Next]_vars,
                    NEW d \in Controllers, Accepted(d)'
             PROVE  (SourceVerified /\ SourceReviewed /\ CurrentSource = Current(d).before)'
  BY DEF ContractInv
<1>0. pc'[d] \in StagePoints
  BY DEF Accepted
<1>1. ASSUME UNCHANGED ledger, Current(d)' = Current(d), Accepted(d)
      PROVE  (SourceVerified /\ SourceReviewed /\ CurrentSource = Current(d).before)'
  BY <1>1, ApprovalStays DEF ContractInv
<1>2. ASSUME NEW c \in Controllers, OutsideStages(c)
      PROVE  (SourceVerified /\ SourceReviewed /\ CurrentSource = Current(d).before)'
  <2>1. /\ UNCHANGED ledger /\ pc'[d] = pc[d] /\ att'[d] = att[d]
        /\ decision'[d] = decision[d]
    BY <1>0, <1>2, OutsideEffect
  <2> QED
    BY <1>1, <2>1 DEF Accepted, Current
<1>3. ASSUME NEW c \in Controllers, Alone(c), pc'[c] \notin StagePoints \ {"begin", "complete"}
      PROVE  FALSE
  BY <1>0, <1>3 DEF Alone, Accepted
<1>4. ASSUME NEW c \in Controllers,
             ResumeAccepted(c) \/ ImmediateTransition(c) \/ StartAttempt(c) \/ SaveTransition(c)
      PROVE  FALSE
  BY <1>3, <1>4, AcceptedEffect, ImmediateEffect, StartEffect, SaveEffect DEF StagePoints
<1>5. ASSUME NEW c \in Controllers, CompleteAttempt(c) PROVE FALSE
  <2>1. Alone(c) /\ (Current(c).phase = "REPORTING" => pc'[c] = "publish")
        /\ Current(c)'.phase = Current(c).phase
    BY <1>5, CompleteEffect
  <2>2. d = c
    BY <1>0, <2>1 DEF Alone
  <2> QED
    BY <1>0, <2>1, <2>2 DEF Accepted, StagePoints, Current
<1>6. ASSUME NEW c \in Controllers, Stage(c)
      PROVE  (SourceVerified /\ SourceReviewed /\ CurrentSource = Current(d).before)'
  <2>1. d = c
    BY <1>0, <1>6, StageEffect DEF Alone
  <2> QED
    BY <1>6, <2>1, StageApproves, ApprovalStays
<1>7. CASE Edit \/ UNCHANGED vars
  BY <1>1, <1>7 DEF Edit, vars, Accepted, Current
<1> QED
  BY <1>2, <1>4, <1>5, <1>6, <1>7, NextCases

LEMMA ContractInvariant == Spec /\ []FreshResumes => []ContractInv
BY InitContract, NextContract, BaseInvariant, SyncInvariant, PTL DEF Spec

-----------------------------------------------------------------------------
(* Every step of the lifecycle is a step of the contract, or none *)

LEMMA InitImplements == Init => Contract!Init
BY DEF Init, Contract!Init, CurrentSource, SourceVerified, SourceReviewed, NewRun,
       TerminalStates

\* A step that moves an attempt belongs to a run without an outcome, but for the one
\* that completes the reporting attempt.
LEMMA AttemptImplements ==
    ASSUME BaseInv, TypeOK', SyncInv, EvidenceInv, NEW c \in Controllers,
           StartAttempt(c) \/ Stage(c) \/ CompleteAttempt(c)
    PROVE  [Contract!Next]_(Contract!contract)
<1>0. TypeOK
  BY DEF BaseInv
<1>1. ASSUME NEW phase \in AttemptPhase PROVE phase \notin TerminalStates
  BY DEF AttemptPhase, WritablePhases, ReadOnlyPhases, TerminalStates
<1>2. CASE StartAttempt(c)
  <2>1. Moves(Len(ledger) + 1, mem[c].state)
    BY <1>2, StartMoves
  <2>2. mem[c].state \in AttemptPhase /\ mem[c] = disk /\ UNCHANGED disk
    BY <1>2, StartEffect DEF SyncInv
  <2> QED
    BY <1>0, <1>1, <2>1, <2>2, MovesImplement
<1>3. CASE Stage(c) \/ CompleteAttempt(c)
  <2>1. Moves(Len(ledger), Current(c).phase)
    BY <1>3, StageMoves
  <2>2. /\ UNCHANGED disk /\ att[c] \in DOMAIN ledger /\ pc[c] \in StagePoints
        /\ \/ mem[c] = disk
           \/ Current(c).phase = "REPORTING" /\ UNCHANGED patch
    BY <1>3, StageEffect, CompleteEffect DEF SyncInv, StagePoints
  <2>3. Current(c).phase = mem[c].state /\ Current(c).phase \in AttemptPhase
    BY <1>0, <2>2, RecordsTyped DEF BaseInv, FrameInv, Current, AttemptRecord
  <2>4. disk.state \notin TerminalStates \/ (Current(c).phase = "REPORTING" /\ UNCHANGED patch)
    BY <1>1, <2>2, <2>3
  <2> QED
    BY <1>0, <2>1, <2>2, <2>3, <2>4, MovesImplement
<1> QED
  BY <1>2, <1>3

\* The record turns READY_FOR_HUMAN when the patch is of the approved source.
LEMMA DeliveredSource ==
    ASSUME BaseInv, SyncInv, PatchInv, ContractInv, edits <= 1, NEW c \in Controllers,
           SaveTransition(c), disk'.state = "READY_FOR_HUMAN"
    PROVE  SourceVerified /\ SourceReviewed /\ patch = CurrentSource
<1>0. TypeOK /\ edits \in Nat
  BY DEF BaseInv, TypeOK
<1>1. /\ pc[c] = "save" /\ mem[c].state = Current(c).phase /\ mem[c].state \in AttemptPhase
      /\ Decided(c).state = "READY_FOR_HUMAN"
  BY SaveEffect
<1>2. Current(c).phase = "REPORTING" /\ decision[c].outcome = "COMPLETED"
  BY <1>0, <1>1, ReadyNeedsReporting
<1>3. SourceVerified /\ SourceReviewed /\ CurrentSource = Current(c).before
  BY <1>1, <1>2 DEF ContractInv, Accepted, StagePoints, Current
<1>4. patch = Current(c).before
  BY <1>0, <1>1, <1>2 DEF PatchInv, PatchOf
<1> QED
  BY <1>3, <1>4

\* The other steps leave attempts and patch alone: what they do to the run record is a
\* delivery, an end without one, or nothing.
LEMMA RecordImplements ==
    ASSUME BaseInv, SyncInv, PatchInv, ContractInv, edits <= 1, [Next]_vars,
           UNCHANGED <<ledger, patch>>,
           disk'.state = "READY_FOR_HUMAN" /\ disk' # disk =>
              \E c \in Controllers : SaveTransition(c)
    PROVE  [Contract!Next]_(Contract!contract)
<1>1. /\ CurrentSource' = CurrentSource
      /\ SourceVerified' = SourceVerified /\ SourceReviewed' = SourceReviewed
  BY ApprovalStays
<1>2. CASE disk' = disk
  BY <1>1, <1>2 DEF Contract!contract
<1>3. CASE disk' # disk
  <2>1. LegalTransition(disk.state, disk'.state)
    BY <1>3, LegalStep
  <2>2. disk.state \notin TerminalStates
    BY <2>1 DEF LegalTransition, ForwardTransitions, TerminalStates
  <2>3. CASE disk'.state \notin TerminalStates
    BY <1>1, <2>2, <2>3 DEF Contract!contract, TerminalStates
  <2>4. CASE disk'.state \in {"HUMAN_REQUIRED", "FAILED"}
    <3>1. Contract!GiveUp
      BY <1>1, <2>2, <2>4 DEF Contract!GiveUp, TerminalStates
    <3> QED
      BY <2>2, <3>1 DEF Contract!Next
  <2>5. CASE disk'.state = "READY_FOR_HUMAN"
    <3>1. SourceVerified /\ SourceReviewed /\ patch = CurrentSource
      BY <1>3, <2>5, DeliveredSource
    <3>2. Contract!Deliver
      BY <1>1, <2>2, <2>5, <3>1 DEF Contract!Deliver, TerminalStates
    <3> QED
      BY <2>2, <3>2 DEF Contract!Next
  <2> QED
    BY <2>3, <2>4, <2>5 DEF TerminalStates
<1> QED
  BY <1>2, <1>3

LEMMA StepImplements ==
    ASSUME BaseInv, TypeOK', SyncInv, EvidenceInv, PatchInv, ContractInv, edits <= 1,
           [Next]_vars
    PROVE  [Contract!Next]_(Contract!contract)
<1>1. ASSUME NEW c \in Controllers, StartAttempt(c) \/ Stage(c) \/ CompleteAttempt(c)
      PROVE  [Contract!Next]_(Contract!contract)
  BY <1>1, AttemptImplements
<1>2. ASSUME NEW c \in Controllers,
             \/ OutsideStages(c) \/ ResumeAccepted(c) \/ ImmediateTransition(c)
             \/ SaveTransition(c)
      PROVE  [Contract!Next]_(Contract!contract)
  <2>1. UNCHANGED patch
    BY <1>2, OutsideEffect, AcceptedEffect, ImmediateEffect, SaveEffect
  <2>2. UNCHANGED ledger
    BY <1>2, LogStays
  <2>3. disk'.state = "READY_FOR_HUMAN" /\ disk' # disk => SaveTransition(c)
    BY <1>2, OutsideEffect, AcceptedEffect, ImmediateEffect DEF ImmediateTarget
  <2> QED
    BY <2>1, <2>2, <2>3, RecordImplements
<1>3. CASE Edit \/ UNCHANGED vars
  <2>1. UNCHANGED <<ledger, patch, disk>>
    BY <1>3 DEF Edit, vars
  <2> QED
    BY <2>1, RecordImplements
<1> QED
  BY <1>1, <1>2, <1>3, NextCases

\* A run whose resumes act on the record on disk, with at most one write to the
\* repository from outside, implements the ticket contract, through any number of
\* controllers, crashes and correction rounds: what is delivered is the current source,
\* verified and then reviewed, and an outcome is final (_drive_lifecycle).
THEOREM FreshRunsImplementContract ==
    Spec /\ []FreshResumes /\ [](edits <= 1) => ContractImplemented
<1>1. /\ BaseInv /\ TypeOK' /\ SyncInv /\ EvidenceInv /\ PatchInv /\ ContractInv
      /\ edits <= 1 /\ [Next]_vars
      => [Contract!Next]_(Contract!contract)
  BY StepImplements
<1>2. BaseInv => TypeOK
  BY DEF BaseInv
<1> QED
  BY <1>1, <1>2, InitImplements, BaseInvariant, SyncInvariant, EvidenceInvariant,
     PatchInvariant, ContractInvariant, PTL DEF Spec, ContractImplemented, Contract!Spec

\* The bound on outside writes is one.
EditsInv == edits <= MaxEdits

\* Without assumptions on what resumes find: a run driven by one controller, which may
\* crash and be resumed at will, with at most one write from outside.
THEOREM OneControllerImplementsContract ==
    ASSUME Controllers = {Creator}, MaxEdits <= 1
    PROVE  Spec => ContractImplemented
<1>1. Init => EditsInv
  BY BoundsAssumption DEF Init, EditsInv
<1>2. TypeOK /\ EditsInv /\ [Next]_vars => EditsInv'
  <2> SUFFICES ASSUME TypeOK, EditsInv, [Next]_vars PROVE EditsInv'
    OBVIOUS
  <2>1. CASE Edit
    BY <2>1, BoundsAssumption DEF Edit, TypeOK, EditsInv
  <2>2. ASSUME NEW c \in Controllers, StageRaises(c) \/ Stage(c) PROVE UNCHANGED edits
    BY <2>2, StageIsStep DEF StageRaises, StageStep, budgets
  <2>3. ASSUME NEW c \in Controllers,
               LoadRecord(c) \/ Resume(c) \/ Drive(c) \/ InvocationWrites(c) \/ Crash(c)
        PROVE  UNCHANGED edits
    BY <2>2, <2>3 DEF LoadRecord, Resume, AcquireLock, LockBusy, ResumeTerminal,
          ResumeAccepted, ResumeRefused, Drive, ImmediateTransition, StartAttempt,
          CompleteAttempt, SaveTransition, RecordFailure, PublishReport, ReleaseLock,
          ResumeRaises, RecordFailureRaises, InvocationWrites, Crash, budgets
  <2> QED
    BY <2>1, <2>3 DEF Next, vars, EditsInv
<1>3. TypeOK /\ EditsInv => edits <= 1
  BY BoundsAssumption DEF TypeOK, EditsInv
<1>4. Spec => []FreshResumes
  BY OneControllerIsFresh
<1> QED
  BY <1>1, <1>2, <1>3, <1>4, FreshRunsImplementContract, LifecycleTypeCorrect, PTL DEF Spec
=============================================================================
