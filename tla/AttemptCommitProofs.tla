------------------------ MODULE AttemptCommitProofs ------------------------
(***************************************************************************)
(* Two threads write one attempt record.  The invariant says what each of  *)
(* them may have read before the other wrote, why the check inside the     *)
(* fence turns away a write that would lose something, and what is on      *)
(* record when the controller found no error.                              *)
(***************************************************************************)
EXTENDS AttemptCommit, TLAPS

-----------------------------------------------------------------------------
(* The invariant *)

C == "controller"
R == "recorder"

\* A thread that has read the record it replaces, and one that has not yet replaced it.
Busy(t) == step[t] \in {"asked", "prepared", "fenced", "checked", "replaced"}
Writing(t) == step[t] \in {"asked", "prepared", "fenced", "checked"}

\* No recorder was ever started.
Absent == point[R] = "absent"

\* What a thread is about to write adds to an open record and takes nothing away, and the
\* record it checked inside the fence is still the one on disk.
CommitInv ==
    /\ tracker.status = "STARTED"
    /\ point[C] = "finishing" => step[C] # "reading"
    /\ \A t \in Threads :
          /\ step[t] = "checked" => record = base[t]
          /\ Writing(t) =>
                /\ base[t].status = "STARTED"
                /\ base[t].execution => change[t].execution
                /\ base[t].after = "fingerprint" => change[t].after = "fingerprint"
          /\ Busy(t) /\ point[t] # "finishing" => change[t].status = "STARTED"

\* The capture after the invocation is not on record before it is recorded.
Uncaptured ==
    \/ point[C] \notin {"recording", "judge", "judged", "finishing", "final", "failed"}
    \/ point[C] = "recording" /\ step[C] # "replaced"
CaptureInv ==
    /\ Uncaptured =>
          /\ record.after = "none" /\ tracker.after = "none"
          /\ \A t \in Threads : Busy(t) /\ point[t] # "recording" => change[t].after = "none"
    /\ point[C] = "recording" /\ Busy(C) => change[C].after = capture

\* Without a recorder no start is on record.
AbsentInv ==
    Absent =>
       /\ ~marked /\ answer # "STARTED" /\ ~fed /\ ~reported /\ ~seen[C]
       /\ ~record.started /\ ~tracker.started
       /\ Busy(C) => ~change[C].started
       /\ point[C] \notin {"notifying", "running", "starting"}

\* The controller cannot overlook the start: the executor answered, or the prompt was given.
Known == ~Absent /\ (~raised \/ fed)
Answered == point[C] \notin {"executing", "notifying", "running"}
StartInv ==
    /\ point[R] = "saving" => marked /\ seen[R] /\ (Busy(R) => change[R].started)
    /\ ~Absent /\ ~raised /\ Answered => answer = "STARTED"
    /\ Known /\ Answered /\ point[C] # "answered" => marked
    /\ Known =>
          /\ point[C] \in {"starting", "describing", "recording"} => seen[C]
          /\ Busy(C) => change[C].started
          /\ point[C] \in {"judged", "finishing", "final", "failed"} => reported

\* The recorder ends before the prompt with the start on record, or with an error.
PromptInv ==
    /\ fed => marked /\ point[R] = "done" /\ PromptAfterRecord
    /\ point[C] \in {"executing", "notifying"} => ~fed /\ ~cancelled /\ ~raised
    /\ point[C] = "notifying" =>
          /\ point[R] \in {"ready", "called"} => ~marked
          /\ step[R] = "replaced" => record.started
          /\ point[R] = "done" => marked /\ (record.started \/ errors)

\* What the controller wrote without an error is on record.
Described == record.execution /\ (record.started <=> ~Absent)
CleanInv ==
    /\ point[C] = "describing" /\ Busy(C) => change[C].execution
    /\ point[C] = "describing" /\ step[C] = "replaced" /\ ~raised => Described
    /\ point[C] \in {"audit", "recording", "judge"} /\ ~raised /\ ~errors => Described
    /\ point[C] = "recording" /\ step[C] = "replaced" /\ capture = "fingerprint" =>
          record.after = "fingerprint"
    /\ point[C] = "judge" /\ ~errors /\ capture = "fingerprint" => record.after = "fingerprint"
    /\ clean =>
          /\ point[C] \in {"judged", "finishing", "final", "failed"} /\ ~raised
          /\ CleanMeansRecorded

-----------------------------------------------------------------------------
(* The steps *)

\* How a thread gets on with its update without writing: the record it checked is the one
\* on disk, and only one thread is inside the fence.
Advance(t) ==
    /\ UNCHANGED <<record, base, change, seen, point, audit, run>>
    /\ \/ step[t] = "asked" /\ step' = [step EXCEPT ![t] = "prepared"] /\ UNCHANGED fence
       \/ step[t] = "prepared" /\ step' = [step EXCEPT ![t] = "fenced"]
          /\ fence = "nobody" /\ fence' = t
       \/ step[t] = "fenced" /\ step' = [step EXCEPT ![t] = "checked"] /\ UNCHANGED fence
          /\ record = base[t]

\* An update that raises, at any of its steps.
Raises(t) == Busy(t) /\ UpdateRaises(t)

\* What either thread may do in update_attempt and save_attempt.
UpdateSteps(t) == Ask(t) \/ Advance(t) \/ Replace(t) \/ Return(t) \/ Raises(t)

LEMMA UpdatesAre == ASSUME NEW t \in Threads PROVE Update(t) \/ FileSystemFails(t) => UpdateSteps(t)
<1>1. EarlyCheck(t) => Advance(t) \/ Raises(t)
  BY DEF EarlyCheck, AsExpected, Pass, Advance, Raises, Busy
<1>2. EnterFence(t) => Advance(t)
  BY DEF EnterFence, Pass, Advance
<1>3. CheckInFence(t) => Advance(t) \/ Raises(t)
  BY DEF CheckInFence, AsExpected, Pass, Advance, Raises, Busy
<1>4. FileSystemFails(t) => Raises(t)
  BY DEF FileSystemFails, Raises, Busy
<1> QED
  BY <1>1, <1>2, <1>3, <1>4 DEF Update, InFence, UpdateSteps

\* The steps of the two threads outside their updates.
ControllerSteps ==
    \/ Launch \/ RefuseLaunch \/ Notified \/ NotificationTimesOut \/ InvocationEnds
    \/ ExecutorRaises \/ RecordStarted \/ WriteEvidence \/ EvidenceRaises
    \/ RecordAfter \/ Judge \/ CompleteStageAttempt

LEMMA StepsAre ==
    [Next]_vars =>
       \/ \E t \in Threads : UpdateSteps(t)
       \/ ObserverRuns \/ MarkStarted
       \/ ControllerSteps
       \/ UNCHANGED vars
<1>1. C \in Threads /\ R \in Threads /\ C = "controller" /\ R = "recorder"
  BY DEF C, R, Threads
<1> QED
  BY <1>1, UpdatesAre DEF Next, Recorder, Controller, ControllerSteps

\* An update of a record is a record, and keeps what was there.
LEMMA UpdatedIs ==
    ASSUME NEW old \in Records, NEW p, NEW started \in BOOLEAN, capture \in Captures
    PROVE  LET new == Updated(old, p, started)
           IN  /\ new \in Records
               /\ new.status = old.status /\ new.started = started
               /\ old.execution => new.execution
               /\ p = "describing" => new.execution
               /\ new.after = IF p = "recording" THEN capture ELSE old.after
<1> DEFINE new == Updated(old, p, started)
<1>1. (old.execution \/ p = "describing") \in BOOLEAN
  OBVIOUS
<1>2. new = [[[old EXCEPT !.started = started]
                     EXCEPT !.execution = old.execution \/ p = "describing"]
                     EXCEPT !.after = IF p = "recording" THEN capture ELSE old.after]
  BY DEF Updated, Records
<1> HIDE DEF new
<1>3. new \in Records
  BY <1>1, <1>2 DEF Records, Captures
<1>4. new.execution = (old.execution \/ p = "describing")
  BY <1>2 DEF Records
<1>5. /\ new.status = old.status /\ new.started = started
      /\ new.after = IF p = "recording" THEN capture ELSE old.after
  BY <1>2 DEF Records
<1>6. (old.execution => new.execution) /\ (p = "describing" => new.execution)
  BY <1>4
<1> QED
  BY <1>3, <1>5, <1>6 DEF new

\* So does its completion.
LEMMA CompletedIs ==
    ASSUME NEW old \in Records, reported \in BOOLEAN, evidence \in BOOLEAN, capture \in Captures
    PROVE  LET new == Completed(old)
           IN  /\ new \in Records
               /\ new.started = reported
               /\ old.execution => new.execution
               /\ old.after = "fingerprint" => new.after = "fingerprint"
<1> DEFINE new == Completed(old)
<1>1. (evidence \/ old.execution) \in BOOLEAN
  OBVIOUS
<1>2. new = [status |-> "FINAL", started |-> reported,
             execution |-> evidence \/ old.execution,
             after |-> IF "fingerprint" \in {capture, old.after} THEN "fingerprint" ELSE "none"]
  BY DEF Completed
<1> HIDE DEF new
<1>3. new \in Records
  BY <1>1, <1>2 DEF Records, Captures
<1>4. new.execution = (evidence \/ old.execution)
  BY <1>2
<1>5. new.started = reported /\ (old.after = "fingerprint" => new.after = "fingerprint")
  BY <1>2
<1>6. old.execution => new.execution
  BY <1>4
<1> QED
  BY <1>3, <1>5, <1>6 DEF new

-----------------------------------------------------------------------------
(* Types *)

Steps == {"idle", "reading", "asked", "prepared", "fenced", "checked", "replaced"}

\* The flags, the records, and where the threads are.
FlagTypes ==
    /\ cancelled \in BOOLEAN /\ marked \in BOOLEAN /\ errors \in BOOLEAN /\ fed \in BOOLEAN
    /\ raised \in BOOLEAN /\ evidence \in BOOLEAN /\ reported \in BOOLEAN /\ clean \in BOOLEAN
    /\ seen \in [Threads -> BOOLEAN]
RecordTypes ==
    /\ record \in Records /\ tracker \in Records
    /\ base \in [Threads -> Records] /\ change \in [Threads -> Records]
    /\ answer \in {"none", "STARTED", "NOT_STARTED"} /\ capture \in Captures
PlaceTypes ==
    /\ step \in [Threads -> Steps]
    /\ point \in [Threads -> RecorderPoints \cup ControllerPoints]
    /\ point[R] \in RecorderPoints /\ point[C] \in ControllerPoints
    /\ point[C] = "executing" => Absent
    /\ step[R] # "idle" <=> point[R] = "saving"
    /\ step[C] # "idle" <=> point[C] \in {"starting", "describing", "recording", "finishing"}
FenceTypes ==
    /\ fence \in Threads \cup {"nobody"}
    /\ \A t \in Threads : fence = t <=> step[t] \in {"fenced", "checked"}

Types == FlagTypes /\ RecordTypes /\ PlaceTypes /\ FenceTypes

LEMMA ThreadsAre == Threads = {R, C} /\ R = "recorder" /\ C = "controller"
BY DEF Threads, R, C

LEMMA FollowingIs ==
    /\ DOMAIN Following = {"saving", "starting", "describing", "recording", "finishing"}
    /\ Following["saving"] = "done" /\ Following["starting"] = "returned"
    /\ Following["describing"] = "audit" /\ Following["recording"] = "judge"
    /\ Following["finishing"] = "final"
BY DEF Following

LEMMA TypesSuffice == Types => TypeOK
<1> SUFFICES ASSUME Types PROVE TypeOK
  OBVIOUS
<1>1. \A t \in Threads : step[t] # "idle" <=> point[t] \in DOMAIN Following
  BY FollowingIs, ThreadsAre DEF Types, PlaceTypes, RecorderPoints, ControllerPoints
<1>2. {cancelled, marked, errors, fed, raised, evidence, reported, clean} \subseteq BOOLEAN
  BY DEF Types, FlagTypes
<1> QED
  BY <1>1, <1>2, ThreadsAre DEF Types, FlagTypes, RecordTypes, PlaceTypes, FenceTypes, TypeOK,
     Steps

LEMMA InitTypes == Init => Types
<1> SUFFICES ASSUME Init PROVE Types
  OBVIOUS
<1> USE ThreadsAre DEF Init, Absent
<1>1. NewRecord \in Records
  BY DEF NewRecord, Records, Captures
<1>2. FlagTypes
  BY DEF FlagTypes
<1>3. RecordTypes
  BY <1>1 DEF RecordTypes, Captures
<1>4. PlaceTypes /\ FenceTypes
  BY DEF PlaceTypes, FenceTypes, Steps, RecorderPoints, ControllerPoints
<1> QED
  BY <1>2, <1>3, <1>4 DEF Types

\* A step of an update, by what it leaves alone and where it goes.
LEMMA UpdateKeepsTypes ==
    ASSUME Types, NEW t \in Threads, UpdateSteps(t)
    PROVE  Types'
<1> USE ThreadsAre DEF save, audit, run, Absent
<1>1. CASE Ask(t)
  <2>1. Updated(tracker, point[t], seen[t]) \in Records
    BY UpdatedIs DEF Types, FlagTypes, RecordTypes
  <2>2. FlagTypes'
    BY <1>1 DEF Ask, Types, FlagTypes
  <2>3. RecordTypes'
    BY <1>1, <2>1 DEF Ask, Types, RecordTypes
  <2>4. PlaceTypes' /\ FenceTypes'
    BY <1>1 DEF Ask, Types, PlaceTypes, FenceTypes, Steps
  <2> QED
    BY <2>2, <2>3, <2>4 DEF Types
<1>2. CASE Advance(t)
  <2>1. FlagTypes' /\ RecordTypes'
    BY <1>2 DEF Advance, Types, FlagTypes, RecordTypes
  <2>2. PlaceTypes' /\ FenceTypes'
    BY <1>2 DEF Advance, Types, PlaceTypes, FenceTypes, Steps
  <2> QED
    BY <2>1, <2>2 DEF Types
<1>3. CASE Replace(t)
  <2>1. FlagTypes' /\ RecordTypes'
    BY <1>3 DEF Replace, Pass, Types, FlagTypes, RecordTypes
  <2>2. PlaceTypes' /\ FenceTypes'
    BY <1>3 DEF Replace, Pass, Types, PlaceTypes, FenceTypes, Steps
  <2> QED
    BY <2>1, <2>2 DEF Types
<1>4. CASE Return(t)
  <2>1. FlagTypes'
    BY <1>4 DEF Return, Types, FlagTypes
  <2>2. RecordTypes'
    BY <1>4 DEF Return, Types, RecordTypes
  <2>3. PlaceTypes'
    BY <1>4, FollowingIs DEF Return, Goto, Types, PlaceTypes, Steps, RecorderPoints,
       ControllerPoints
  <2>4. FenceTypes'
    BY <1>4 DEF Return, Types, PlaceTypes, FenceTypes
  <2> QED
    BY <2>1, <2>2, <2>3, <2>4 DEF Types
<1>5. CASE Raises(t)
  <2>1. FlagTypes' /\ RecordTypes'
    BY <1>5 DEF Raises, UpdateRaises, Types, FlagTypes, RecordTypes
  <2>2. PlaceTypes'
    BY <1>5, FollowingIs DEF Raises, Busy, UpdateRaises, Goto, Types, PlaceTypes, Steps,
       RecorderPoints, ControllerPoints
  <2>3. FenceTypes'
    BY <1>5 DEF Raises, UpdateRaises, Types, PlaceTypes, FenceTypes
  <2> QED
    BY <2>1, <2>2, <2>3 DEF Types
<1> QED
  BY <1>1, <1>2, <1>3, <1>4, <1>5 DEF UpdateSteps

\* The other steps of the two threads keep the types.
LEMMA NextTypes == Types /\ [Next]_vars => Types'
<1> SUFFICES ASSUME Types, [Next]_vars PROVE Types'
  OBVIOUS
<1> USE ThreadsAre DEF save, audit, run, Goto, At, Absent
<1>1. ASSUME NEW t \in Threads, UpdateSteps(t) PROVE Types'
  BY <1>1, UpdateKeepsTypes
<1>2. FlagTypes' \/ \E t \in Threads : UpdateSteps(t)
  <2>1. CASE ObserverRuns \/ MarkStarted
    BY <2>1 DEF ObserverRuns, MarkStarted, Begin, Types, FlagTypes
  <2>2. CASE Launch \/ RefuseLaunch \/ Notified \/ NotificationTimesOut \/ InvocationEnds
    BY <2>2 DEF Launch, RefuseLaunch, Notified, NotificationTimesOut, InvocationEnds, Types,
       FlagTypes
  <2>3. CASE ExecutorRaises \/ EvidenceRaises
    BY <2>3 DEF ExecutorRaises, EvidenceRaises, Types, FlagTypes
  <2>4. CASE RecordStarted
    <3>1. marked' \in BOOLEAN
      BY <2>4 DEF RecordStarted, Types, FlagTypes
    <3> QED
      BY <2>4, <3>1 DEF RecordStarted, Begin, Types, FlagTypes
  <2>5. CASE WriteEvidence \/ RecordAfter
    BY <2>5 DEF WriteEvidence, RecordAfter, Begin, Types, FlagTypes
  <2>6. CASE Judge
    <3>1. reported' \in BOOLEAN /\ clean' \in BOOLEAN
      BY <2>6 DEF Judge
    <3> QED
      BY <2>6, <3>1 DEF Judge, Types, FlagTypes
  <2>7. CASE CompleteStageAttempt
    BY <2>7 DEF CompleteStageAttempt, Types, FlagTypes
  <2>8. CASE UNCHANGED vars
    BY <2>8 DEF vars, Types, FlagTypes
  <2> QED
    BY <2>1, <2>2, <2>3, <2>4, <2>5, <2>6, <2>7, <2>8, StepsAre DEF ControllerSteps
<1>3. RecordTypes' \/ \E t \in Threads : UpdateSteps(t)
  <2>1. CASE CompleteStageAttempt
    <3>1. Completed(record) \in Records
      BY CompletedIs DEF Types, FlagTypes, RecordTypes
    <3> QED
      BY <2>1, <3>1 DEF CompleteStageAttempt, Types, RecordTypes
  <2>2. CASE ObserverRuns \/ MarkStarted \/ RecordStarted \/ WriteEvidence
    BY <2>2 DEF ObserverRuns, MarkStarted, RecordStarted, WriteEvidence, Begin, Types,
       RecordTypes
  <2>3. CASE RecordAfter
    BY <2>3 DEF RecordAfter, Begin, Types, RecordTypes, Captures
  <2>4. CASE Launch \/ RefuseLaunch \/ Notified \/ NotificationTimesOut \/ InvocationEnds
             \/ ExecutorRaises \/ EvidenceRaises \/ Judge
    BY <2>4 DEF Launch, RefuseLaunch, Notified, NotificationTimesOut, InvocationEnds,
       ExecutorRaises, EvidenceRaises, Judge, Types, RecordTypes
  <2>5. CASE UNCHANGED vars
    BY <2>5 DEF vars, Types, RecordTypes
  <2> QED
    BY <2>1, <2>2, <2>3, <2>4, <2>5, StepsAre DEF ControllerSteps
<1>4. (PlaceTypes' /\ FenceTypes') \/ \E t \in Threads : UpdateSteps(t)
  <2> USE DEF Types, PlaceTypes, FenceTypes, Steps, RecorderPoints, ControllerPoints
  <2>1. CASE ObserverRuns
    BY <2>1 DEF ObserverRuns
  <2>2. CASE MarkStarted
    BY <2>2 DEF MarkStarted, Begin
  <2>3. CASE Launch
    <3>1. /\ point' \in [Threads -> RecorderPoints \cup ControllerPoints]
          /\ point'[R] = "ready" /\ point'[C] = "notifying"
      BY <2>3 DEF Launch
    <3>2. step[R] = "idle" /\ step[C] = "idle" /\ UNCHANGED <<step, fence>>
      BY <2>3 DEF Launch
    <3> QED
      BY <3>1, <3>2
  <2>10. CASE RefuseLaunch
    BY <2>10 DEF RefuseLaunch
  <2>4. CASE Notified \/ NotificationTimesOut \/ InvocationEnds
    BY <2>4 DEF Notified, NotificationTimesOut, InvocationEnds
  <2>5. CASE ExecutorRaises
    BY <2>5 DEF ExecutorRaises
  <2>11. CASE EvidenceRaises \/ Judge
    BY <2>11 DEF EvidenceRaises, Judge
  <2>6. CASE RecordStarted
    BY <2>6 DEF RecordStarted, Begin
  <2>7. CASE WriteEvidence \/ RecordAfter
    BY <2>7 DEF WriteEvidence, RecordAfter, Begin
  <2>8. CASE CompleteStageAttempt
    BY <2>8 DEF CompleteStageAttempt
  <2>9. CASE UNCHANGED vars
    BY <2>9 DEF vars
  <2> QED
    BY <2>1, <2>2, <2>3, <2>4, <2>5, <2>6, <2>7, <2>8, <2>9, <2>10, <2>11,
       StepsAre DEF ControllerSteps
<1> QED
  BY <1>1, <1>2, <1>3, <1>4 DEF Types

-----------------------------------------------------------------------------
(* The invariant holds *)

IInv ==
    Types /\ CommitInv /\ CaptureInv /\ AbsentInv /\ StartInv /\ PromptInv /\ CleanInv

LEMMA InitInvariant == Init => IInv
<1> SUFFICES ASSUME Init PROVE IInv
  OBVIOUS
<1> USE ThreadsAre DEF Init, NewRecord, Busy, Writing, Absent
<1>1. Types
  BY InitTypes
<1>2. CommitInv /\ CaptureInv
  BY DEF CommitInv, CaptureInv, Uncaptured
<1>3. AbsentInv /\ StartInv
  BY DEF AbsentInv, StartInv, Known, Answered
<1>4. PromptInv /\ CleanInv
  BY DEF PromptInv, CleanInv, Described, CleanMeansRecorded, PromptAfterRecord
<1> QED
  BY <1>1, <1>2, <1>3, <1>4 DEF IInv

\* The launch, thread by thread.
LEMMA LaunchIs ==
    Launch => /\ point[C] = "executing" /\ step[C] = "idle"
              /\ point'[R] = "ready" /\ point'[C] = "notifying"
              /\ UNCHANGED <<record, fence, step, base, change, seen, tracker, marked, errors,
                             capture, reported, clean, cancelled, fed, answer, raised, evidence>>
BY ThreadsAre DEF Launch, At, save, audit, run

\* The controller outside its updates writes nothing.
LEMMA OutsideIs ==
    ASSUME PlaceTypes,
           \/ RefuseLaunch \/ Notified \/ NotificationTimesOut \/ InvocationEnds
           \/ ExecutorRaises \/ EvidenceRaises \/ Judge
    PROVE  /\ UNCHANGED <<record, fence, step, base, change, seen, tracker, marked, errors,
                       capture>>
           /\ step[C] = "idle" /\ point'[R] = point[R]
<1> USE ThreadsAre DEF PlaceTypes, At, Goto, save, audit, run
<1>1. CASE RefuseLaunch \/ Notified \/ NotificationTimesOut
  BY <1>1 DEF RefuseLaunch, Notified, NotificationTimesOut
<1>2. CASE InvocationEnds \/ ExecutorRaises
  BY <1>2 DEF InvocationEnds, ExecutorRaises
<1>3. CASE EvidenceRaises \/ Judge
  BY <1>3 DEF EvidenceRaises, Judge
<1> QED
  BY <1>1, <1>2, <1>3

LEMMA NextCommit == IInv /\ [Next]_vars => CommitInv'
<1> SUFFICES ASSUME IInv, [Next]_vars PROVE CommitInv'
  OBVIOUS
<1> USE ThreadsAre DEF save, audit, run, Goto, At, Busy, Writing
<1>0. Types /\ CommitInv /\ RecordTypes /\ PlaceTypes /\ FenceTypes /\ FlagTypes
  BY DEF IInv, Types
<1>1. ASSUME NEW t \in Threads, Ask(t) PROVE CommitInv'
  <2>1. /\ Updated(tracker, point[t], seen[t]).status = "STARTED"
        /\ tracker.execution => Updated(tracker, point[t], seen[t]).execution
        /\ Updated(tracker, point[t], seen[t]).after
              = IF point[t] = "recording" THEN capture ELSE tracker.after
    BY <1>0, UpdatedIs DEF FlagTypes, RecordTypes, CommitInv
  <2>2. point[t] = "recording" => tracker.after = "none"
    BY <1>0, <1>1 DEF IInv, CaptureInv, Uncaptured, Ask, PlaceTypes, RecorderPoints
  <2> HIDE DEF Busy, Writing
  <2>3. /\ base'[t] = tracker /\ change'[t] = Updated(tracker, point[t], seen[t])
        /\ step'[t] = "asked" /\ UNCHANGED <<record, tracker, point>>
        /\ \A u \in Threads : u # t => /\ base'[u] = base[u] /\ change'[u] = change[u]
                                       /\ step'[u] = step[u]
    BY <1>0, <1>1 DEF Ask, RecordTypes, PlaceTypes
  <2> QED
    BY <1>0, <2>1, <2>2, <2>3 DEF CommitInv, Busy, Writing
<1>2. ASSUME NEW t \in Threads, Advance(t) PROVE CommitInv'
  BY <1>0, <1>2 DEF Advance, CommitInv, PlaceTypes
<1>3. ASSUME NEW t \in Threads, Replace(t) PROVE CommitInv'
  BY <1>0, <1>3 DEF Replace, Pass, CommitInv, PlaceTypes, FenceTypes
<1>4. ASSUME NEW t \in Threads, Return(t) PROVE CommitInv'
  BY <1>0, <1>4, FollowingIs DEF Return, CommitInv, PlaceTypes
<1>5. ASSUME NEW t \in Threads, Raises(t) PROVE CommitInv'
  BY <1>0, <1>5, FollowingIs DEF Raises, UpdateRaises, CommitInv, PlaceTypes
<1>6. ObserverRuns \/ MarkStarted => CommitInv'
  BY <1>0 DEF ObserverRuns, MarkStarted, Begin, CommitInv, PlaceTypes
<1>7. CompleteStageAttempt => CommitInv'
  <2>1. SUFFICES ASSUME CompleteStageAttempt PROVE CommitInv'
    OBVIOUS
  <2>2. /\ record.execution => Completed(record).execution
        /\ record.after = "fingerprint" => Completed(record).after = "fingerprint"
    BY <1>0, CompletedIs DEF FlagTypes, RecordTypes
  <2>3. UNCHANGED <<record, tracker>> /\ step'[R] = step[R] /\ base'[R] = base[R]
        /\ change'[R] = change[R] /\ point'[R] = point[R]
    BY <1>0, <2>1 DEF CompleteStageAttempt, RecordTypes, PlaceTypes
  <2>4. CASE record.status = "STARTED"
    <3>1. base'[C] = record /\ change'[C] = Completed(record) /\ point'[C] = "finishing"
          /\ step'[C] = "asked"
      BY <1>0, <2>1, <2>4 DEF CompleteStageAttempt, RecordTypes, PlaceTypes
    <3> QED
      BY <1>0, <2>2, <2>3, <2>4, <3>1 DEF CommitInv
  <2>5. CASE record.status # "STARTED"
    BY <1>0, <2>1, <2>3, <2>5 DEF CompleteStageAttempt, CommitInv, PlaceTypes
  <2> QED
    BY <2>4, <2>5
<1>8. RecordStarted \/ WriteEvidence \/ RecordAfter => CommitInv'
  BY <1>0 DEF RecordStarted, WriteEvidence, RecordAfter, Begin, CommitInv, PlaceTypes
<1>11. Launch => CommitInv'
  BY <1>0, LaunchIs DEF CommitInv, PlaceTypes
<1>9. RefuseLaunch \/ Notified \/ NotificationTimesOut \/ InvocationEnds
         \/ ExecutorRaises \/ EvidenceRaises \/ Judge => CommitInv'
  BY <1>0, OutsideIs DEF CommitInv, PlaceTypes
<1>10. UNCHANGED vars => CommitInv'
  BY <1>0 DEF vars, CommitInv
<1> QED
  BY <1>1, <1>2, <1>3, <1>4, <1>5, <1>6, <1>7, <1>8, <1>9, <1>10, <1>11, StepsAre
  DEF UpdateSteps, ControllerSteps

LEMMA NextCapture == IInv /\ [Next]_vars => CaptureInv'
<1> SUFFICES ASSUME IInv, [Next]_vars PROVE CaptureInv'
  OBVIOUS
<1> USE ThreadsAre DEF save, audit, run, Goto, At, Busy
<1>0. Types /\ CaptureInv /\ RecordTypes /\ PlaceTypes /\ FlagTypes
  BY DEF IInv, Types
<1>1. ASSUME NEW t \in Threads, Ask(t) PROVE CaptureInv'
  <2>1. Updated(tracker, point[t], seen[t]).after
           = IF point[t] = "recording" THEN capture ELSE tracker.after
    BY <1>0, UpdatedIs DEF FlagTypes, RecordTypes
  <2>2. /\ change'[t] = Updated(tracker, point[t], seen[t])
        /\ step[t] = "reading" /\ step'[t] = "asked"
        /\ UNCHANGED <<record, tracker, point, capture>>
        /\ \A u \in Threads : u # t => change'[u] = change[u] /\ step'[u] = step[u]
    BY <1>0, <1>1 DEF Ask, RecordTypes, PlaceTypes
  <2> QED
    BY <1>0, <2>1, <2>2 DEF CaptureInv, Uncaptured, PlaceTypes, RecorderPoints
<1>2. ASSUME NEW t \in Threads, Advance(t) PROVE CaptureInv'
  BY <1>0, <1>2 DEF Advance, CaptureInv, Uncaptured, PlaceTypes
<1>3. ASSUME NEW t \in Threads, Replace(t) PROVE CaptureInv'
  BY <1>0, <1>3 DEF Replace, Pass, CaptureInv, Uncaptured, PlaceTypes, RecorderPoints
<1>4. ASSUME NEW t \in Threads, Return(t) PROVE CaptureInv'
  BY <1>0, <1>4, FollowingIs DEF Return, CaptureInv, Uncaptured, PlaceTypes, RecorderPoints
<1>5. ASSUME NEW t \in Threads, Raises(t) PROVE CaptureInv'
  BY <1>0, <1>5, FollowingIs DEF Raises, UpdateRaises, CaptureInv, Uncaptured, PlaceTypes,
     RecorderPoints
<1>6. ObserverRuns \/ MarkStarted => CaptureInv'
  BY <1>0 DEF ObserverRuns, MarkStarted, Begin, CaptureInv, Uncaptured, PlaceTypes
<1>7. CompleteStageAttempt => CaptureInv'
  BY <1>0 DEF CompleteStageAttempt, CaptureInv, Uncaptured, PlaceTypes
<1>8. RecordStarted \/ WriteEvidence \/ RecordAfter => CaptureInv'
  BY <1>0 DEF RecordStarted, WriteEvidence, RecordAfter, Begin, CaptureInv, Uncaptured,
     PlaceTypes
<1>9. Launch => CaptureInv'
  BY <1>0, LaunchIs DEF CaptureInv, Uncaptured, PlaceTypes
<1>10. RefuseLaunch \/ Notified \/ NotificationTimesOut \/ InvocationEnds
          \/ ExecutorRaises \/ EvidenceRaises \/ Judge => CaptureInv'
  BY <1>0 DEF RefuseLaunch, Notified, NotificationTimesOut, InvocationEnds,
     ExecutorRaises, EvidenceRaises, Judge, CaptureInv, Uncaptured, PlaceTypes
<1>11. UNCHANGED vars => CaptureInv'
  BY <1>0 DEF vars, CaptureInv, Uncaptured
<1> QED
  BY <1>1, <1>2, <1>3, <1>4, <1>5, <1>6, <1>7, <1>8, <1>9, <1>10, <1>11, StepsAre
  DEF UpdateSteps, ControllerSteps

LEMMA NextAbsent == IInv /\ [Next]_vars => AbsentInv'
<1> SUFFICES ASSUME IInv, [Next]_vars PROVE AbsentInv'
  OBVIOUS
<1> USE ThreadsAre DEF save, audit, run, Goto, At, Busy, Absent
<1>0. Types /\ AbsentInv /\ RecordTypes /\ PlaceTypes /\ FlagTypes
  BY DEF IInv, Types
<1>1. ASSUME NEW t \in Threads, Ask(t) PROVE AbsentInv'
  <2>1. Updated(tracker, point[t], seen[t]).started = seen[t]
    BY <1>0, UpdatedIs DEF FlagTypes, RecordTypes
  <2>2. /\ change'[t] = Updated(tracker, point[t], seen[t])
        /\ step[t] = "reading" /\ step'[t] = "asked"
        /\ UNCHANGED <<record, tracker, point, capture, seen, marked, answer, fed, reported>>
        /\ \A u \in Threads : u # t => change'[u] = change[u] /\ step'[u] = step[u]
    BY <1>0, <1>1 DEF Ask, RecordTypes, PlaceTypes
  <2> QED
    BY <1>0, <2>1, <2>2 DEF AbsentInv, PlaceTypes
<1>2. ASSUME NEW t \in Threads, Advance(t) PROVE AbsentInv'
  BY <1>0, <1>2 DEF Advance, AbsentInv, PlaceTypes
<1>3. ASSUME NEW t \in Threads, Replace(t) PROVE AbsentInv'
  BY <1>0, <1>3 DEF Replace, Pass, AbsentInv, PlaceTypes
<1>4. ASSUME NEW t \in Threads, Return(t) PROVE AbsentInv'
  BY <1>0, <1>4, FollowingIs DEF Return, AbsentInv, PlaceTypes
<1>5. ASSUME NEW t \in Threads, Raises(t) PROVE AbsentInv'
  BY <1>0, <1>5, FollowingIs DEF Raises, UpdateRaises, AbsentInv, PlaceTypes
<1>6. ObserverRuns \/ MarkStarted => AbsentInv'
  BY <1>0 DEF ObserverRuns, MarkStarted, Begin, AbsentInv, PlaceTypes
<1>7. CompleteStageAttempt => AbsentInv'
  <2>1. Completed(record).started = reported
    BY <1>0, CompletedIs DEF FlagTypes, RecordTypes
  <2> QED
    BY <1>0, <2>1 DEF CompleteStageAttempt, AbsentInv, PlaceTypes, RecordTypes
<1>8. RecordStarted \/ WriteEvidence \/ RecordAfter => AbsentInv'
  BY <1>0 DEF RecordStarted, WriteEvidence, RecordAfter, Begin, AbsentInv, PlaceTypes,
     FlagTypes
<1>9. Launch => AbsentInv'
  BY <1>0, LaunchIs DEF AbsentInv
<1>13. RefuseLaunch \/ Notified \/ NotificationTimesOut => AbsentInv'
  BY <1>0 DEF RefuseLaunch, Notified, NotificationTimesOut, AbsentInv, PlaceTypes
<1>10. InvocationEnds => AbsentInv'
  BY <1>0 DEF InvocationEnds, AbsentInv, PlaceTypes
<1>14. ExecutorRaises => AbsentInv'
  BY <1>0 DEF ExecutorRaises, AbsentInv, PlaceTypes
<1>15. EvidenceRaises => AbsentInv'
  BY <1>0 DEF EvidenceRaises, AbsentInv, PlaceTypes
<1>11. Judge => AbsentInv'
  <2>1. SUFFICES ASSUME Judge PROVE AbsentInv'
    OBVIOUS
  <2>2. reported' => marked \/ answer = "STARTED"
    BY <2>1 DEF Judge
  <2> QED
    BY <1>0, <2>1, <2>2 DEF Judge, AbsentInv, PlaceTypes
<1>12. UNCHANGED vars => AbsentInv'
  BY <1>0 DEF vars, AbsentInv
<1> QED
  BY <1>1, <1>2, <1>3, <1>4, <1>5, <1>6, <1>7, <1>8, <1>9, <1>10, <1>11, <1>12, <1>13, <1>14,
     <1>15, StepsAre
  DEF UpdateSteps, ControllerSteps

LEMMA NextStart == IInv /\ [Next]_vars => StartInv'
<1> SUFFICES ASSUME IInv, [Next]_vars PROVE StartInv'
  OBVIOUS
<1> USE ThreadsAre DEF save, audit, run, Goto, At, Busy, Absent, Known, Answered
<1>0. Types /\ StartInv /\ RecordTypes /\ PlaceTypes /\ FlagTypes
  BY DEF IInv, Types
<1>1. ASSUME NEW t \in Threads, Ask(t) PROVE StartInv'
  <2>1. Updated(tracker, point[t], seen[t]).started = seen[t]
    BY <1>0, UpdatedIs DEF FlagTypes, RecordTypes
  <2>2. /\ change'[t] = Updated(tracker, point[t], seen[t])
        /\ step[t] = "reading" /\ step'[t] = "asked"
        /\ UNCHANGED <<point, seen, marked, answer, fed, raised, reported>>
        /\ \A u \in Threads : u # t => change'[u] = change[u] /\ step'[u] = step[u]
    BY <1>0, <1>1 DEF Ask, RecordTypes, PlaceTypes
  <2>3. point[R] = "saving" => seen[R]
    BY <1>0 DEF StartInv
  <2>4. Known /\ t = C /\ point[C] # "finishing" => seen[C]
    BY <1>0, <2>2 DEF StartInv, PlaceTypes
  <2>5. point[C] # "finishing" \/ t # C
    BY <1>0, <1>1 DEF Ask, IInv, CommitInv
  <2> QED
    BY <1>0, <2>1, <2>2, <2>3, <2>4, <2>5 DEF StartInv, PlaceTypes
<1>2. ASSUME NEW t \in Threads, Advance(t) PROVE StartInv'
  BY <1>0, <1>2 DEF Advance, StartInv, PlaceTypes
<1>3. ASSUME NEW t \in Threads, Replace(t) PROVE StartInv'
  BY <1>0, <1>3 DEF Replace, Pass, StartInv, PlaceTypes
<1>4. ASSUME NEW t \in Threads, Return(t) PROVE StartInv'
  BY <1>0, <1>4, FollowingIs DEF Return, StartInv, PlaceTypes, RecorderPoints
<1>5. ASSUME NEW t \in Threads, Raises(t) PROVE StartInv'
  BY <1>0, <1>5, FollowingIs DEF Raises, UpdateRaises, StartInv, PlaceTypes, RecorderPoints
<1>6. ObserverRuns \/ MarkStarted => StartInv'
  BY <1>0 DEF ObserverRuns, MarkStarted, Begin, StartInv, PlaceTypes, FlagTypes
<1>7. CompleteStageAttempt => StartInv'
  <2>1. Completed(record).started = reported
    BY <1>0, CompletedIs DEF FlagTypes, RecordTypes
  <2> QED
    BY <1>0, <2>1 DEF CompleteStageAttempt, StartInv, PlaceTypes, RecordTypes
<1>8. RecordStarted => StartInv'
  <2>1. SUFFICES ASSUME RecordStarted PROVE StartInv'
    OBVIOUS
  <2>2. Known => marked'
    BY <1>0, <2>1 DEF RecordStarted, StartInv, IInv, PromptInv
  <2> QED
    BY <1>0, <2>1, <2>2 DEF RecordStarted, Begin, StartInv, PlaceTypes, FlagTypes
<1>9. WriteEvidence => StartInv'
  BY <1>0 DEF WriteEvidence, Begin, StartInv, PlaceTypes, FlagTypes
<1>10. RecordAfter => StartInv'
  BY <1>0 DEF RecordAfter, Begin, StartInv, PlaceTypes, FlagTypes
<1>11. Launch => StartInv'
  BY <1>0, LaunchIs DEF StartInv, PlaceTypes
<1>12. RefuseLaunch => StartInv'
  BY <1>0 DEF RefuseLaunch, StartInv, PlaceTypes
<1>13. Notified => StartInv'
  BY <1>0 DEF Notified, StartInv, PlaceTypes
<1>14. NotificationTimesOut \/ InvocationEnds => StartInv'
  BY <1>0 DEF NotificationTimesOut, InvocationEnds, StartInv, PlaceTypes
<1>15. ExecutorRaises => StartInv'
  <2>1. fed => marked
    BY DEF IInv, PromptInv
  <2> QED
    BY <1>0, <2>1 DEF ExecutorRaises, StartInv, PlaceTypes
<1>16. EvidenceRaises => StartInv'
  BY <1>0 DEF EvidenceRaises, StartInv, PlaceTypes
<1>17. Judge => StartInv'
  <2>1. SUFFICES ASSUME Judge PROVE StartInv'
    OBVIOUS
  <2>2. marked => reported'
    BY <2>1 DEF Judge
  <2>3. UNCHANGED <<step, seen, change, marked, answer, fed, raised>>
    BY <2>1 DEF Judge
  <2> QED
    BY <1>0, <2>1, <2>2, <2>3 DEF Judge, StartInv, PlaceTypes
<1>18. UNCHANGED vars => StartInv'
  BY <1>0 DEF vars, StartInv
<1> QED
  BY <1>1, <1>2, <1>3, <1>4, <1>5, <1>6, <1>7, <1>8, <1>9, <1>10, <1>11, <1>12, <1>13,
     <1>14, <1>15, <1>16, <1>17, <1>18, StepsAre
  DEF UpdateSteps, ControllerSteps

LEMMA NextPrompt == IInv /\ [Next]_vars => PromptInv'
<1> SUFFICES ASSUME IInv, [Next]_vars PROVE PromptInv'
  OBVIOUS
<1> USE ThreadsAre DEF save, audit, run, Goto, At, Busy, Absent, PromptAfterRecord
<1>0. Types /\ PromptInv /\ RecordTypes /\ PlaceTypes /\ FlagTypes
  BY DEF IInv, Types
<1>1. ASSUME NEW t \in Threads, Ask(t) PROVE PromptInv'
  BY <1>0, <1>1 DEF Ask, PromptInv, PlaceTypes
<1>2. ASSUME NEW t \in Threads, Advance(t) PROVE PromptInv'
  BY <1>0, <1>2 DEF Advance, PromptInv, PlaceTypes
<1>3. ASSUME NEW t \in Threads, Replace(t) PROVE PromptInv'
  <2>1. t = R => change[R].started
    BY <1>0, <1>3 DEF Replace, Pass, IInv, StartInv, PlaceTypes
  <2>2. t = C /\ fed => change[C].started
    BY <1>0, <1>3 DEF Replace, Pass, IInv, StartInv, AbsentInv, Known, PlaceTypes
  <2>3. t = C => point[C] # "notifying"
    BY <1>0, <1>3 DEF Replace, Pass, PlaceTypes
  <2> QED
    BY <1>0, <1>3, <2>1, <2>2, <2>3 DEF Replace, Pass, PromptInv, PlaceTypes
<1>4. ASSUME NEW t \in Threads, Return(t) PROVE PromptInv'
  BY <1>0, <1>4, FollowingIs DEF Return, PromptInv, PlaceTypes, RecorderPoints, IInv, StartInv
<1>5. ASSUME NEW t \in Threads, Raises(t) PROVE PromptInv'
  BY <1>0, <1>5, FollowingIs DEF Raises, UpdateRaises, PromptInv, PlaceTypes, RecorderPoints,
     IInv, StartInv
<1>6. ObserverRuns => PromptInv'
  BY <1>0 DEF ObserverRuns, PromptInv, PlaceTypes
<1>19. MarkStarted => PromptInv'
  BY <1>0 DEF MarkStarted, Begin, PromptInv, PlaceTypes
<1>7. CompleteStageAttempt => PromptInv'
  BY <1>0 DEF CompleteStageAttempt, PromptInv, PlaceTypes
<1>8. RecordStarted => PromptInv'
  <2>1. RecordStarted => (marked => marked')
    BY DEF RecordStarted
  <2>2. RecordStarted => /\ UNCHANGED <<record, errors, fed, cancelled, raised>>
                         /\ point'[R] = point[R] /\ step'[R] = step[R]
                         /\ point'[C] \in {"starting", "returned"}
    BY <1>0 DEF RecordStarted, Begin, PlaceTypes
  <2> QED
    BY <1>0, <2>1, <2>2 DEF PromptInv
<1>9. WriteEvidence \/ RecordAfter => PromptInv'
  BY <1>0 DEF WriteEvidence, RecordAfter, Begin, PromptInv, PlaceTypes
<1>11. Launch => PromptInv'
  BY <1>0, LaunchIs DEF PromptInv, PlaceTypes, IInv, AbsentInv
<1>12. RefuseLaunch => PromptInv'
  BY <1>0 DEF RefuseLaunch, PromptInv, PlaceTypes
<1>13. Notified => PromptInv'
  BY <1>0 DEF Notified, PromptInv, PlaceTypes
<1>14. NotificationTimesOut => PromptInv'
  BY <1>0 DEF NotificationTimesOut, PromptInv, PlaceTypes
<1>15. InvocationEnds => PromptInv'
  BY <1>0 DEF InvocationEnds, PromptInv, PlaceTypes
<1>16. ExecutorRaises => PromptInv'
  BY <1>0 DEF ExecutorRaises, PromptInv, PlaceTypes
<1>17. EvidenceRaises \/ Judge => PromptInv'
  BY <1>0 DEF EvidenceRaises, Judge, PromptInv, PlaceTypes
<1>18. UNCHANGED vars => PromptInv'
  BY <1>0 DEF vars, PromptInv
<1> QED
  BY <1>1, <1>2, <1>3, <1>4, <1>5, <1>6, <1>7, <1>8, <1>9, <1>11, <1>12, <1>13,
     <1>14, <1>15, <1>16, <1>17, <1>18, <1>19, StepsAre
  DEF UpdateSteps, ControllerSteps

\* A write replaces an open record, keeps the evidence that is on it, and has a start on it
\* whenever the recorder's cannot be overlooked.
LEMMA ReplaceIs ==
    ASSUME IInv, NEW t \in Threads, Replace(t)
    PROVE  /\ record.status = "STARTED"
           /\ record.execution => record'.execution
           /\ record.after = "fingerprint" => record'.after = "fingerprint"
           /\ t = R \/ Known => record'.started
           /\ Absent => ~record'.started
           /\ t = R => ~Absent
           /\ record' = change[t] /\ step[t] = "checked"
           /\ step' = [step EXCEPT ![t] = "replaced"]
           /\ UNCHANGED <<base, change, seen, point, tracker, marked, errors, capture, reported,
                          clean, cancelled, fed, answer, raised, evidence>>
<1> USE ThreadsAre
<1>1. /\ record' = change[t] /\ step[t] = "checked"
      /\ step' = [step EXCEPT ![t] = "replaced"]
      /\ UNCHANGED <<base, change, seen, point, tracker, marked, errors, capture, reported,
                     clean, cancelled, fed, answer, raised, evidence>>
  BY DEF Replace, Pass, audit, run
<1>2. /\ record.status = "STARTED"
      /\ record.execution => record'.execution
      /\ record.after = "fingerprint" => record'.after = "fingerprint"
  BY <1>1 DEF IInv, CommitInv, Writing
<1>3. t = R => point[R] = "saving"
  BY <1>1 DEF IInv, Types, PlaceTypes
<1>4. t = R \/ Known => record'.started
  BY <1>1, <1>3 DEF IInv, StartInv, Busy
<1>5. (t = R => ~Absent) /\ (Absent => ~record'.started)
  BY <1>1, <1>3 DEF IInv, AbsentInv, Busy, Absent
<1> QED
  BY <1>1, <1>2, <1>4, <1>5

LEMMA NextClean == IInv /\ [Next]_vars => CleanInv'
<1> SUFFICES ASSUME IInv, [Next]_vars PROVE CleanInv'
  OBVIOUS
<1> USE ThreadsAre DEF save, audit, run, Goto, At, Busy, Absent, Described, CleanMeansRecorded
<1>0. Types /\ CleanInv /\ RecordTypes /\ PlaceTypes /\ FlagTypes
  BY DEF IInv, Types
<1>1. ASSUME NEW t \in Threads, Ask(t) PROVE CleanInv'
  <2>1. point[t] = "describing" => Updated(tracker, point[t], seen[t]).execution
    BY <1>0, UpdatedIs DEF FlagTypes, RecordTypes
  <2>2. /\ change'[t] = Updated(tracker, point[t], seen[t])
        /\ step[t] = "reading" /\ step'[t] = "asked"
        /\ UNCHANGED <<record, point, raised, errors, capture, clean>>
        /\ \A u \in Threads : u # t => change'[u] = change[u] /\ step'[u] = step[u]
    BY <1>0, <1>1 DEF Ask, RecordTypes, PlaceTypes
  <2> QED
    BY <1>0, <2>1, <2>2 DEF CleanInv, PlaceTypes
<1>2. ASSUME NEW t \in Threads, Advance(t) PROVE CleanInv'
  BY <1>0, <1>2 DEF Advance, CleanInv, PlaceTypes
<1>3. ASSUME NEW t \in Threads, Replace(t) PROVE CleanInv'
  <2> DEFINE u == IF t = R THEN C ELSE R
  <2>1. /\ step'[t] = "replaced" /\ \A v \in Threads : v # t => step'[v] = step[v]
        /\ UNCHANGED <<change, point, raised, errors, capture, clean>>
    BY <1>0, <1>3, ReplaceIs DEF PlaceTypes
  <2>2. ~raised => (record'.started <=> ~Absent)
    <3>1. CASE t = R
      BY <1>3, <3>1, ReplaceIs
    <3>2. CASE t = C
      BY <1>3, <3>2, ReplaceIs DEF Known
    <3> QED
      BY <3>1, <3>2
  <2>3. /\ record.execution => record'.execution
        /\ record.after = "fingerprint" => record'.after = "fingerprint"
        /\ t = C => record' = change[C] /\ step[C] = "checked"
    BY <1>3, ReplaceIs
  <2>4. t = C /\ point[C] = "recording" => change[C].after = capture
    BY <2>3 DEF IInv, CaptureInv
  <2> QED
    BY <1>0, <2>1, <2>2, <2>3, <2>4 DEF CleanInv, PlaceTypes
<1>4. ASSUME NEW t \in Threads, Return(t) PROVE CleanInv'
  BY <1>0, <1>4, FollowingIs DEF Return, CleanInv, PlaceTypes, RecorderPoints
<1>5. ASSUME NEW t \in Threads, Raises(t) PROVE CleanInv'
  BY <1>0, <1>5, FollowingIs DEF Raises, UpdateRaises, CleanInv, PlaceTypes, RecorderPoints
<1>6. ObserverRuns => CleanInv'
  BY <1>0 DEF ObserverRuns, CleanInv, PlaceTypes
<1>7. MarkStarted => CleanInv'
  BY <1>0 DEF MarkStarted, Begin, CleanInv, PlaceTypes
<1>8. CompleteStageAttempt => CleanInv'
  BY <1>0 DEF CompleteStageAttempt, CleanInv, PlaceTypes
<1>9. RecordStarted => CleanInv'
  BY <1>0 DEF RecordStarted, Begin, CleanInv, PlaceTypes
<1>10. WriteEvidence => CleanInv'
  BY <1>0 DEF WriteEvidence, Begin, CleanInv, PlaceTypes
<1>11. RecordAfter => CleanInv'
  BY <1>0 DEF RecordAfter, Begin, CleanInv, PlaceTypes
<1>12. Launch => CleanInv'
  BY <1>0, LaunchIs DEF CleanInv, PlaceTypes
<1>13. RefuseLaunch \/ Notified => CleanInv'
  BY <1>0 DEF RefuseLaunch, Notified, CleanInv, PlaceTypes
<1>14. NotificationTimesOut \/ InvocationEnds => CleanInv'
  BY <1>0 DEF NotificationTimesOut, InvocationEnds, CleanInv, PlaceTypes
<1>15. ExecutorRaises => CleanInv'
  BY <1>0 DEF ExecutorRaises, CleanInv, PlaceTypes
<1>16. EvidenceRaises => CleanInv'
  BY <1>0 DEF EvidenceRaises, CleanInv, PlaceTypes
<1>17. Judge => CleanInv'
  <2>1. SUFFICES ASSUME Judge PROVE CleanInv'
    OBVIOUS
  <2>2. clean' => ~raised /\ ~errors /\ capture = "fingerprint"
    BY <2>1 DEF Judge
  <2>3. /\ UNCHANGED <<record, step, change, raised, errors, capture>>
        /\ point[C] = "judge" /\ point'[C] = "judged" /\ point'[R] = point[R]
    BY <1>0, <2>1 DEF Judge, PlaceTypes
  <2> QED
    BY <1>0, <2>2, <2>3 DEF CleanInv
<1>18. UNCHANGED vars => CleanInv'
  BY <1>0 DEF vars, CleanInv
<1> QED
  BY <1>1, <1>2, <1>3, <1>4, <1>5, <1>6, <1>7, <1>8, <1>9, <1>10, <1>11, <1>12, <1>13,
     <1>14, <1>15, <1>16, <1>17, <1>18, StepsAre
  DEF UpdateSteps, ControllerSteps

-----------------------------------------------------------------------------
(* Theorems *)

\* The invariant holds in every state: what each thread has read, and what is on record.
THEOREM AttemptInvariant == Spec => []IInv
<1>1. IInv /\ [Next]_vars => IInv'
  BY NextTypes, NextCommit, NextCapture, NextAbsent, NextStart, NextPrompt, NextClean DEF IInv
<1> QED
  BY <1>1, InitInvariant, PTL DEF Spec

\* The record, and what the two threads know of it, have their types (attempts.py).
THEOREM AttemptTypes == Spec => []TypeOK
<1>1. IInv => TypeOK
  BY TypesSuffice DEF IInv
<1> QED
  BY <1>1, AttemptInvariant, PTL

\* What a step does to the record on disk.
LEMMA RecordChanges ==
    IInv /\ [Next]_vars /\ record' # record => \E t \in Threads : Replace(t)
<1> SUFFICES ASSUME IInv, [Next]_vars, record' # record PROVE \E t \in Threads : Replace(t)
  OBVIOUS
<1> USE DEF save, audit, run
<1>0. PlaceTypes
  BY DEF IInv, Types
<1>1. ASSUME NEW t \in Threads, UpdateSteps(t) PROVE Replace(t)
  BY <1>1 DEF UpdateSteps, Ask, Advance, Return, Raises, UpdateRaises
<1>2. ~ObserverRuns /\ ~MarkStarted /\ ~RecordStarted /\ ~WriteEvidence /\ ~RecordAfter
  BY DEF ObserverRuns, MarkStarted, RecordStarted, WriteEvidence, RecordAfter
<1>3. ~CompleteStageAttempt /\ ~Launch /\ record' # record /\ ~UNCHANGED vars
  BY LaunchIs DEF CompleteStageAttempt, vars
<1> QED
  BY <1>0, <1>1, <1>2, <1>3, StepsAre, OutsideIs DEF ControllerSteps

\* A completed attempt is never written again, however late a recorder prepared its write:
\* the record it checks inside the fence is open, so it is not the completed one
\* (save_attempt).
THEOREM CompletedStays == Spec => FinalIsFinal
<1>1. IInv /\ [Next]_vars => [record.status = "STARTED"]_record
  BY RecordChanges, ReplaceIs
<1> QED
  BY <1>1, AttemptInvariant, PTL DEF Spec, FinalIsFinal

\* No write loses what the other thread recorded: whoever writes has read the record it
\* replaces, and the controller writes the start unless it raised before the prompt
\* (update_attempt, complete_stage_attempt).
THEOREM WritesKeepEvidence == Spec => EvidenceIsKept
<1> DEFINE Kept == /\ record.execution => record'.execution
                   /\ record.after = "fingerprint" => record'.after = "fingerprint"
                   /\ record.started /\ ~record'.started => raised
<1>1. IInv /\ [Next]_vars => [Kept]_record
  <2>1. SUFFICES ASSUME IInv, [Next]_vars, record' # record PROVE Kept
    OBVIOUS
  <2>2. PICK t \in Threads : Replace(t)
    BY <2>1, RecordChanges
  <2>3. record.started => ~Absent
    BY <2>1 DEF IInv, AbsentInv
  <2> QED
    BY <2>1, <2>2, <2>3, ReplaceIs DEF Known
<1> QED
  BY <1>1, AttemptInvariant, PTL DEF Spec, EvidenceIsKept

\* The agent has its prompt only with its start on disk or with an error noted, though both
\* threads still write the record (_notify_process_start).
THEOREM PromptsFollowRecords == Spec => []PromptAfterRecord
<1>1. IInv => PromptAfterRecord
  BY DEF IInv, PromptInv, PromptAfterRecord
<1> QED
  BY <1>1, AttemptInvariant, PTL

\* An outcome without a fault has its whole record on disk, through any stall of the
\* recorder and any order of the two threads' writes (GuardedWritableOperation.execute).
THEOREM CleanOutcomesAreRecorded == Spec => []CleanMeansRecorded
<1>1. IInv => CleanMeansRecorded
  BY DEF IInv, CleanInv, CleanMeansRecorded
<1> QED
  BY <1>1, AttemptInvariant, PTL
=============================================================================
