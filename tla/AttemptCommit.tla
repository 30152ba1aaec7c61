--------------------------- MODULE AttemptCommit ----------------------------
(***************************************************************************)
(* One attempt record while a writable agent invocation runs. Two threads  *)
(* of the controller process write attempt.json: the start recorder, which *)
(* the provider starts once the agent process is launched and which may    *)
(* stall anywhere, and the controller, which goes on after a deadline,     *)
(* describes the execution and finally completes the attempt. Both use     *)
(* save_attempt: a check when the write is prepared, and the same check    *)
(* again, with the replacement, inside the commit fence.                   *)
(*                                                                         *)
(* The model has no constants and is finite. The loss of the run           *)
(* directory's ownership, which ends both threads, is left out: nothing    *)
(* here is obliged to go on.                                               *)
(***************************************************************************)

VARIABLES
    record,     \* attempt.json
    fence,      \* the thread inside the commit fence, or "nobody"
    step,       \* how far each thread is in update_attempt and save_attempt
    base,       \* the record each thread expects to replace
    change,     \* the record each thread wants to write
    seen,       \* process_started as each thread read it before its update
    point,      \* where each thread is between its updates
    cancelled,  \* _StartObserverWorker.cancel_requested
    tracker,    \* _AttemptTracker.record
    marked,     \* _AttemptTracker.process_started
    errors,     \* _AttemptTracker.evidence_errors is not empty
    fed,        \* the agent process has been given its prompt
    answer,     \* invocation_start of the execution, "none" without one
    raised,     \* executing ended with an exception or an interrupt
    evidence,   \* the execution evidence file exists
    capture,    \* the workspace capture after the invocation
    reported,   \* process_started of the stage's result
    clean       \* the audit found no fault with the execution and its evidence

save  == <<fence, step, base, change, seen>>
audit == <<tracker, marked, errors, capture, reported, clean>>
run   == <<cancelled, fed, answer, raised, evidence>>
vars  == <<record, save, point, audit, run>>

Threads  == {"recorder", "controller"}
Captures == {"none", "fingerprint", "error"}
Records  == [status : {"STARTED", "FINAL"}, started : BOOLEAN,
             execution : BOOLEAN, after : Captures]

\* The points at which a thread is inside an update, and where it goes then.
Following == [saving |-> "done",        \* the recorder: mark_started
              starting |-> "returned",  \* record_started by the controller
              describing |-> "audit",   \* execution_path
              recording |-> "judge",    \* record_after
              finishing |-> "final"]    \* complete_stage_attempt

RecorderPoints   == {"absent", "ready", "called", "saving", "done"}
ControllerPoints == {"executing", "notifying", "running", "answered", "starting",
                     "returned", "describing", "audit", "recording", "judge",
                     "judged", "finishing", "final", "failed"}

\* The record and what the two threads know of it have their types.
TypeOK ==
    /\ record \in Records /\ tracker \in Records
    /\ base \in [Threads -> Records] /\ change \in [Threads -> Records]
    /\ step \in [Threads -> {"idle", "reading", "asked", "prepared", "fenced",
                             "checked", "replaced"}]
    /\ fence \in Threads \cup {"nobody"}
    /\ \A t \in Threads : fence = t <=> step[t] \in {"fenced", "checked"}
    /\ \A t \in Threads : step[t] # "idle" <=> point[t] \in DOMAIN Following
    /\ point["recorder"] \in RecorderPoints
    /\ point["controller"] \in ControllerPoints
    /\ answer \in {"none", "STARTED", "NOT_STARTED"}
    /\ capture \in Captures
    /\ seen \in [Threads -> BOOLEAN]
    /\ {cancelled, marked, errors, fed, raised, evidence, reported, clean} \subseteq BOOLEAN

NewRecord == [status |-> "STARTED", started |-> FALSE, execution |-> FALSE, after |-> "none"]

Init ==
    /\ record = NewRecord /\ tracker = NewRecord
    /\ base = [t \in Threads |-> NewRecord] /\ change = [t \in Threads |-> NewRecord]
    /\ fence = "nobody"
    /\ step = [t \in Threads |-> "idle"] /\ seen = [t \in Threads |-> FALSE]
    /\ point = [recorder |-> "absent", controller |-> "executing"]
    /\ answer = "none" /\ capture = "none"
    /\ cancelled = FALSE /\ marked = FALSE /\ errors = FALSE /\ fed = FALSE
    /\ raised = FALSE /\ evidence = FALSE /\ reported = FALSE /\ clean = FALSE

At(t, p) == point[t] = p /\ step[t] = "idle"
Goto(t, p) == point' = [point EXCEPT ![t] = p]

-----------------------------------------------------------------------------
(* update_attempt and save_attempt, by either thread *)

\* _update begins: process_started is read under its own lock, the record later.
Begin(t, p, started) ==
    /\ Goto(t, p)
    /\ seen' = [seen EXCEPT ![t] = started]
    /\ step' = [step EXCEPT ![t] = "reading"]
    /\ UNCHANGED <<fence, base, change>>

\* Mutant: updates by the controller leave process_started to the recorder.
BugUpdated(old, p, started) ==
    [old EXCEPT !.started = IF p = "saving" THEN started ELSE @,
                !.execution = @ \/ p = "describing",
                !.after = IF p = "recording" THEN capture ELSE @]

\* replace(record, ...): what an update at this point makes of the record
Updated(old, p, started) ==
    [old EXCEPT !.started = started,
                !.execution = @ \/ p = "describing",
                !.after = IF p = "recording" THEN capture ELSE @]

Ask(t) ==
    /\ step[t] = "reading"
    /\ base' = [base EXCEPT ![t] = tracker]
    /\ change' = [change EXCEPT ![t] = Updated(tracker, point[t], seen[t])]
    /\ step' = [step EXCEPT ![t] = "asked"]
    /\ UNCHANGED <<record, fence, seen, point, audit, run>>

\* Mutant: a prepared update relies on its early check alone.
BugAsExpected(t) == step[t] = "fenced" \/ record = base[t]

\* require_expected_persisted_record
AsExpected(t) == record = base[t]

\* An update that raises is noted by the tracker; completing an attempt raises
\* further, and the controller leaves the attempt open.
UpdateRaises(t) ==
    /\ step' = [step EXCEPT ![t] = "idle"]
    /\ fence' = IF fence = t THEN "nobody" ELSE fence
    /\ IF point[t] = "finishing"
       THEN Goto(t, "failed") /\ UNCHANGED errors
       ELSE Goto(t, Following[point[t]]) /\ errors' = TRUE
    /\ UNCHANGED <<record, base, change, seen, tracker, marked, capture, reported,
                   clean, run>>

Pass(t, from, to) ==
    /\ step[t] = from
    /\ step' = [step EXCEPT ![t] = to]
    /\ UNCHANGED <<base, change, seen, point, audit, run>>

\* Mutant: the payload is prepared inside the fence.
BugEarlyCheck(t) ==
    \/ /\ fence = "nobody" /\ fence' = t
       /\ AsExpected(t) /\ Pass(t, "asked", "prepared") /\ UNCHANGED record
    \/ step[t] = "asked" /\ ~AsExpected(t) /\ UpdateRaises(t)

EarlyCheck(t) ==
    \/ AsExpected(t) /\ Pass(t, "asked", "prepared") /\ UNCHANGED <<record, fence>>
    \/ step[t] = "asked" /\ ~AsExpected(t) /\ UpdateRaises(t)

\* Mutant: the fence does not exclude.
BugEnterFence(t) ==
    /\ fence' = t
    /\ Pass(t, "prepared", "fenced")
    /\ UNCHANGED record

EnterFence(t) ==
    /\ fence = "nobody" /\ fence' = t
    /\ Pass(t, "prepared", "fenced")
    /\ UNCHANGED record

CheckInFence(t) ==
    \/ AsExpected(t) /\ Pass(t, "fenced", "checked") /\ UNCHANGED <<record, fence>>
    \/ step[t] = "fenced" /\ ~AsExpected(t) /\ UpdateRaises(t)

\* os.replace, the last thing done inside the fence
Replace(t) ==
    /\ Pass(t, "checked", "replaced")
    /\ record' = change[t]
    /\ fence' = "nobody"

\* Reading, writing and syncing may fail at any moment, also after the replacement.
FileSystemFails(t) ==
    step[t] \in {"asked", "prepared", "fenced", "checked", "replaced"} /\ UpdateRaises(t)

\* update_attempt returns; the tracker keeps the record it returns.
Return(t) ==
    /\ step[t] = "replaced"
    /\ step' = [step EXCEPT ![t] = "idle"]
    /\ tracker' = IF point[t] = "finishing" THEN tracker ELSE change[t]
    /\ Goto(t, Following[point[t]])
    /\ UNCHANGED <<record, fence, base, change, seen, marked, errors, capture, reported,
                   clean, run>>

InFence(t) == CheckInFence(t) \/ Replace(t)
Update(t)  == Ask(t) \/ EarlyCheck(t) \/ EnterFence(t) \/ InFence(t) \/ Return(t)

-----------------------------------------------------------------------------
(* The start recorder *)

\* _StartObserverWorker._run: a cancelled recorder that has not begun never begins.
ObserverRuns ==
    /\ At("recorder", "ready")
    /\ Goto("recorder", IF cancelled THEN "done" ELSE "called")
    /\ UNCHANGED <<record, save, audit, run>>

\* mark_started: whoever sets the flag persists it.
MarkStarted ==
    /\ At("recorder", "called")
    /\ marked' = TRUE
    /\ IF marked
       THEN Goto("recorder", "done") /\ UNCHANGED save
       ELSE Begin("recorder", "saving", TRUE)
    /\ UNCHANGED <<record, tracker, errors, capture, reported, clean, run>>

Recorder == ObserverRuns \/ MarkStarted \/ Update("recorder")

-----------------------------------------------------------------------------
(* The controller *)

\* The executor launches the agent process and waits for the recorder, or refuses.
Launch ==
    /\ At("controller", "executing")
    /\ point' = [recorder |-> "ready", controller |-> "notifying"]
    /\ UNCHANGED <<record, save, audit, run>>

RefuseLaunch ==
    /\ At("controller", "executing")
    /\ answer' = "NOT_STARTED"
    /\ Goto("controller", "answered")
    /\ UNCHANGED <<record, save, audit, cancelled, fed, raised, evidence>>

\* Mutant: the prompt does not wait for the recorder.
BugNotified ==
    /\ At("controller", "notifying")
    /\ fed' = TRUE
    /\ Goto("controller", "running")
    /\ UNCHANGED <<record, save, audit, cancelled, answer, raised, evidence>>

\* The recorder has ended: the prompt is written to the agent process.
Notified ==
    /\ At("controller", "notifying")
    /\ At("recorder", "done")
    /\ fed' = TRUE
    /\ Goto("controller", "running")
    /\ UNCHANGED <<record, save, audit, cancelled, answer, raised, evidence>>

\* The invocation's deadline passes while the recorder is still at work.
NotificationTimesOut ==
    /\ At("controller", "notifying")
    /\ ~At("recorder", "done")
    /\ cancelled' = TRUE
    /\ answer' = "STARTED"
    /\ Goto("controller", "answered")
    /\ UNCHANGED <<record, save, audit, fed, raised, evidence>>

InvocationEnds ==
    /\ At("controller", "running")
    /\ answer' = "STARTED"
    /\ Goto("controller", "answered")
    /\ UNCHANGED <<record, save, audit, cancelled, fed, raised, evidence>>

\* The executor raises: an interrupt while it waits for the recorder, which is
\* not cancelled then, or for the agent process, or a failure to publish the
\* output of a process whose recorder was cancelled.
ExecutorRaises ==
    /\ At("controller", "notifying") \/ At("controller", "running")
    /\ cancelled' \in {cancelled, TRUE}
    /\ raised' = TRUE
    /\ Goto("controller", "audit")
    /\ UNCHANGED <<record, save, audit, fed, answer, evidence>>

\* record_started, with what the execution says. Launch refusals come without a
\* recorder, so "not started" never contradicts an earlier mark.
RecordStarted ==
    /\ At("controller", "answered")
    /\ marked' = (marked \/ answer = "STARTED")
    /\ IF answer = "STARTED" /\ ~marked
       THEN Begin("controller", "starting", TRUE)
       ELSE Goto("controller", "returned") /\ UNCHANGED save
    /\ UNCHANGED <<record, tracker, errors, capture, reported, clean, run>>

\* The execution is checked and its evidence written, or one of the two raises.
WriteEvidence ==
    /\ At("controller", "returned")
    /\ evidence' = TRUE
    /\ Begin("controller", "describing", marked)
    /\ UNCHANGED <<record, audit, cancelled, fed, answer, raised>>

EvidenceRaises ==
    /\ At("controller", "returned")
    /\ raised' = TRUE
    /\ Goto("controller", "audit")
    /\ UNCHANGED <<record, save, audit, cancelled, fed, answer, evidence>>

\* record_after, of a capture or of why there is none
RecordAfter ==
    /\ At("controller", "audit")
    /\ capture' \in {"fingerprint", "error"}
    /\ Begin("controller", "recording", marked)
    /\ UNCHANGED <<record, tracker, marked, errors, reported, clean, run>>

\* _invocation_start and the evidence errors of this moment decide the outcome.
Judge ==
    /\ At("controller", "judge")
    /\ reported' = (marked \/ answer = "STARTED")
    /\ clean' = (~raised /\ ~errors /\ capture = "fingerprint")
    /\ Goto("controller", "judged")
    /\ UNCHANGED <<record, save, tracker, marked, errors, capture, run>>

\* complete_stage_attempt on the record: the result's process_started and
\* fingerprint, and metadata that replaces a noted capture error
Completed(old) ==
    [status |-> "FINAL",
     started |-> reported,
     execution |-> evidence \/ old.execution,
     after |-> IF "fingerprint" \in {capture, old.after} THEN "fingerprint" ELSE "none"]

\* It loads the record anew, insists that the attempt is open, and saves.
CompleteStageAttempt ==
    /\ At("controller", "judged")
    /\ IF record.status = "STARTED"
       THEN /\ Goto("controller", "finishing")
            /\ base' = [base EXCEPT !["controller"] = record]
            /\ change' = [change EXCEPT !["controller"] = Completed(record)]
            /\ step' = [step EXCEPT !["controller"] = "asked"]
       ELSE Goto("controller", "failed") /\ UNCHANGED <<base, change, step>>
    /\ UNCHANGED <<record, fence, seen, audit, run>>

Controller ==
    \/ Launch \/ RefuseLaunch \/ Notified \/ NotificationTimesOut
    \/ InvocationEnds \/ RecordStarted \/ WriteEvidence \/ EvidenceRaises
    \/ RecordAfter \/ Judge \/ CompleteStageAttempt \/ Update("controller")

Next ==
    \/ Recorder \/ Controller \/ ExecutorRaises
    \/ \E t \in Threads : FileSystemFails(t)

Spec == Init /\ [][Next]_vars

\* The controller goes on; the recorder need not, except inside the fence, where
\* it only compares two small records and renames a file.
FairSpec == Spec /\ WF_vars(Controller) /\ WF_vars(InFence("recorder"))

-----------------------------------------------------------------------------
(* Properties *)

\* A completed attempt is never written again, however late a recorder prepared
\* its write before the completion (save_attempt's check inside the fence).
FinalIsFinal ==
    [][ record.status = "STARTED" ]_record

\* No write loses what another thread recorded: the execution evidence and the
\* fingerprint stay, and so does a recorded start, unless executing raised before
\* the flag of the recorder was seen (update_attempt, complete_stage_attempt).
EvidenceIsKept ==
    [][ /\ record.execution => record'.execution
        /\ record.after = "fingerprint" => record'.after = "fingerprint"
        /\ record.started /\ ~record'.started => raised ]_record

\* The agent gets its prompt only when its start is on disk, or when the failure
\* to put it there is noted and will stop the run (_notify_process_start).
PromptAfterRecord ==
    fed => record.started \/ errors

\* An outcome the audit finds no fault with has its whole record on disk, though
\* the recorder may have stalled and the controller recorded the start for it.
CleanMeansRecorded ==
    clean => /\ record.execution
             /\ record.after = "fingerprint"
             /\ record.started <=> point["recorder"] # "absent"

\* Completing the attempt never waits for a stalled recorder: the controller gets
\* to the end of its attempt, or its completion raises.
FinalisationEnds ==
    <>(point["controller"] \in {"final", "failed"})

=============================================================================
