------------------------------ MODULE GuardedWrite ------------------------------
(***************************************************************************)
(* GuardedWritableOperation (application/guarded_writable_operation.py):   *)
(* capture the workspace, let the agent executor write, capture it again,  *)
(* and classify what happened; or, for a rejection the stage decided,      *)
(* capture twice without an agent.                                         *)
(*                                                                         *)
(* The captures are not atomic: Git identity and staging, the worktree and *)
(* the environment roots are read one after the other, and the environment *)
(* guard makes a scan of its own.  The agent's processes write whenever    *)
(* they live, an outsider writes at most once, at any moment; either moves *)
(* the commit, changes the tree or creates an environment.                 *)
(***************************************************************************)
EXTENDS AgentContract

VARIABLES
    repo,       \* the target repository
    origin,     \* what it was when the operation began
    touched,    \* an outsider has written
    kind,       \* "execute", or "reject" with or without violations of the stage
    pinned,     \* the baseline names a fingerprint or requires a clean worktree
    at, point,  \* the next step, and the capture it belongs to
    shot, scan, \* per point: the canonical snapshot, the environment scan
    record,     \* the attempt record was found
    marked, errors, \* the tracker's process_started and evidence_errors
    refusal,    \* why the executor was not called
    failed,     \* execution_error is set
    guard,      \* the guard inspection
    audit,      \* safety violations, invocation start and unchanged, as judged
    outcome

capture == <<point, shot, scan>>
request == <<origin, kind, pinned>>
tracker == <<record, marked, errors>>
judged == <<guard, audit, outcome>>
agent == <<alive, launched, execution>>
vars == <<agent, repo, touched, request, at, capture, tracker, refusal, failed, judged>>

Repositories == [git: {"base", "moved"}, tree: {"start", "other"}, env: {"none", "new"}]

\* A snapshot whose inspection failed somewhere says nothing that counts.
Unread == [git |-> "unread", tree |-> "unread", env |-> "unread"]
Incomplete == [git |-> "?", tree |-> "?", env |-> "?"]
Taken(s) == s \notin {Unread, Incomplete}

CleanFailures == {"RejectedBeforeStart", "FailedUnchanged"}

-----------------------------------------------------------------------------
(* Who writes *)

Running == at \notin {"returned", "raised"}

\* Bound: what is written after the operation has ended is the lifecycle's concern.
Writes == Running /\ repo' \in Repositories \ {repo}

AgentWrites ==
    /\ alive /\ Writes
    /\ UNCHANGED <<agent, touched, request, at, capture, tracker, refusal, failed, judged>>

OutsiderWrites ==
    /\ ~touched /\ touched' = TRUE /\ Writes
    /\ UNCHANGED <<agent, request, at, capture, tracker, refusal, failed, judged>>

AgentEnds ==
    /\ Running /\ AgentDies
    /\ UNCHANGED <<repo, touched, request, at, capture, tracker, refusal, failed, judged>>

-----------------------------------------------------------------------------
(* The tracker *)

\* _AttemptTracker._update: without a record nothing is written; a write that fails is an
\* evidence error.
Update == errors' \in {errors, errors \/ record}

\* The start recorder calls mark_started on its own thread, early, late or never.
MarkStarted ==
    /\ launched /\ ~marked /\ Running
    /\ marked' = TRUE /\ Update
    /\ UNCHANGED <<agent, repo, touched, request, at, capture, record, refusal, failed, judged>>

-----------------------------------------------------------------------------
(* The captures *)

\* _associated_attempt: one started attempt of this phase has this directory.
Associate ==
    /\ at = "associate"
    /\ record' \in BOOLEAN /\ errors' = ~record'
    /\ at' = "scan"
    /\ UNCHANGED <<agent, repo, touched, request, capture, marked, refusal, failed, judged>>

AfterLook(step) ==
    IF point = "before"
    THEN [scan |-> "git", git |-> "tree", tree |-> "env", env |-> "record"][step]
    ELSE [git |-> "tree", tree |-> "env", env |-> "scan", scan |-> "record"][step]

\* capture_workspace_snapshot reads one part, or cannot; it goes on in any case.
Look(part) ==
    /\ at = part
    /\ \/ shot' = [shot EXCEPT ![point] =
                      IF @ = Incomplete THEN @ ELSE [@ EXCEPT ![part] = repo[part]]]
       \/ shot' = [shot EXCEPT ![point] = Incomplete]
    /\ at' = AfterLook(part)
    /\ UNCHANGED <<agent, repo, touched, request, point, scan, tracker, refusal, failed, judged>>

\* The environment guard's own scan.
Scan ==
    /\ at = "scan"
    /\ scan' \in {[scan EXCEPT ![point] = repo.env], [scan EXCEPT ![point] = "error"]}
    /\ at' = AfterLook("scan")
    /\ UNCHANGED <<agent, repo, touched, request, point, shot, tracker, refusal, failed, judged>>

RecordCapture ==
    /\ at = "record"
    /\ Update
    /\ at' = IF point = "before" THEN "admit" ELSE "guard"
    /\ UNCHANGED <<agent, repo, touched, request, capture, record, marked, refusal, failed,
                   judged>>

-----------------------------------------------------------------------------
(* Admission *)

\* Mutant: the starting workspace need not be the authorised one.
BugStartingViolation == ~Taken(shot["before"]) \/ scan["before"] = "error"

\* _starting_violations and the inspection of the start.
StartingViolation ==
    \/ ~Taken(shot["before"]) \/ scan["before"] = "error"
    \/ shot["before"].git # "base"
    \/ pinned /\ shot["before"] # [git |-> "base", tree |-> "start", env |-> "none"]

Refuse(why) ==
    /\ refusal' = why
    /\ point' = "after" /\ at' = "git"
    /\ UNCHANGED <<agent, repo, touched, request, shot, scan, tracker, failed, judged>>

\* A rejection by the stage has violations of its own or not; the tracker's errors come in
\* at the end.
Reject ==
    /\ at = "admit" /\ kind # "execute"
    /\ Refuse(IF kind = "reject-unsafe" \/ StartingViolation THEN "violations" ELSE "stage")

RefuseUnsafe ==
    /\ at = "admit" /\ kind = "execute"
    /\ StartingViolation \/ errors
    /\ Refuse("violations")

\* The executor lacks a capability, or cannot tell.
RefuseIncapable ==
    /\ at = "admit" /\ kind = "execute"
    /\ ~StartingViolation /\ ~errors
    /\ Refuse("capability")

Invoke ==
    /\ at = "admit" /\ kind = "execute"
    /\ ~StartingViolation /\ ~errors
    /\ at' = "executing"
    /\ UNCHANGED <<agent, repo, touched, request, capture, tracker, refusal, failed, judged>>

-----------------------------------------------------------------------------
(* The invocation *)

Launch ==
    /\ at = "executing" /\ LaunchAgent
    /\ UNCHANGED <<repo, touched, request, at, capture, tracker, refusal, failed, judged>>

Answer ==
    /\ at = "executing" /\ AgentReturns
    /\ at' = "answer"
    /\ UNCHANGED <<repo, touched, request, capture, tracker, refusal, failed, judged>>

CaptureAfter == at' = "git" /\ point' = "after" /\ UNCHANGED <<shot, scan>>

\* Whatever else the executor raises, the captures are taken.
ExecutorRaises ==
    /\ at = "executing" /\ AgentRaises
    /\ failed' = TRUE /\ CaptureAfter
    /\ UNCHANGED <<repo, touched, request, tracker, refusal, judged>>

\* record_started: what the executor says against what the recorder saw.
RecordStarted ==
    /\ at = "answer"
    /\ marked' = (marked \/ execution.start = "STARTED")
    /\ IF marked' # marked THEN Update
       ELSE errors' = (errors \/ (execution.start = "NOT_STARTED" /\ marked))
    /\ at' = "evidence"
    /\ UNCHANGED <<agent, repo, touched, request, capture, record, refusal, failed, judged>>

WriteEvidence ==
    /\ at = "evidence"
    /\ Update /\ CaptureAfter
    /\ UNCHANGED <<agent, repo, touched, request, record, marked, refusal, failed, judged>>

\* An interrupt while the start is recorded, an execution outside its contract, or one
\* that cannot be written.
EvidenceRaises ==
    /\ at \in {"answer", "evidence"}
    /\ failed' = TRUE /\ CaptureAfter
    /\ \/ UNCHANGED tracker
       \/ at = "answer" /\ execution.start = "STARTED" /\ ~marked
          /\ marked' = TRUE /\ errors' = TRUE /\ UNCHANGED record
    /\ UNCHANGED <<agent, repo, touched, request, refusal, judged>>

-----------------------------------------------------------------------------
(* The judgement *)

Inspected == \A p \in {"before", "after"} : Taken(shot[p]) /\ scan[p] # "error"
NewEnvironment == scan["before"] = "none" /\ scan["after"] = "new"

\* Mutant: an environment that was created does not need a human.
BugRequiresHuman(errs) == ~Inspected \/ errs

RequiresHuman(errs) == NewEnvironment \/ ~Inspected \/ errs

\* Mutant: a guard that could not be written is no evidence error.
BugBuildGuard ==
    /\ at = "guard"
    /\ \E compared, written \in BOOLEAN :
          /\ errors' = (errors \/ ~compared)
          /\ guard' = [human |-> RequiresHuman(errors'), persisted |-> record /\ written]
    /\ at' = "judge"
    /\ UNCHANGED <<agent, repo, touched, request, capture, record, marked, refusal, failed,
                   audit, outcome>>

\* _build_and_persist_guard_evidence: the comparison or the write may fail; without an
\* attempt record there is nowhere to write.
BuildGuard ==
    /\ at = "guard"
    /\ \E compared, written \in BOOLEAN :
          /\ errors' = (errors \/ ~compared \/ (record /\ ~written))
          /\ guard' = [human |-> RequiresHuman(errors'), persisted |-> record /\ written]
    /\ at' = "judge"
    /\ UNCHANGED <<agent, repo, touched, request, capture, record, marked, refusal, failed,
                   audit, outcome>>

InvocationStart ==
    CASE refusal # "none" -> "NOT_STARTED"
      [] refusal = "none" /\ marked -> "STARTED"
      [] refusal = "none" /\ ~marked /\ execution.status = "RAISED" -> "UNKNOWN"
      [] OTHER -> execution.start

Unchanged == Taken(shot["before"]) /\ shot["before"] = shot["after"]

PostViolation == shot["after"] = Incomplete \/ shot["after"].git # "base" \/ errors

\* Mutant: a timeout is trusted to be an end.
BugTrustedFailure(e) == e.category \notin (UntrustedCompletion \ {"TIMEOUT"})

TrustedFailure(e) == e.category \notin UntrustedCompletion

\* Mutant: a failure need not leave the snapshot as it was.
BugClassify(a) ==
    CASE refusal # "none" -> IF a.violations \/ guard.human THEN "SafetyStopped"
                             ELSE "RejectedBeforeStart"
      [] refusal = "none" /\ failed -> "FailedUncertain"
      [] refusal = "none" /\ ~failed /\ execution.status = "SUCCESS" ->
           IF a.violations \/ guard.human THEN "SafetyStopped" ELSE "Succeeded"
      [] OTHER ->
           IF a.violations \/ guard.human THEN "FailedUncertain"
           ELSE CASE a.start = "NOT_STARTED" -> "RejectedBeforeStart"
                  [] a.start # "NOT_STARTED" /\ TrustedFailure(execution) -> "FailedUnchanged"
                  [] OTHER -> "FailedUncertain"

\* The end of execute(), and of reject_before_start().
Classify(a) ==
    CASE refusal # "none" -> IF a.violations \/ guard.human THEN "SafetyStopped"
                             ELSE "RejectedBeforeStart"
      [] refusal = "none" /\ failed -> "FailedUncertain"
      [] refusal = "none" /\ ~failed /\ execution.status = "SUCCESS" ->
           IF a.violations \/ guard.human THEN "SafetyStopped" ELSE "Succeeded"
      [] OTHER ->
           IF ~a.unchanged \/ a.violations \/ guard.human THEN "FailedUncertain"
           ELSE CASE a.start = "NOT_STARTED" -> "RejectedBeforeStart"
                  [] a.start # "NOT_STARTED" /\ TrustedFailure(execution) -> "FailedUnchanged"
                  [] OTHER -> "FailedUncertain"

\* The diff against the baseline may not be readable, which is a violation.
Judge ==
    /\ at = "judge"
    /\ \E diffed \in BOOLEAN :
          audit' = [violations |-> refusal = "violations" \/ PostViolation \/ ~diffed,
                    start |-> InvocationStart, unchanged |-> Unchanged]
    /\ outcome' = Classify(audit')
    /\ at' = "returned"
    /\ UNCHANGED <<agent, repo, touched, request, capture, tracker, refusal, failed, guard>>

NoShots == [before |-> Unread, after |-> Unread]
NoScans == [before |-> "none", after |-> "none"]
NoGuard == [human |-> FALSE, persisted |-> FALSE]
NoAudit == [violations |-> FALSE, start |-> "none", unchanged |-> FALSE]

\* The run is no longer owned, an interrupt outside the protected region, or the process
\* dies: the operation has no outcome, and what it knew is gone.
Abandoned ==
    /\ Running
    /\ at' = "raised"
    /\ shot' = NoShots /\ scan' = NoScans /\ point' = "before"
    /\ record' = FALSE /\ marked' = FALSE /\ errors' = FALSE
    /\ refusal' = "none" /\ failed' = FALSE
    /\ guard' = NoGuard /\ audit' = NoAudit /\ outcome' = "none"
    /\ UNCHANGED <<agent, repo, touched, request>>

-----------------------------------------------------------------------------

Init ==
    /\ AgentInit
    /\ repo \in Repositories /\ origin = repo
    /\ touched = FALSE
    /\ kind \in {"execute", "reject", "reject-unsafe"} /\ pinned \in BOOLEAN
    /\ at = "associate"
    /\ shot = NoShots /\ scan = NoScans /\ point = "before"
    /\ record = FALSE /\ marked = FALSE /\ errors = FALSE
    /\ refusal = "none" /\ failed = FALSE
    /\ guard = NoGuard /\ audit = NoAudit /\ outcome = "none"

Next ==
    \/ AgentWrites \/ AgentEnds \/ OutsiderWrites \/ MarkStarted
    \/ Associate \/ Scan \/ RecordCapture
    \/ \E part \in {"git", "tree", "env"} : Look(part)
    \/ Reject \/ RefuseUnsafe \/ RefuseIncapable \/ Invoke
    \/ Launch \/ Answer \/ ExecutorRaises \/ RecordStarted \/ WriteEvidence \/ EvidenceRaises
    \/ BuildGuard \/ Judge \/ Abandoned

Spec == Init /\ [][Next]_vars

-----------------------------------------------------------------------------
(* Properties *)

\* The repository, the captures and the locals of the operation have their types.
TypeOK ==
    /\ alive \in BOOLEAN /\ launched \in BOOLEAN
    /\ execution \in Executions \cup {NoExecution, Raised}
    /\ repo \in Repositories /\ origin \in Repositories /\ touched \in BOOLEAN
    /\ kind \in {"execute", "reject", "reject-unsafe"} /\ pinned \in BOOLEAN
    /\ at \in {"associate", "scan", "git", "tree", "env", "record", "admit", "executing",
               "answer", "evidence", "guard", "judge", "returned", "raised"}
    /\ point \in {"before", "after"}
    /\ shot \in [{"before", "after"} -> [git: {"base", "moved", "unread", "?"},
                                         tree: {"start", "other", "unread", "?"},
                                         env: {"none", "new", "unread", "?"}]]
    /\ scan \in [{"before", "after"} -> {"none", "new", "error"}]
    /\ record \in BOOLEAN /\ marked \in BOOLEAN /\ errors \in BOOLEAN
    /\ refusal \in {"none", "violations", "capability", "stage"} /\ failed \in BOOLEAN
    /\ guard \in [human: BOOLEAN, persisted: BOOLEAN]
    /\ audit \in [violations: BOOLEAN, unchanged: BOOLEAN,
                  start: {"none", "STARTED", "NOT_STARTED", "UNKNOWN"}]
    /\ outcome # "none" => audit.start # "none"
    /\ outcome \in CleanFailures \cup {"none", "Succeeded", "FailedUncertain", "SafetyStopped"}

\* An outcome that lets a run fail cleanly, or go on, is given when nobody of the
\* invocation can write any more, and "rejected before start" only when no process ever
\* ran, although the start recorder may be late, fail or stay silent.
EndedMeansQuiet ==
    /\ outcome \in CleanFailures \cup {"Succeeded"} => ~alive
    /\ outcome = "RejectedBeforeStart" => ~launched

\* A clean failure left the repository as it was: no commit, file or environment of an
\* agent hides between the parts of two captures that agree.
CleanFailureLeavesRepository ==
    outcome \in CleanFailures /\ ~touched => repo = origin

\* What a success is judged by is what is there, on the baseline commit, without a new
\* environment, although the snapshot and the scan were read part by part.
SuccessIsWhatIsThere ==
    outcome = "Succeeded" /\ ~touched =>
        /\ repo = shot["after"] /\ repo.git = "base"
        /\ repo.env = "new" => origin.env = "new"

\* An agent is only ever started from the authorised workspace.
StartsAuthorised ==
    launched /\ ~touched =>
        /\ origin.git = "base"
        /\ pinned => origin = [git |-> "base", tree |-> "start", env |-> "none"]

\* The sealed outcomes validate what they are given (__post_init__) and raise if it does
\* not fit; the classification never asks for an outcome its validator refuses.
Constructible ==
    /\ outcome \in CleanFailures \cup {"Succeeded"} =>
          /\ Taken(shot["before"]) /\ Taken(shot["after"])
          /\ ~audit.violations /\ ~guard.human /\ guard.persisted
    /\ outcome = "Succeeded" => execution.status = "SUCCESS" /\ audit.start = "STARTED"
    /\ outcome = "RejectedBeforeStart" =>
          audit.start = "NOT_STARTED" /\ execution.status # "SUCCESS"
    /\ outcome = "FailedUnchanged" =>
          /\ audit.start \in {"STARTED", "UNKNOWN"} /\ execution.status = "FAILED"
          /\ audit.unchanged
    /\ outcome = "SafetyStopped" => audit.violations \/ guard.human
=============================================================================
