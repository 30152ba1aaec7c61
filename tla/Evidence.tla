------------------------------ MODULE Evidence ------------------------------
(***************************************************************************)
(* What the controller concludes from a run's durable evidence: the        *)
(* append-only attempts/ directory (here the sequence `log' of attempt     *)
(* records, each with the verdict of its result.json) against the state of *)
(* the target repository.  Pure operators; Lifecycle drives them.          *)
(*                                                                         *)
(* A workspace stands for everything WorkspaceSnapshot.canonical_data      *)
(* digests (branch, HEAD, staging, tracked and untracked content), so a    *)
(* complete snapshot's fingerprint is the workspace itself.                *)
(***************************************************************************)
EXTENDS Vocabulary, Naturals, Sequences, FiniteSets

CONSTANTS
    Workspaces,           \* the states the target repository can be in
    Baseline,             \* the clean one baseline.json recorded
    Unsafe,               \* those whose branch, HEAD or staging area drifted
    NoFingerprint,        \* null: no snapshot, or an incomplete inspection
    MaxCorrectionRounds   \* resolved policy: max_correction_rounds

ASSUME WorkspacesAssumption ==
    /\ Baseline \in Workspaces
    /\ Unsafe \subseteq Workspaces \ {Baseline}
    /\ NoFingerprint \notin Workspaces

ASSUME RoundsAssumption == MaxCorrectionRounds \in Nat \ {0}

Fingerprints == Workspaces \cup {NoFingerprint}

\* The verdict of an attempt's result.json: a verification status, a review
\* verdict, or NONE (no result yet, or a stage result without one).
Verdicts == {"PASS", "FAIL", "ERROR", "CORRECTIONS_REQUIRED", "HUMAN_REQUIRED",
             "NONE"}

AttemptRecord ==
    [ phase   : AttemptPhase,
      status  : AttemptStatus,
      before  : Fingerprints,
      after   : Fingerprints,
      started : BOOLEAN,     \* process_started
      verdict : Verdicts,
      round   : Nat ]        \* round_index of a verification result

\* WorkspaceSnapshot.capture: the fingerprint, or nothing usable.
Capture(ws) == {ws, NoFingerprint}

\* latest_attempt: i is the last record of `log' with one of these phases and
\* statuses.  A relation, because there may be none.
IsLatest(log, i, phases, statuses) ==
    /\ i \in DOMAIN log
    /\ log[i].phase \in phases
    /\ log[i].status \in statuses
    /\ \A j \in DOMAIN log :
          j > i => ~ (log[j].phase \in phases /\ log[j].status \in statuses)

LatestWritable(log, i) == IsLatest(log, i, WritablePhases, {"COMPLETED"})

CountPhase(log, phase, statuses) ==
    Cardinality({ i \in DOMAIN log :
                     log[i].phase = phase /\ log[i].status \in statuses })

\* baseline_verification_evidence_problem = None
BaselineEvidence(log) ==
    \E i \in DOMAIN log :
       /\ IsLatest(log, i, {"PREPARING"}, {"COMPLETED"})
       /\ log[i].before = Baseline
       /\ log[i].after = Baseline
       /\ log[i].verdict = "PASS"

\* read_verification_source_fingerprint: `source' is the workspace the latest
\* completed verification left, if its result has one of these statuses.
VerifiedSource(log, verdicts, source) ==
    \E i \in DOMAIN log :
       /\ IsLatest(log, i, {"VERIFYING"}, {"COMPLETED"})
       /\ log[i].verdict \in verdicts
       /\ log[i].after = source
       /\ source # NoFingerprint

\* plan_pending_correction: the attempt whose findings the correction is
\* about.  Failures of the latest completed verification come first; failing
\* those the latest completed review must require corrections, and otherwise
\* the planner raises.
PlannedCause(log, i) ==
    \/ /\ IsLatest(log, i, {"VERIFYING"}, {"COMPLETED"})
       /\ log[i].verdict = "FAIL"
    \/ /\ ~ \E v \in DOMAIN log :
             IsLatest(log, v, {"VERIFYING"}, {"COMPLETED"}) /\ log[v].verdict = "FAIL"
       /\ IsLatest(log, i, {"REVIEWING"}, {"COMPLETED"})
       /\ log[i].verdict = "CORRECTIONS_REQUIRED"

\* Mutant: resume looks at the run's state but not for open writable attempts.
BugResumable(rec, log, ws) ==
    /\ ws \notin Unsafe
    /\ rec.state # "PREPARING" => BaselineEvidence(log)
    /\ rec.state \notin WritablePhases
    /\ rec.state \in {"PREPARING", "PREPARED"} => ws = Baseline
    /\ rec.state \in (ReadOnlyPhases \ {"PREPARING"}) \cup {"CORRECTION_PENDING"} =>
          \E i \in DOMAIN log : LatestWritable(log, i) /\ log[i].after = ws

\* resume_preflight_problem = resume_problem = None, for a readable run
\* directory and a workspace that could be inspected.
Resumable(rec, log, ws) ==
    /\ ws \notin Unsafe
    /\ rec.state # "PREPARING" => BaselineEvidence(log)
    /\ \A i \in DOMAIN log :
          ~ (log[i].phase \in WritablePhases /\ log[i].status = "STARTED")
    /\ rec.state \notin WritablePhases
    /\ rec.state \in {"PREPARING", "PREPARED"} => ws = Baseline
    /\ rec.state \in (ReadOnlyPhases \ {"PREPARING"}) \cup {"CORRECTION_PENDING"} =>
          \E i \in DOMAIN log : LatestWritable(log, i) /\ log[i].after = ws

\* _agent_execution_evidence_problem = None: every completed agent task ran.
AgentTasksStarted(log) ==
    \A i \in DOMAIN log :
       /\ log[i].phase \in WritablePhases \cup {"REVIEWING"}
       /\ log[i].status = "COMPLETED"
       => log[i].started

\* Mutant: the policy does not compare the workspace with what the latest write
\* left, only with what was verified and reviewed.
BugHandoffAccepts(rec, log, ws) ==
    LET last == Len(log) IN
    /\ AgentTasksStarted(log)
    /\ ws \notin Unsafe \cup {NoFingerprint}
    /\ last > 0 /\ log[last].phase = "REPORTING" /\ log[last].status = "STARTED"
    /\ \A i \in DOMAIN log : log[i].phase \in WritablePhases => log[i].status = "COMPLETED"
    /\ \E w, v, r \in DOMAIN log :
          /\ LatestWritable(log, w)
          /\ IsLatest(log, v, {"VERIFYING"}, AttemptStatus)
          /\ log[v].status = "COMPLETED" /\ log[v].verdict = "PASS"
          /\ w < v /\ log[v].before = ws /\ log[v].after = ws
          /\ IsLatest(log, r, {"REVIEWING"}, AttemptStatus)
          /\ log[r].status = "COMPLETED" /\ log[r].verdict = "PASS"
          /\ v < r /\ log[r].before = ws /\ log[r].after = ws

\* evaluate_handoff_policy = None on the request _read_policy_request builds:
\* the conditions are the policy's, in its order.
HandoffAccepts(rec, log, ws) ==
    LET last == Len(log)
        writable == { i \in DOMAIN log : log[i].phase \in WritablePhases }
    IN
    /\ AgentTasksStarted(log)
    /\ ws \notin Unsafe \cup {NoFingerprint}
    /\ rec.correction <= MaxCorrectionRounds
    /\ last > 0 /\ log[last].phase = "REPORTING" /\ log[last].status = "STARTED"
    /\ \A i \in writable : log[i].status = "COMPLETED"
    /\ \A i \in DOMAIN log \ writable : log[i].status \notin {"FAILED", "HUMAN_REQUIRED"}
    /\ CountPhase(log, "CORRECTING", AttemptStatus) = rec.correction
    /\ \E w, v, r \in DOMAIN log :
          /\ LatestWritable(log, w)
          /\ log[w].after = ws
          /\ IsLatest(log, v, {"VERIFYING"}, AttemptStatus)
          /\ log[v].status = "COMPLETED"
          /\ log[v].verdict = "PASS"
          /\ log[v].round = rec.correction
          /\ w < v
          /\ log[v].before = ws /\ log[v].after = ws
          /\ IsLatest(log, r, {"REVIEWING"}, AttemptStatus)
          /\ log[r].status = "COMPLETED"
          /\ log[r].verdict = "PASS"
          /\ v < r
          /\ log[r].before = log[v].after /\ log[r].after = log[v].after
          /\ IsLatest(log, r, AttemptPhase \ {"REPORTING"}, AttemptStatus)
    /\ rec.review >= 1
    /\ CountPhase(log, "REVIEWING", {"COMPLETED"}) >= rec.review
=============================================================================
