------------------------ MODULE LifecycleProperties ------------------------
(***************************************************************************)
(* What a run promises, stated over the states and steps of Lifecycle.     *)
(***************************************************************************)
EXTENDS Lifecycle

\* One source was written by w, passed verification v and then review r, which
\* both started and ended on exactly that source, and nothing was written later.
ApprovedBy(w, v, r) ==
    /\ w < v /\ v < r
    /\ ledger[w].phase \in WritablePhases
    /\ ledger[v].phase = "VERIFYING" /\ ledger[v].verdict = "PASS"
    /\ ledger[r].phase = "REVIEWING" /\ ledger[r].verdict = "PASS"
    /\ \A i \in {w, v, r} :
          ledger[i].status = "COMPLETED" /\ ledger[i].after = ledger[w].after
    /\ \A i \in {v, r} : ledger[i].before = ledger[w].after
    /\ \A i \in DOMAIN ledger :
          ledger[i].phase \in WritablePhases => i <= w /\ ledger[i].status = "COMPLETED"

SourceApproved == \E w, v, r \in DOMAIN ledger : ApprovedBy(w, v, r)

\* A run whose record says READY_FOR_HUMAN has the evidence for it in its
\* attempts, whatever crashed, was resumed or was edited on the way
\* (HandoffAcceptanceService).
ReadyHasEvidence == disk.state = "READY_FOR_HUMAN" => SourceApproved

\* The final.patch of an accepted run was captured from the source its passing
\* review covered (accept captures between two equal snapshots).
PatchIsReviewedSource ==
    disk.state = "READY_FOR_HUMAN" =>
        \E r \in DOMAIN ledger :
           /\ IsLatest(ledger, r, {"REVIEWING"}, {"COMPLETED"})
           /\ patch = ledger[r].after

\* The second snapshot of accept catches an outside write at any moment of the
\* acceptance, before, during or after the capture: to get a patch of another
\* source delivered takes a second write that undoes the first.
SingleEditIsCaught == edits <= 1 => PatchIsReviewedSource

\* A run fails (rather than asking for a human) only if every writable attempt
\* is accounted for: it completed, or its agent left the workspace untouched, or
\* no agent was ever started (classify_unexpected_controller_failure and the
\* FAILED outcomes of the writable stages).
FailedIsAccountedFor ==
    disk.state = "FAILED" =>
        \A i \in DOMAIN ledger :
           ledger[i].phase \in WritablePhases =>
              \/ ledger[i].status = "COMPLETED"
              \/ ~ ledger[i].started
              \/ ledger[i].status = "FAILED" /\ ledger[i].after = ledger[i].before

\* A correction starts from the source its findings are about: the last attempt
\* completed before it is the verification or review that asked for it, and the
\* workspace it starts from is the one the latest verification left
\* (plan_pending_correction and _correction_source_fingerprint).
CorrectionAnswersItsCause ==
    \A i \in DOMAIN ledger :
        ledger[i].phase = "CORRECTING" /\ ledger[i].started =>
            LET before == SubSeq(ledger, 1, i - 1)
            IN /\ \E cause \in DOMAIN before :
                     /\ IsLatest(before, cause, AttemptPhase, {"COMPLETED"})
                     /\ <<before[cause].phase, before[cause].verdict>> \in
                           {<<"VERIFYING", "FAIL">>,
                            <<"REVIEWING", "CORRECTIONS_REQUIRED">>}
               /\ \E v \in DOMAIN before :
                     /\ IsLatest(before, v, {"VERIFYING"}, {"COMPLETED"})
                     /\ before[v].after = ledger[i].before

\* Nothing but the repository or an inspection that failed can turn down a run
\* that got as far as reporting with no stop recorded against it: its evidence
\* is complete and consistent by construction, through crashes and resumes.
ReportingEvidenceSuffices ==
    \A c \in Controllers :
        /\ In(c, "begin", {"REPORTING"})
        /\ edits = 0
        /\ \A i \in DOMAIN ledger :
              /\ ledger[i].status \notin {"FAILED", "HUMAN_REQUIRED"}
              /\ ledger[i].status = "COMPLETED" => ledger[i].after # NoFingerprint
        => HandoffAccepts(mem[c], ledger, workspace)

-----------------------------------------------------------------------------
(* Action properties *)

\* Durable progress obeys the transition table and ends in a terminal state: no
\* later step rewrites a terminal run record (validate_workflow_transition).
DurableTransitionsAreLegal ==
    [][ disk' # disk => LegalTransition(disk.state, disk'.state) ]_vars

\* Resume never adopts an artifact whose transition was interrupted: the record
\* leaves an active state, other than to stop, only after the controller that
\* saves it has itself started and decided the last attempt.
NoAdoption ==
    [][ disk'.state # disk.state /\ disk.state \in AttemptPhase
            /\ disk'.state \notin {"HUMAN_REQUIRED", "FAILED"}
        => \E c \in Controllers :
              /\ holder = c
              /\ att[c] = Len(ledger)
              /\ ledger[att[c]].phase = disk.state
              /\ disk'.state = RequestedState(disk.state, decision[c].outcome) ]_vars

\* A writable attempt without an outcome: its agent is at work, or was when its
\* controller went away.
OpenWrite(i) == ledger[i].phase \in WritablePhases /\ ledger[i].status = "STARTED"

\* An interrupted write is final for the run: nobody starts another attempt, of
\* whatever phase, over a writable one that has no outcome (resume_problem).
InterruptedWriteStopsRun ==
    [][ Len(ledger') > Len(ledger) => \A i \in DOMAIN ledger : ~ OpenWrite(i) ]_vars

\* The run's artifacts change only by a step of the process holding the
\* repository lock; with several controllers that is what keeps their writes to
\* run.json, attempts/, final.patch and report.md apart (repository_run_lock).
OnlyTheHolderWrites ==
    [][ <<disk, ledger, patch, report>>' # <<disk, ledger, patch, report>> =>
          \E c \in Controllers : holder = c /\ <<pc[c], mem[c]>>' # <<pc[c], mem[c]>> ]_vars

\* report.md only ever shows the terminal state that is on disk when it is
\* published.
ReportShowsDurableState ==
    [][ report' # report => report' = disk.state ]_vars

-----------------------------------------------------------------------------
(* Liveness, under FairSpec *)

\* A controller in the loop ends: it stops the run and gives the lock back,
\* unless the process dies first.
LockIsGivenBack ==
    \A c \in Controllers : holder = c ~> holder # c

\* The run comes to rest in a terminal state: however stages fail or raise, the loop
\* has no other way out, and the correction rounds run out (_drive_lifecycle,
\* _controller_failure_result).  Two things are stronger than that, and leave it to
\* a resume: the process dies, and the save that would record the stop raises too.
RunEnds == <>[](disk.state \in TerminalStates \/ crashes > 0)
=============================================================================
