-------------------------- MODULE ProcessSupervision --------------------------
(***************************************************************************)
(* One Codex invocation under SubprocessCodexRunner                        *)
(* (providers/codex_cli/process.py): the process tree it launches, the     *)
(* threads that drain its output, feed its input and record its start, and *)
(* the caller's thread that monitors the invocation, cleans it up and      *)
(* returns a result.  The threads share an event observer and a few flags; *)
(* nothing else orders their steps.                                        *)
(*                                                                         *)
(* Time is the monotonic clock since the launch, in units of which the     *)
(* constants count.  No thread is assumed to be prompt: any number of      *)
(* ticks may come between two of its steps.                                *)
(***************************************************************************)
EXTENDS Naturals

CONSTANTS
    Timeout,        \* timeout_seconds, the work deadline of the task
    Finalization,   \* FINALIZATION_SECONDS
    Cleanup,        \* CLEANUP_SECONDS
    Grace,          \* the wait of _cleanup between SIGTERM and SIGKILL
    Streams,        \* the output streams that are drained
    MaxRecords,     \* bound of exploration: records the tree may emit
    Detached        \* bound of exploration: how a descendant may leave the group

ASSUME TimesAssumption ==
    /\ Timeout \in Nat \ {0} /\ Finalization \in Nat \ {0}
    /\ Cleanup \in Nat \ {0} /\ Grace \in Nat \ {0}
    /\ Finalization <= Cleanup
ASSUME StreamsAssumption == "stdout" \in Streams /\ Streams \subseteq {"stdout", "stderr"}
ASSUME ExplorationAssumption == MaxRecords \in Nat /\ Detached \subseteq {"piped", "silent"}

VARIABLES
    clock,      \* the monotonic clock
    tree,       \* the processes of the invocation
    pipe,       \* how many JSONL records are written to stdout and not read yet
    emitted,    \* how many records the tree has written
    observer,   \* _CodexEventObserver, written by the stdout reader
    reader,     \* the two _StreamWorkers
    input,      \* the _InputWorker
    recorder,   \* the _StartObserverWorker
    cancelled,  \* cleanup has revoked and cancelled the workers
    pc,         \* where the monitoring thread is
    look,       \* what the monitor read in the present polling iteration
    finalizing, \* finalization_deadline is set
    verdict,    \* deadline_outcome and finalization_outcome
    clean,      \* the local variables of _cleanup
    result      \* what run() returned or raised

environment == <<tree, pipe, emitted>>
workers == <<observer, reader, input, recorder>>
monitor == <<pc, look, finalizing, verdict>>
vars == <<clock, environment, workers, cancelled, monitor, clean, result>>

-----------------------------------------------------------------------------
(* Values *)

Least(a, b) == IF a <= b THEN a ELSE b

\* The last instant the supervision looks at.
Horizon == Timeout + Cleanup
Time == 0 .. Horizon

Records == {"message", "completed", "failed"}

\* Of most instants only one thing is ever asked: was it before the deadline?
Moments == {"none", "timely", "late"}
Observations == [terminal: {"none", "completed", "failed"}, terminalAt: 0 .. Timeout,
                 message: Moments, problem: Moments]
NothingObserved == [terminal |-> "none", terminalAt |-> Timeout,
                    message |-> "none", problem |-> "none"]

\* What the monitor concluded about the work, before any cleanup.
Failures == {"stream-failure", "event-conflict", "terminal-failure", "expired",
             "setup-failure", "containment-failure"}
Verdicts == Failures \cup {"undecided", "pending", "completed", "not-completed",
                           "timed-out", "recorder-raised", "interrupted"}

NotLooked == [seen |-> NothingObserved, finished |-> FALSE, again |-> FALSE]
NotCleaning == [until |-> 0, wait |-> 0, confirmed |-> FALSE, forced |-> FALSE,
                reaped |-> FALSE]
NoResult == [kind |-> "none", failed |-> FALSE, confirmed |-> FALSE, cleanup |-> "none",
             code |-> 0, completion |-> FALSE, message |-> FALSE, problem |-> FALSE,
             truncated |-> FALSE]

-----------------------------------------------------------------------------
(* The process tree.  The leader is the launched wrapper, a child stands    *)
(* for the other members of its process group, and a daemon for descendants *)
(* that moved to a session of their own, with or without the output pipes.  *)
(* Codex is not in the repository; what its processes may do is taken from  *)
(* what process.py expects of them.                                         *)

\* Somebody still has the write end of the output pipes open.
WriterAlive == tree.leader = "running" \/ tree.child \/ tree.daemon = "piped"

\* Mutant: only the launched process is asked for.
BugGroupActive == tree.leader \in {"running", "zombie"}

\* containment.active(): signal 0 reaches the group.  A leader that nobody has
\* waited for still counts.
GroupActive == tree.leader \in {"running", "zombie"} \/ tree.child

Fork ==
    /\ tree.leader = "running" /\ ~tree.child /\ tree.signal # "kill"
    /\ tree' = [tree EXCEPT !.child = TRUE]
    /\ UNCHANGED <<pipe, emitted>>

Detach ==
    /\ tree.leader = "running" \/ tree.child
    /\ tree.daemon = "none" /\ tree.signal # "kill"
    /\ \E d \in Detached : tree' = [tree EXCEPT !.daemon = d]
    /\ UNCHANGED <<pipe, emitted>>

LeaderExits ==
    /\ tree.leader = "running"
    /\ \E code \in IF tree.signal = "kill" THEN {1} ELSE {0, 1} :
          tree' = [tree EXCEPT !.leader = "zombie", !.code = code]
    /\ UNCHANGED <<pipe, emitted>>

OthersExit ==
    /\ \/ tree.child /\ tree' = [tree EXCEPT !.child = FALSE]
       \/ tree.daemon # "none" /\ tree' = [tree EXCEPT !.daemon = "none"]
    /\ UNCHANGED <<pipe, emitted>>

\* What a record says is settled when it is read.
Emit ==
    /\ WriterAlive /\ emitted < MaxRecords
    /\ pipe' = pipe + 1
    /\ emitted' = emitted + 1
    /\ UNCHANGED tree

ProcessStep ==
    /\ Fork \/ Detach \/ LeaderExits \/ OthersExit \/ Emit
    /\ UNCHANGED <<clock, workers, cancelled, monitor, clean, result>>

\* process.poll() and process.wait() collect an exited leader.
Collected(t) == IF t.leader = "zombie" THEN [t EXCEPT !.leader = "reaped"] ELSE t

\* _PosixProcessGroup.terminate: the first signal is SIGTERM, the next SIGKILL.
Signalled(t) == [t EXCEPT !.signal = IF @ = "none" THEN "term" ELSE "kill"]

-----------------------------------------------------------------------------
(* The stdout reader: read a chunk, observe it, store it *)

\* The present instant, as the observer and the input writer note it.  An instant
\* after the deadline is as good as any other.
Moment == IF clock < Timeout THEN "timely" ELSE "late"

\* _CodexEventObserver._observe_line.
Observed(o, record) ==
    CASE record = "message" ->
           [o EXCEPT !.message = Moment,
                     !.problem = IF o.terminal # "none" THEN Moment ELSE @]
      [] record # "message" /\ o.terminal = "none" ->
           [o EXCEPT !.terminal = record, !.terminalAt = Least(clock, Timeout)]
      [] record # "message" /\ o.terminal \notin {"none", record} ->
           [o EXCEPT !.problem = Moment]
      [] OTHER -> o

\* The reader asks whether it is cancelled, once before each read ...
BeginRead ==
    /\ reader["stdout"].state = "reading" /\ ~cancelled
    /\ reader' = [reader EXCEPT !["stdout"].state = "armed"]
    /\ UNCHANGED <<environment, observer, input, recorder>>

\* ... and reads, whether or not it has been cancelled since: a chunk, or nothing yet.
Read ==
    /\ reader["stdout"].state = "armed"
    /\ \/ /\ pipe > 0 /\ pipe' = pipe - 1
          /\ reader' = [reader EXCEPT !["stdout"].state = "observing"]
       \/ /\ pipe = 0 /\ WriterAlive /\ UNCHANGED pipe
          /\ reader' = [reader EXCEPT !["stdout"].state = "reading"]
    /\ UNCHANGED <<tree, emitted, observer, input, recorder>>

\* It feeds the observer with what it read, however much later.
Observe ==
    /\ reader["stdout"].state = "observing"
    /\ \E record \in Records : observer' = Observed(observer, record)
    /\ reader' = [reader EXCEPT !["stdout"].state = "storing"]
    /\ UNCHANGED <<environment, input, recorder>>

\* The capture helper acknowledges the chunk.  A revoked capture ends the loop.
StoreChunk ==
    /\ reader["stdout"].state = "storing"
    /\ reader' = [reader EXCEPT !["stdout"].state = IF cancelled THEN "done" ELSE "reading"]
    /\ UNCHANGED <<environment, observer, input, recorder>>

\* End of file, or the reader was cancelled; closing the capture may fail.
ReadEnds(s) ==
    /\ reader[s].state \in {"reading", "armed"}
    /\ cancelled \/ (~WriterAlive /\ (s = "stdout" => pipe = 0))
    /\ \E error \in BOOLEAN : reader' = [reader EXCEPT ![s] = [state |-> "done", error |-> error]]
    /\ UNCHANGED <<environment, observer, input, recorder>>

\* Reading the pipe, observing or storing a chunk raises.
ReadFails(s) ==
    /\ reader[s].state \notin {"unstarted", "done"}
    /\ reader' = [reader EXCEPT ![s] = [state |-> "done", error |-> TRUE]]
    /\ UNCHANGED <<environment, observer, input, recorder>>

(* The input writer stamps its end before it publishes it *)

InputEnds ==
    /\ input.state = "writing"
    /\ \E error \in BOOLEAN :
          input' = [state |-> "stamped", error |-> error, at |-> IF error THEN "none" ELSE Moment]
    /\ UNCHANGED <<environment, observer, reader, recorder>>

InputPublishes ==
    /\ input.state = "stamped"
    /\ input' = [input EXCEPT !.state = "done"]
    /\ UNCHANGED <<environment, observer, reader, recorder>>

(* The start recorder of the lifecycle, run once after the launch *)

RecorderEnds ==
    /\ recorder = "running"
    /\ recorder' \in {"done", "raised"}
    /\ UNCHANGED <<environment, observer, reader, input>>

WorkerStep ==
    /\ \/ BeginRead \/ Read \/ Observe \/ StoreChunk
       \/ \E s \in Streams : ReadEnds(s) \/ ReadFails(s)
       \/ InputEnds \/ InputPublishes \/ RecorderEnds
    /\ UNCHANGED <<clock, cancelled, monitor, clean, result>>

Running(state) == state \notin {"unstarted", "done"}
ReadersStopped == \A s \in Streams : ~Running(reader[s].state)
RecorderStopped == recorder # "running"
WorkersDone == (\A s \in Streams : reader[s].state = "done") /\ input.state = "done"
WorkersStopped == ReadersStopped /\ ~Running(input.state)

-----------------------------------------------------------------------------
(* Launch and start recording *)

Launch ==
    /\ pc = "launch"
    /\ tree' = [tree EXCEPT !.leader = "running"]
    /\ pc' = "contain"
    /\ UNCHANGED <<pipe, emitted, workers, cancelled, look, finalizing, verdict, clean, result>>

\* A capture helper does not start, or Popen raises: nothing was launched.
LaunchFails ==
    /\ pc = "launch"
    /\ result' = [NoResult EXCEPT !.kind = "not-launched"]
    /\ pc' = "over"
    /\ UNCHANGED <<environment, workers, cancelled, look, finalizing, verdict, clean>>

\* The readers run from here on, and the recorder beside them.
Contain ==
    /\ pc = "contain"
    /\ reader' = [s \in Streams |-> [state |-> "reading", error |-> FALSE]]
    /\ recorder' = "running"
    /\ pc' = "notify"
    /\ UNCHANGED <<environment, observer, input, cancelled, look, finalizing, verdict,
                   clean, result>>

\* Where cleanup starts: the budget is shared by everything it does.
CleanupBudget(v) ==
    IF v = "timed-out" THEN Timeout + Cleanup
    ELSE Least(clock + Cleanup, Timeout + Cleanup)

StartCleanup(v) ==
    /\ verdict' = v
    /\ clean' = [NotCleaning EXCEPT !.until = CleanupBudget(v)]
    /\ pc' = "terminate"
    /\ look' = NotLooked /\ finalizing' = FALSE
    /\ UNCHANGED <<environment, workers, cancelled, result>>

\* Containment cannot be set up: the process alone is killed and waited for, and
\* cleanup of the tree never counts as confirmed.
ContainFails ==
    /\ pc = "contain"
    /\ tree' = [tree EXCEPT !.signal = "kill"]
    /\ verdict' = "containment-failure"
    /\ clean' = [NotCleaning EXCEPT !.until = CleanupBudget(verdict'), !.forced = TRUE]
    /\ pc' = "reap"
    /\ UNCHANGED <<pipe, emitted, workers, cancelled, look, finalizing, result>>

\* _notify_process_start saw the recorder's end ...
NotifyReturns ==
    /\ pc = "notify" /\ recorder = "done"
    /\ input' = [input EXCEPT !.state = "writing"]
    /\ pc' = "observe"
    /\ UNCHANGED <<environment, observer, reader, recorder, cancelled, look, finalizing,
                   verdict, clean, result>>

NotifyRaises == pc = "notify" /\ recorder = "raised" /\ StartCleanup("recorder-raised")

\* ... or the deadline before it.
NotifyExpires ==
    /\ pc = "notify" /\ recorder = "running" /\ clock >= Timeout
    /\ StartCleanup("timed-out")

\* The calling thread is interrupted, or a call of the monitor raises.
MonitorRaises ==
    /\ pc \in {"notify", "observe", "poll", "decide", "settle"}
    /\ \E v \in {"interrupted", "setup-failure"} : StartCleanup(v)

-----------------------------------------------------------------------------
(* One polling iteration of _monitor: a snapshot of the observer, then the   *)
(* processes and threads, then the clock and the decision.                   *)

Look(next, l) ==
    /\ look' = l
    /\ pc' = next
    /\ UNCHANGED <<pipe, emitted, workers, cancelled, finalizing, verdict, clean, result>>

LookAtObserver ==
    /\ pc = "observe"
    /\ Look("poll", [look EXCEPT !.seen = observer])
    /\ UNCHANGED tree

\* Mutant: the exit of the leader ends the invocation, whatever the workers still do.
BugLookAtProcess ==
    /\ pc = "poll"
    /\ tree' = Collected(tree)
    /\ Look("decide", [look EXCEPT
            !.finished = tree.leader # "running" /\ ~tree.child,
            !.seen = IF WorkersDone THEN observer ELSE @])

\* process.poll(), containment.active() and the workers' done flags are one look:
\* none of them goes back.  Workers that have all published their end leave the
\* observer alone, so it is read again.
LookAtProcess ==
    /\ pc = "poll"
    /\ tree' = Collected(tree)
    /\ Look("decide", [look EXCEPT
            !.finished = tree.leader # "running" /\ ~tree.child /\ WorkersDone,
            !.seen = IF WorkersDone THEN observer ELSE @])

FinalizationDeadline == look.seen.terminalAt + Finalization

\* Mutant: at the deadline the first look is good enough.
BugMustLookAgain ==
    /\ ~look.again
    /\ look.finished \/ (finalizing /\ clock >= FinalizationDeadline)

\* Near an end everything is read once more, and the clock after it.
MustLookAgain ==
    /\ ~look.again
    /\ \/ look.finished
       \/ clock >= Timeout
       \/ finalizing /\ clock >= FinalizationDeadline

LookAgain ==
    /\ pc = "decide" /\ MustLookAgain
    /\ Look("observe", [look EXCEPT !.again = TRUE])
    /\ UNCHANGED tree

-----------------------------------------------------------------------------
(* The decision of a polling iteration *)

StreamError == input.error \/ \E s \in Streams : reader[s].error
TimelyTerminal(o) == o.terminal = "completed" /\ o.terminalAt < Timeout
TimelyMessage(o) == o.message = "timely"
TimelyInput == input.state = "done" /\ input.at = "timely"
TimelyFailure == look.seen.terminal = "failed" /\ look.seen.terminalAt < Timeout
Eligible == TimelyTerminal(look.seen) /\ TimelyMessage(look.seen) /\ TimelyInput
Conflict ==
    /\ look.seen.problem # "none"
    /\ finalizing \/ Eligible \/ TimelyFailure \/ look.seen.problem = "timely"

\* The tests in the order of the code.
Decision ==
    IF StreamError THEN "stream-failure"
    ELSE IF Conflict THEN "event-conflict"
    ELSE IF TimelyFailure THEN "terminal-failure"
    ELSE IF Eligible THEN
        IF look.finished /\ clock < FinalizationDeadline THEN "completed"
        ELSE IF clock >= FinalizationDeadline THEN "expired" ELSE "pending"
    ELSE IF clock >= Timeout THEN "timed-out"
    ELSE IF look.finished THEN "not-completed"
    ELSE "undecided"

PollAgain ==
    /\ pc = "decide" /\ ~MustLookAgain /\ Decision \in {"pending", "undecided"}
    /\ finalizing' = (finalizing \/ Decision = "pending")
    /\ look' = NotLooked
    /\ pc' = "observe"
    /\ UNCHANGED <<environment, workers, cancelled, verdict, clean, result>>

DecideTimeout == pc = "decide" /\ ~MustLookAgain /\ Decision = "timed-out" /\ StartCleanup("timed-out")

\* The loop ends without a timeout; what is left to clean up is looked at after it.
DecideEnd ==
    /\ pc = "decide" /\ ~MustLookAgain
    /\ Decision \in Failures \cup {"completed", "not-completed"}
    /\ verdict' = Decision
    /\ pc' = "settle"
    /\ look' = NotLooked /\ finalizing' = FALSE
    /\ UNCHANGED <<environment, workers, cancelled, clean, result>>

-----------------------------------------------------------------------------
(* Results.  The evidence is taken from the observer as it is now. *)

Result(kind, failed, confirmed, cleanup, truncated) ==
    [kind |-> kind, failed |-> failed, confirmed |-> confirmed, cleanup |-> cleanup,
     code |-> IF tree.leader = "reaped" THEN tree.code ELSE 1,
     completion |-> TimelyTerminal(observer),
     message |-> TimelyMessage(observer),
     problem |-> observer.problem # "none",
     truncated |-> truncated]

Return(r) ==
    /\ result' = r
    /\ pc' = "over"
    /\ clean' = NotCleaning
    /\ UNCHANGED <<pipe, emitted, workers, cancelled, look, finalizing, verdict>>

CleanupRequired == verdict \in Failures \/ GroupActive \/ ~WorkersDone

SettleWithoutCleanup ==
    /\ pc = "settle" /\ ~CleanupRequired
    /\ \E closed \in BOOLEAN :
          Return(Result("returned", ~closed, TRUE,
                        IF closed THEN "not-required" ELSE "incomplete", FALSE))
    /\ UNCHANGED tree

SettleByCleanup == pc = "settle" /\ CleanupRequired /\ StartCleanup(verdict)

-----------------------------------------------------------------------------
(* _cleanup *)

Clean(next, c) ==
    /\ clean' = c
    /\ pc' = next
    /\ UNCHANGED <<pipe, emitted, workers, look, finalizing, verdict, result>>

Terminate ==
    /\ pc = "terminate"
    /\ tree' = Signalled(tree)
    /\ Clean("grace", [clean EXCEPT !.wait = Least(clean.until, clock + Grace)])
    /\ UNCHANGED cancelled

\* The group ended within the grace period ...
GraceSucceeds ==
    /\ pc = "grace" /\ clock < clean.wait
    /\ tree' = Collected(tree)
    /\ tree.leader # "running" /\ ~tree.child
    /\ Clean("again", [clean EXCEPT !.confirmed = TRUE])
    /\ UNCHANGED cancelled

\* ... or did not.
GraceExpires ==
    /\ pc = "grace" /\ clock >= clean.wait
    /\ Clean("again", clean)
    /\ UNCHANGED <<tree, cancelled>>

TerminateAgain ==
    /\ pc = "again"
    /\ tree' = IF ~clean.confirmed /\ clock < clean.until THEN Signalled(tree) ELSE tree
    /\ Clean("drain", [clean EXCEPT !.wait =
                          Least(clean.until, IF clock < clean.until THEN clock + ((clean.until - clock) \div 2)
                                                  ELSE clean.until)])
    /\ UNCHANGED cancelled

\* Half of what is left of the budget belongs to the readers; whoever still runs
\* then is revoked.  Everybody is cancelled.
Revoke ==
    /\ pc = "drain"
    /\ ReadersStopped \/ clock >= clean.wait
    /\ cancelled' = TRUE
    /\ Clean("join", [clean EXCEPT !.forced = ~ReadersStopped])
    /\ UNCHANGED tree

\* Mutant: the workers are joined without a deadline.
BugJoin ==
    /\ pc = "join"
    /\ WorkersStopped
    /\ Clean("reap", clean)
    /\ UNCHANGED <<tree, cancelled>>

\* The recorder is waited for only briefly, the workers until the end.
Join ==
    /\ pc = "join"
    /\ WorkersStopped \/ clock >= clean.until
    /\ Clean("reap", clean)
    /\ UNCHANGED <<tree, cancelled>>

Reap ==
    /\ pc = "reap"
    /\ tree.leader # "running" \/ clock >= clean.until
    /\ tree' = Collected(tree)
    /\ Clean("confirm", [clean EXCEPT !.reaped = tree.leader # "running"])
    /\ UNCHANGED cancelled

\* terminate() or active() may raise on Windows; the group then counts as alive.
Raised == {"recorder-raised", "interrupted"}

\* Mutant: cleanup is complete when the process tree is gone.
BugConfirm ==
    /\ pc = "confirm"
    /\ \E known \in BOOLEAN, closed \in BOOLEAN :
          LET confirmed == known /\ ~GroupActive /\ verdict # "containment-failure"
              complete == confirmed /\ clean.reaped /\ closed
              truncated == clean.forced \/ \E s \in Streams : reader[s].error
          IN  Return(IF verdict \in Raised
                     THEN [NoResult EXCEPT !.kind = "raised", !.confirmed = confirmed]
                     ELSE Result(IF verdict = "timed-out" THEN "timed-out" ELSE "returned",
                                 verdict \in Failures \/ ~confirmed, confirmed,
                                 IF complete THEN "completed" ELSE "incomplete", truncated))
    /\ UNCHANGED tree

Confirm ==
    /\ pc = "confirm"
    /\ \E known \in BOOLEAN, closed \in BOOLEAN :
          LET confirmed == known /\ ~GroupActive /\ verdict # "containment-failure"
              complete == confirmed /\ clean.reaped /\ closed /\ WorkersStopped /\ RecorderStopped
              truncated == clean.forced \/ \E s \in Streams : reader[s].error
          IN  Return(IF verdict \in Raised
                     THEN [NoResult EXCEPT !.kind = "raised", !.confirmed = confirmed]
                     ELSE Result(IF verdict = "timed-out" THEN "timed-out" ELSE "returned",
                                 verdict \in Failures \/ ~confirmed, confirmed,
                                 IF complete THEN "completed" ELSE "incomplete", truncated))
    /\ UNCHANGED tree

-----------------------------------------------------------------------------

MonitorStep ==
    /\ \/ Launch \/ LaunchFails \/ Contain \/ ContainFails
       \/ NotifyReturns \/ NotifyRaises \/ NotifyExpires
       \/ LookAtObserver \/ LookAtProcess \/ LookAgain
       \/ PollAgain \/ DecideTimeout \/ DecideEnd
       \/ SettleWithoutCleanup \/ SettleByCleanup
       \/ Terminate \/ GraceSucceeds \/ GraceExpires \/ TerminateAgain
       \/ Revoke \/ Join \/ Reap \/ Confirm
    /\ UNCHANGED clock

Interruption == MonitorRaises /\ UNCHANGED clock

\* The clock is of no interest before the launch and after the result.
Tick ==
    /\ clock < Horizon /\ tree.leader # "absent" /\ pc # "over"
    /\ clock' = clock + 1
    /\ UNCHANGED <<environment, workers, cancelled, monitor, clean, result>>

Init ==
    /\ clock = 0
    /\ tree = [leader |-> "absent", child |-> FALSE, daemon |-> "none",
               signal |-> "none", code |-> 0]
    /\ pipe = 0 /\ emitted = 0
    /\ observer = NothingObserved
    /\ reader = [s \in Streams |-> [state |-> "unstarted", error |-> FALSE]]
    /\ input = [state |-> "unstarted", error |-> FALSE, at |-> "none"]
    /\ recorder = "unstarted"
    /\ cancelled = FALSE
    /\ pc = "launch" /\ look = NotLooked /\ finalizing = FALSE /\ verdict = "undecided"
    /\ clean = NotCleaning
    /\ result = NoResult

Next == Tick \/ ProcessStep \/ WorkerStep \/ MonitorStep \/ Interruption
Spec == Init /\ [][Next]_vars

FairSpec == Spec /\ WF_vars(Tick) /\ WF_vars(MonitorStep)

-----------------------------------------------------------------------------
(* Properties *)

Trees == [leader: {"absent", "running", "zombie", "reaped"}, child: BOOLEAN,
          daemon: {"none", "piped", "silent"}, signal: {"none", "term", "kill"}, code: {0, 1}]
Readers == [state: {"unstarted", "reading", "armed", "observing", "storing", "done"},
            error: BOOLEAN]
Inputs == [state: {"unstarted", "writing", "stamped", "done"}, error: BOOLEAN, at: Moments]
Points == {"launch", "contain", "notify", "observe", "poll", "decide", "settle", "terminate",
           "grace", "again", "drain", "join", "reap", "confirm", "over"}
Looks == [seen: Observations, finished: BOOLEAN, again: BOOLEAN]
Cleanings == [until: Time, wait: Time, confirmed: BOOLEAN, forced: BOOLEAN, reaped: BOOLEAN]
Results == [kind: {"none", "not-launched", "returned", "timed-out", "raised"},
            failed: BOOLEAN, confirmed: BOOLEAN,
            cleanup: {"none", "not-required", "completed", "incomplete"},
            code: {0, 1}, completion: BOOLEAN, message: BOOLEAN, problem: BOOLEAN,
            truncated: BOOLEAN]

\* The shared fields of the threads and the locals of the monitor and of _cleanup have their
\* types, and every wait lies within the shared budget of the invocation.
TypeOK ==
    /\ clock \in Time
    /\ tree \in Trees /\ pipe \in 0 .. MaxRecords /\ emitted \in 0 .. MaxRecords
    /\ observer \in Observations /\ reader \in [Streams -> Readers] /\ input \in Inputs
    /\ recorder \in {"unstarted", "running", "done", "raised"}
    /\ cancelled \in BOOLEAN
    /\ pc \in Points /\ look \in Looks /\ finalizing \in BOOLEAN /\ verdict \in Verdicts
    /\ clean \in Cleanings /\ result \in Results

\* The result the adapter goes on to accept (adapter.py:431-495): it looks at the
\* evidence, not at the verdict of the monitor.
Accepted ==
    /\ result.kind = "returned" /\ ~result.failed
    /\ result.code = 0 /\ result.completion /\ result.message

\* The evidence the adapter accepts is gathered again after the monitor has decided,
\* by another read of the observer.  It is accepted only if the monitor itself saw a
\* completion, message, input and exit in time, without a contradiction, and then
\* nothing of the output is left unread and no process can produce more.
AcceptedMeansCompleted ==
    Accepted =>
        /\ verdict = "completed"
        /\ ~result.problem
        /\ pipe = 0 /\ ~WriterAlive /\ ~GroupActive
        /\ ~StreamError /\ TimelyInput

\* A confirmed termination (tree_termination_confirmed) means that no process of the
\* group is left, now or later, whatever it did about its signals.
GroupAlive == tree.leader = "running" \/ tree.child
ConfirmedMeansGroupGone == result.confirmed => ~GroupAlive

\* The deadline is applied to a snapshot.  An invocation that completed in time is
\* not given up for one taken too early: when the monitor calls it timed out, the
\* observer itself does not show a timely completion and message beside a delivered
\* input.
NoTimelyCompletionIsTimedOut ==
    [][verdict # "timed-out" /\ verdict' = "timed-out" /\ pc = "decide"
       => ~(TimelyTerminal(observer) /\ TimelyMessage(observer) /\ TimelyInput)]_vars

\* A reader that stalls after its read may observe a record when run() has returned
\* or raised: the evidence of the result is not what the observer shows in the end.
\* Nothing the adapter accepts is such a result, the result says that its output is
\* incomplete, and the reader is cancelled: the record is the last one it observes.
EvidenceIsFinal ==
    [][pc = "over" /\ observer' # observer
       => /\ ~Accepted /\ cancelled
          /\ result.kind = "raised" \/ (result.truncated /\ result.cleanup = "incomplete")]_vars

\* The run returns whatever the processes, the helpers, the pipes and the recorder do:
\* every wait of the monitor and of cleanup ends at a deadline.
RunReturns == <>(pc = "over")

\* What the adapter is handed over, as the contract speaks of it.
Outcome ==
    [kind |-> result.kind, failed |-> result.failed,
     expired |-> result.kind # "none" /\ verdict = "expired",
     confirmed |-> result.confirmed, success |-> result.kind # "none" /\ result.code = 0,
     completion |-> result.completion, message |-> result.message]
Contract == INSTANCE RunnerContract WITH alive <- GroupAlive, outcome <- Outcome

\* The runner keeps its contract with the adapter: nothing is launched once an outcome
\* is handed over, and the outcome is true of the process group where the adapter
\* relies on it.
RunnerContractImplemented == Contract!ContractSpec
=============================================================================
