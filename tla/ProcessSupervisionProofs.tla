---------------------- MODULE ProcessSupervisionProofs ----------------------
(***************************************************************************)
(* Theorems about the supervision of one invocation, for any deadlines and *)
(* budgets, any number of records and any order of the threads' steps.     *)
(***************************************************************************)
EXTENDS ProcessSupervision, TLAPS

-----------------------------------------------------------------------------
(* The inductive invariant, part by part *)

RaisingVerdicts == Failures \cup {"timed-out", "recorder-raised", "interrupted"}
CleanupPoints == {"terminate", "grace", "again", "drain", "join", "reap", "confirm"}

TypesInv == TypeOK /\ pipe <= emitted

\* A result is there at the end only, and a group that was gone stays gone.
ResultInv ==
    /\ pc # "over" => result = NoResult
    /\ result.confirmed => ~GroupAlive
    /\ tree.leader = "absent" => pc \in {"launch", "over"} /\ ~tree.child
    /\ pc = "launch" => tree.leader = "absent" /\ verdict = "undecided"
    /\ pc \in CleanupPoints => verdict \in RaisingVerdicts

\* Nobody reads behind the back of the result: a reader that may still read has been
\* cancelled by then.
ReaderInv ==
    /\ pc \in {"launch", "contain", "notify"} => input.state = "unstarted"
    /\ pc \in {"launch", "contain"} => \A s \in Streams : reader[s].state = "unstarted"
    /\ cancelled => pc \in {"join", "reap", "confirm", "over"}
    /\ pc \in {"join", "reap", "confirm", "over"} =>
          cancelled \/ reader["stdout"].state \in {"unstarted", "done"}
    /\ reader["stdout"].state = "done" /\ ~reader["stdout"].error =>
          cancelled \/ (~WriterAlive /\ pipe = 0)

\* A reader that has not stopped at its deadline is forced, and the result tells it.
Tells == result.kind = "raised" \/ (result.truncated /\ result.cleanup = "incomplete")
StalledInv ==
    Running(reader["stdout"].state) =>
        /\ pc \in {"join", "reap", "confirm"} => clean.forced
        /\ pc = "over" => Tells

\* What the threads stamped is true of the clock.
StampInv ==
    /\ input.at = "late" => clock >= Timeout
    /\ input.state \in {"stamped", "done"} /\ ~input.error => input.at # "none"
    /\ observer.message = "late" => clock >= Timeout

\* What the monitor knows is true of the processes and the observer.
Ended == WorkersDone /\ tree.leader = "reaped" /\ ~tree.child
LookInv ==
    /\ look.finished => Ended /\ look.seen = observer
    /\ TimelyTerminal(look.seen) => TimelyTerminal(observer)
    /\ look.seen.message # "none" => observer.message # "none"

FinalizingInv ==
    finalizing =>
        /\ pc \in {"observe", "poll", "decide"}
        /\ TimelyTerminal(observer) /\ TimelyInput /\ observer.message # "none"
        /\ pc # "observe" =>
              /\ TimelyTerminal(look.seen)
              /\ TimelyMessage(observer) => TimelyMessage(look.seen)
              /\ ~TimelyMessage(look.seen) => clock >= Timeout

\* A second look that was made for the deadline's sake came after it.
AgainInv ==
    look.again =>
        \/ look.finished
        \/ finalizing
        \/ /\ clock >= Timeout
           /\ pc \in {"poll", "decide"} /\ TimelyTerminal(observer) /\ TimelyMessage(observer)
              => TimelyTerminal(look.seen) /\ TimelyMessage(look.seen)

SettleInv ==
    /\ pc = "settle" => verdict \in Failures \cup {"completed", "not-completed"}
    /\ pc = "settle" /\ verdict \notin Failures =>
        /\ Ended /\ ~StreamError
        /\ verdict = "completed" => TimelyInput /\ observer.problem = "none"
        /\ verdict = "not-completed" => ~(TimelyTerminal(observer) /\ TimelyMessage(observer))

AcceptedInv == Accepted => AcceptedMeansCompleted /\ Ended

IInv ==
    /\ TypesInv
    /\ ResultInv /\ ReaderInv /\ StalledInv /\ StampInv /\ LookInv /\ FinalizingInv
    /\ AgainInv /\ SettleInv /\ AcceptedInv

-----------------------------------------------------------------------------
(* Types *)

LEMMA Instants ==
    /\ Timeout \in Time /\ 0 \in Time /\ Horizon \in Nat
    /\ \A t \in Time : t \in Nat /\ Least(t, Timeout) \in 0 .. Timeout
    /\ \A v \in Verdicts : clock \in Time => CleanupBudget(v) \in Time
BY TimesAssumption DEF Time, Horizon, Least, CleanupBudget

LEMMA Half ==
    ASSUME NEW a \in Time, NEW b \in Time, a < b
    PROVE  a + ((b - a) \div 2) \in Time
BY TimesAssumption DEF Time, Horizon

LEMMA Defaults ==
    /\ NothingObserved \in Observations /\ NotLooked \in Looks
    /\ NotCleaning \in Cleanings /\ NoResult \in Results
BY Instants DEF NothingObserved, Observations, Moments, NotLooked, Looks, NotCleaning, Cleanings,
                NoResult, Results

LEMMA InitTypes == Init => TypesInv
<1> SUFFICES ASSUME Init PROVE TypesInv
  OBVIOUS
<1>1. tree \in Trees /\ input \in Inputs /\ reader \in [Streams -> Readers]
  BY DEF Init, Trees, Inputs, Moments, Readers
<1>2. pc \in Points /\ verdict \in Verdicts
  BY DEF Init, Points, Verdicts
<1>3. clock \in Time /\ observer \in Observations /\ look \in Looks
  BY Instants, Defaults DEF Init
<1>4. clean \in Cleanings /\ result \in Results
  BY Defaults DEF Init
<1>5. pipe \in 0 .. MaxRecords /\ emitted \in 0 .. MaxRecords /\ pipe <= emitted
  BY ExplorationAssumption DEF Init
<1>6. /\ recorder \in {"unstarted", "running", "done", "raised"}
      /\ cancelled \in BOOLEAN /\ finalizing \in BOOLEAN
  BY DEF Init
<1> QED
  BY <1>1, <1>2, <1>3, <1>4, <1>5, <1>6 DEF TypesInv, TypeOK

LEMMA ProcessTypes == TypesInv /\ ProcessStep => TypesInv'
<1> SUFFICES ASSUME TypesInv, ProcessStep PROVE TypesInv'
  OBVIOUS
<1>1. tree' \in Trees
  <2>1. CASE Fork
    BY <2>1 DEF Fork, TypesInv, TypeOK, Trees
  <2>2. CASE Detach
    BY <2>2, ExplorationAssumption DEF Detach, TypesInv, TypeOK, Trees
  <2>3. CASE LeaderExits
    BY <2>3 DEF LeaderExits, TypesInv, TypeOK, Trees
  <2>4. CASE OthersExit
    BY <2>4 DEF OthersExit, TypesInv, TypeOK, Trees
  <2>5. CASE Emit
    BY <2>5 DEF Emit, TypesInv, TypeOK
  <2> QED
    BY <2>1, <2>2, <2>3, <2>4, <2>5 DEF ProcessStep
<1>2. pipe' \in 0 .. MaxRecords /\ emitted' \in 0 .. MaxRecords /\ pipe' <= emitted'
  <2>1. CASE UNCHANGED <<pipe, emitted>>
    BY <2>1 DEF TypesInv, TypeOK
  <2>2. CASE Emit
    BY <2>2, ExplorationAssumption DEF Emit, TypesInv, TypeOK
  <2> QED
    BY <2>1, <2>2 DEF ProcessStep, Fork, Detach, LeaderExits, OthersExit
<1> QED
  BY <1>1, <1>2 DEF ProcessStep, TypesInv, TypeOK, workers, monitor

LEMMA ObservedType ==
    ASSUME TypeOK, NEW record \in Records
    PROVE  Observed(observer, record) \in Observations
BY Instants DEF TypeOK, Observed, Observations, Moment, Moments, Records, Time

LEMMA WorkerTypes == TypesInv /\ WorkerStep => TypesInv'
<1> SUFFICES ASSUME TypesInv, WorkerStep PROVE TypesInv'
  OBVIOUS
<1>1. observer' \in Observations
  BY ObservedType DEF WorkerStep, BeginRead, Read, Observe, StoreChunk, ReadEnds, ReadFails, InputEnds,
                      InputPublishes, RecorderEnds, TypesInv, TypeOK
<1>2. reader' \in [Streams -> Readers]
  <2>1. CASE UNCHANGED reader
    BY <2>1 DEF TypesInv, TypeOK
  <2>2. ASSUME NEW s \in Streams,
               \E state \in {"done", "reading", "storing"}, error \in BOOLEAN :
                  reader' = [reader EXCEPT ![s] = [state |-> state, error |-> error]]
        PROVE  reader' \in [Streams -> Readers]
    BY <2>2 DEF TypesInv, TypeOK, Readers
  <2>3. ASSUME NEW s \in Streams,
               \E state \in {"done", "reading", "armed", "observing", "storing"} :
                  reader' = [reader EXCEPT ![s].state = state]
        PROVE  reader' \in [Streams -> Readers]
    BY <2>3 DEF TypesInv, TypeOK, Readers
  <2>4. CASE BeginRead \/ Read \/ Observe \/ StoreChunk
    BY <2>3, <2>4, StreamsAssumption DEF BeginRead, Read, Observe, StoreChunk
  <2>5. ASSUME NEW s \in Streams, ReadEnds(s) \/ ReadFails(s)
        PROVE  reader' \in [Streams -> Readers]
    BY <2>2, <2>5 DEF ReadEnds, ReadFails
  <2> QED
    BY <2>1, <2>4, <2>5 DEF WorkerStep, InputEnds, InputPublishes, RecorderEnds
<1>3. input' \in Inputs
  BY DEF WorkerStep, BeginRead, Read, Observe, StoreChunk, ReadEnds, ReadFails, InputEnds, InputPublishes,
         RecorderEnds, TypesInv, TypeOK, Inputs, Moment, Moments
<1>4. /\ pipe' \in 0 .. MaxRecords /\ pipe' <= emitted'
      /\ UNCHANGED <<tree, emitted>>
  BY ExplorationAssumption
     DEF WorkerStep, BeginRead, Read, Observe, StoreChunk, ReadEnds, ReadFails, InputEnds, InputPublishes,
         RecorderEnds, TypesInv, TypeOK, environment
<1>5. recorder' \in {"unstarted", "running", "done", "raised"}
  BY DEF WorkerStep, BeginRead, Read, Observe, StoreChunk, ReadEnds, ReadFails, InputEnds, InputPublishes,
         RecorderEnds, TypesInv, TypeOK
<1> QED
  BY <1>1, <1>2, <1>3, <1>4, <1>5 DEF WorkerStep, TypesInv, TypeOK, monitor

LEMMA CleaningType ==
    ASSUME TypeOK, NEW v \in Verdicts, NEW forced \in BOOLEAN
    PROVE  [NotCleaning EXCEPT !.until = CleanupBudget(v), !.forced = forced] \in Cleanings
BY Instants, Defaults DEF TypeOK, Cleanings

LEMMA StartCleanupTypes ==
    ASSUME TypesInv, UNCHANGED clock, NEW v \in Verdicts, StartCleanup(v)
    PROVE  TypesInv'
<1>1. clean' \in Cleanings
  BY Instants, Defaults DEF StartCleanup, TypesInv, TypeOK, Cleanings
<1>2. pc' \in Points
  BY DEF StartCleanup, Points
<1> QED
  BY <1>1, <1>2, Defaults DEF TypesInv, TypeOK, StartCleanup, environment, workers

LEMMA ResultType ==
    ASSUME NEW kind \in {"returned", "timed-out"}, NEW failed \in BOOLEAN,
           NEW confirmed \in BOOLEAN, NEW cleanup \in {"not-required", "completed", "incomplete"},
           NEW truncated \in BOOLEAN, TypeOK
    PROVE  Result(kind, failed, confirmed, cleanup, truncated) \in Results
BY DEF TypeOK, Result, TimelyTerminal, TimelyMessage, Trees, Results

LEMMA CollectedType ==
    ASSUME TypeOK
    PROVE  Collected(tree) \in Trees /\ Signalled(tree) \in Trees
BY DEF TypeOK, Trees, Collected, Signalled

LEMMA MonitorTypes == TypesInv /\ (MonitorStep \/ Interruption) => TypesInv'
<1> SUFFICES ASSUME TypesInv, MonitorStep \/ Interruption PROVE TypesInv'
  OBVIOUS
<1>0. UNCHANGED clock
  BY DEF MonitorStep, Interruption
<1> USE <1>0, ExplorationAssumption, StreamsAssumption
    DEF TypesInv, TypeOK, environment, workers, Look, Clean
<1>1. CASE Launch
  BY <1>1 DEF Launch, Trees, Points
<1>2. CASE LaunchFails
  <2>1. result' \in Results
    BY <1>2 DEF LaunchFails, NoResult, Results
  <2> QED
    BY <1>2, <2>1 DEF LaunchFails, Points
<1>3. CASE Contain
  BY <1>3 DEF Contain, Readers, Points
<1>4. CASE ContainFails
  <2>1. tree' \in Trees
    BY <1>4 DEF ContainFails, Trees
  <2>2. verdict' \in Verdicts
    BY <1>4 DEF ContainFails, Verdicts, Failures
  <2>3. clean' \in Cleanings
    BY <1>4, <2>2, CleaningType DEF ContainFails
  <2> QED
    BY <1>4, <2>1, <2>2, <2>3 DEF ContainFails, Points
<1>5. CASE NotifyReturns
  BY <1>5 DEF NotifyReturns, Inputs, Points
<1>6. CASE NotifyRaises \/ NotifyExpires \/ MonitorRaises \/ DecideTimeout \/ SettleByCleanup
           \/ SettleByCleanup
  <2>1. \E v \in Verdicts : StartCleanup(v)
    BY <1>6 DEF NotifyRaises, NotifyExpires, MonitorRaises, DecideTimeout, SettleByCleanup,
                SettleByCleanup, Verdicts, Failures
  <2> QED
    BY <2>1, StartCleanupTypes
<1>7. CASE LookAtObserver
  BY <1>7 DEF LookAtObserver, Looks, Points
<1>8. CASE LookAtProcess
  <2>1. look' \in Looks
    BY <1>8 DEF LookAtProcess, WorkersDone, Looks
  <2> QED
    BY <1>8, <2>1, CollectedType DEF LookAtProcess, Points
<1>9. CASE LookAgain
  BY <1>9 DEF LookAgain, Looks, Points
<1>10. CASE PollAgain
  BY <1>10, Defaults DEF PollAgain, Points
<1>11. CASE DecideEnd
  <2>1. verdict' \in Verdicts
    BY <1>11 DEF DecideEnd, Verdicts
  <2> QED
    BY <1>11, <2>1, Defaults DEF DecideEnd, Points
<1>12. CASE SettleWithoutCleanup
  <2>1. PICK closed \in BOOLEAN :
           Return(Result("returned", ~closed, TRUE,
                         IF closed THEN "not-required" ELSE "incomplete", FALSE))
    BY <1>12 DEF SettleWithoutCleanup
  <2>2. result' \in Results
    BY <2>1, ResultType DEF Return
  <2> QED
    BY <1>12, <2>1, <2>2, Defaults DEF SettleWithoutCleanup, Return, Points
<1>13. CASE Terminate
  <2>1. Least(clean.until, clock + Grace) \in Time
    BY TimesAssumption DEF Time, Least, Horizon, Cleanings
  <2>2. clean' \in Cleanings
    BY <1>13, <2>1 DEF Terminate, Cleanings
  <2> QED
    BY <1>13, <2>2, CollectedType DEF Terminate, Points
<1>14. CASE GraceSucceeds
  BY <1>14, CollectedType DEF GraceSucceeds, Cleanings, Points
<1>15. CASE GraceExpires
  BY <1>15 DEF GraceExpires, Points
<1>16. CASE TerminateAgain
  <2>1. \E w \in Time : clean' = [clean EXCEPT !.wait = w]
    <3>1. clean.until \in Time
      BY DEF Cleanings
    <3>2. CASE clock < clean.until
      <4>1. clock + ((clean.until - clock) \div 2) \in Time
        BY <3>1, <3>2, Half
      <4>2. Least(clean.until, clock + ((clean.until - clock) \div 2)) \in Time
        BY <3>1, <4>1 DEF Least
      <4> QED
        BY <1>16, <3>2, <4>2 DEF TerminateAgain
    <3>3. CASE ~(clock < clean.until)
      <4>1. Least(clean.until, clean.until) \in Time
        BY <3>1 DEF Least
      <4> QED
        BY <1>16, <3>3, <4>1 DEF TerminateAgain
    <3> QED
      BY <3>2, <3>3
  <2>2. clean' \in Cleanings
    BY <2>1 DEF Cleanings
  <2>3. tree' \in Trees
    BY <1>16, CollectedType DEF TerminateAgain
  <2> QED
    BY <1>16, <2>2, <2>3 DEF TerminateAgain, Points
<1>17. CASE Revoke
  <2>1. clean' \in Cleanings
    BY <1>17 DEF Revoke, ReadersStopped, Cleanings
  <2> QED
    BY <1>17, <2>1 DEF Revoke, Points
<1>18. CASE Join
  BY <1>18 DEF Join, Points
<1>19. CASE Reap
  <2>1. clean' \in Cleanings
    BY <1>19 DEF Reap, Cleanings
  <2> QED
    BY <1>19, <2>1, CollectedType DEF Reap, Points
<1>20. CASE Confirm
  <2>1. result' \in Results /\ clean' = NotCleaning /\ pc' = "over"
    <3>1. PICK known \in BOOLEAN, closed \in BOOLEAN :
             LET confirmed == known /\ ~GroupActive /\ verdict # "containment-failure"
                 complete == confirmed /\ clean.reaped /\ closed /\ WorkersStopped /\ RecorderStopped
                 truncated == clean.forced \/ \E s \in Streams : reader[s].error
             IN  Return(IF verdict \in Raised
                        THEN [NoResult EXCEPT !.kind = "raised", !.confirmed = confirmed]
                        ELSE Result(IF verdict = "timed-out" THEN "timed-out" ELSE "returned",
                                    verdict \in Failures \/ ~confirmed, confirmed,
                                    IF complete THEN "completed" ELSE "incomplete", truncated))
      BY <1>20 DEF Confirm
    <3> DEFINE confirmed == known /\ ~GroupActive /\ verdict # "containment-failure"
               complete == confirmed /\ clean.reaped /\ closed /\ WorkersStopped /\ RecorderStopped
               truncated == clean.forced \/ \E s \in Streams : reader[s].error
    <3>2. confirmed \in BOOLEAN /\ truncated \in BOOLEAN
      BY DEF Cleanings
    <3> HIDE DEF confirmed, complete, truncated
    <3>3. [NoResult EXCEPT !.kind = "raised", !.confirmed = confirmed] \in Results
      BY <3>2 DEF NoResult, Results
    <3>4. Result(IF verdict = "timed-out" THEN "timed-out" ELSE "returned",
                 verdict \in Failures \/ ~confirmed, confirmed,
                 IF complete THEN "completed" ELSE "incomplete", truncated) \in Results
      BY <3>2, ResultType
    <3> QED
      BY <3>1, <3>3, <3>4 DEF Return, confirmed, complete, truncated
  <2> QED
    BY <1>20, <2>1, Defaults DEF Confirm, Return, Points
<1> QED
  BY <1>1, <1>2, <1>3, <1>4, <1>5, <1>6, <1>7, <1>8, <1>9, <1>10, <1>11, <1>12, <1>13, <1>14,
     <1>15, <1>16, <1>17, <1>18, <1>19, <1>20 DEF MonitorStep, Interruption

LEMMA NextTypes == TypesInv /\ [Next]_vars => TypesInv'
<1> SUFFICES ASSUME TypesInv, [Next]_vars PROVE TypesInv'
  OBVIOUS
<1>1. CASE Tick
  BY <1>1, TimesAssumption DEF Tick, TypesInv, TypeOK, environment, workers, monitor, Time, Horizon
<1>2. CASE UNCHANGED vars
  BY <1>2 DEF vars, TypesInv, TypeOK, environment, workers, monitor
<1> QED
  BY <1>1, <1>2, ProcessTypes, WorkerTypes, MonitorTypes DEF Next

-----------------------------------------------------------------------------
(* What a step can do to the processes, the threads and the observer *)

\* A process group that has died out does not come back, nor do writers of the pipe.
LEMMA GoneStaysGone ==
    ASSUME TypesInv, ResultInv, [Next]_vars
    PROVE  /\ pc # "launch" /\ ~GroupAlive => ~GroupAlive'
           /\ pc # "launch" /\ ~WriterAlive => ~WriterAlive' /\ pipe' <= pipe
           /\ tree.leader = "reaped" => tree'.leader = "reaped"
           /\ tree.leader # "absent" => tree'.leader # "absent"
<1> USE DEF TypesInv, TypeOK, GroupAlive, WriterAlive, Trees
<1>1. CASE Tick \/ UNCHANGED vars
  BY <1>1 DEF Tick, vars, environment
<1>2. CASE ProcessStep
  <2>1. CASE Fork
    BY <2>1 DEF Fork
  <2>2. CASE Detach
    BY <2>2, ExplorationAssumption DEF Detach
  <2>3. CASE LeaderExits
    BY <2>3 DEF LeaderExits
  <2>4. CASE OthersExit
    BY <2>4 DEF OthersExit
  <2>5. CASE Emit
    BY <2>5 DEF Emit
  <2> QED
    BY <1>2, <2>1, <2>2, <2>3, <2>4, <2>5 DEF ProcessStep
<1>3. CASE WorkerStep
  BY <1>3 DEF WorkerStep, BeginRead, Read, Observe, StoreChunk, ReadEnds, ReadFails, InputEnds, InputPublishes,
              RecorderEnds, environment
<1>4. CASE MonitorStep \/ Interruption
  <2>1. \/ UNCHANGED <<tree, pipe>>
        \/ pc = "launch"
        \/ UNCHANGED pipe /\ tree' \in {Collected(tree), Signalled(tree), [tree EXCEPT !.signal = "kill"]}
    BY <1>4 DEF MonitorStep, Interruption, Launch, LaunchFails, Contain, ContainFails,
       NotifyReturns, NotifyRaises, NotifyExpires, LookAtObserver, LookAtProcess, LookAgain,
       PollAgain, DecideTimeout, DecideEnd, SettleWithoutCleanup, SettleByCleanup,
       Terminate, GraceSucceeds, GraceExpires, TerminateAgain, Revoke, Join, Reap, Confirm,
       MonitorRaises, StartCleanup, Return, Look, Clean, environment
  <2>2. pc = "launch" => tree.leader = "absent"
    BY DEF ResultInv
  <2>3. CASE pc = "launch"
    BY <1>4, <2>2, <2>3 DEF MonitorStep, Interruption, Launch, LaunchFails, Contain, ContainFails,
       NotifyReturns, NotifyRaises, NotifyExpires, LookAtObserver, LookAtProcess, LookAgain,
       PollAgain, DecideTimeout, DecideEnd, SettleWithoutCleanup, SettleByCleanup,
       Terminate, GraceSucceeds, GraceExpires, TerminateAgain, Revoke, Join, Reap, Confirm,
       MonitorRaises, environment
  <2> QED
    BY <2>1, <2>3 DEF Collected, Signalled
<1> QED
  BY <1>1, <1>2, <1>3, <1>4 DEF Next

LEMMA EnvironmentFrame ==
    ASSUME Tick \/ ProcessStep \/ UNCHANGED vars
    PROVE  UNCHANGED <<workers, cancelled, monitor, clean, result>>
BY DEF Tick, ProcessStep, vars, workers, monitor

LEMMA WorkerFrame ==
    ASSUME WorkerStep
    PROVE  /\ UNCHANGED <<clock, tree, emitted, cancelled, pc, look, finalizing, verdict, clean, result>>
           /\ UNCHANGED <<reader, input>> \/ UNCHANGED <<observer, pipe, reader>>
              \/ UNCHANGED <<observer, pipe, input>> \/ Read \/ Observe
BY DEF WorkerStep, BeginRead, Read, Observe, StoreChunk, ReadEnds, ReadFails, InputEnds, InputPublishes,
       RecorderEnds, environment, monitor

LEMMA MonitorFrame ==
    ASSUME MonitorStep \/ Interruption
    PROVE  /\ UNCHANGED <<clock, pipe, emitted, observer>>
           /\ pc # "contain" => UNCHANGED reader
           /\ pc # "notify" => UNCHANGED input
           /\ pc # "drain" => UNCHANGED cancelled
BY DEF MonitorStep, Interruption, Launch, LaunchFails, Contain, ContainFails,
       NotifyReturns, NotifyRaises, NotifyExpires, LookAtObserver, LookAtProcess, LookAgain,
       PollAgain, DecideTimeout, DecideEnd, SettleWithoutCleanup, SettleByCleanup,
       Terminate, GraceSucceeds, GraceExpires, TerminateAgain, Revoke, Join, Reap, Confirm,
       MonitorRaises, StartCleanup, Return, Look, Clean, environment, workers

\* Threads that have all ended leave what they shared alone.
LEMMA DoneStaysDone ==
    ASSUME IInv, [Next]_vars, WorkersDone
    PROVE  WorkersDone' /\ UNCHANGED <<observer, reader, input>>
<1>1. pc \notin {"contain", "notify"}
  BY StreamsAssumption DEF IInv, ReaderInv, WorkersDone
<1>2. CASE Tick \/ ProcessStep \/ UNCHANGED vars
  BY <1>2, EnvironmentFrame DEF workers, WorkersDone
<1>3. CASE WorkerStep
  BY <1>3, StreamsAssumption
     DEF WorkerStep, BeginRead, Read, Observe, StoreChunk, ReadEnds, ReadFails, InputEnds, InputPublishes,
         RecorderEnds, environment, WorkersDone
<1>4. CASE MonitorStep \/ Interruption
  BY <1>1, <1>4, MonitorFrame DEF WorkersDone
<1> QED
  BY <1>2, <1>3, <1>4 DEF Next

\* Timely observations are kept, and none is made after the deadline.
LEMMA ObservationsStay ==
    ASSUME IInv, [Next]_vars
    PROVE  /\ TimelyTerminal(observer) => TimelyTerminal(observer')
           /\ observer.message # "none" => observer'.message # "none"
           /\ observer'.message = "late" => clock' >= Timeout
           /\ clock >= Timeout /\ TimelyTerminal(observer') => TimelyTerminal(observer)
           /\ clock >= Timeout /\ TimelyMessage(observer') => TimelyMessage(observer)
<1> USE TimesAssumption
    DEF IInv, TypesInv, TypeOK, StampInv, TimelyTerminal, TimelyMessage, Time, Observations
<1>1. CASE UNCHANGED observer /\ (UNCHANGED clock \/ clock' = clock + 1)
  BY <1>1
<1>2. CASE Observe /\ UNCHANGED clock
  <2>1. PICK record \in Records : observer' = Observed(observer, record)
    BY <1>2 DEF Observe
  <2>2. CASE record = "message"
    <3>1. observer' = [observer EXCEPT !.message = Moment,
                           !.problem = IF observer.terminal # "none" THEN Moment ELSE @]
      BY <2>1, <2>2 DEF Observed
    <3>2. /\ observer'.terminal = observer.terminal /\ observer'.terminalAt = observer.terminalAt
          /\ observer'.message = Moment
      BY <3>1
    <3> QED
      BY <1>2, <3>2 DEF Moment
  <2>3. CASE record # "message" /\ observer.terminal = "none"
    <3>1. observer' = [observer EXCEPT !.terminal = record, !.terminalAt = Least(clock, Timeout)]
      BY <2>1, <2>3 DEF Observed
    <3>2. /\ observer'.terminalAt = Least(clock, Timeout)
          /\ observer'.message = observer.message
      BY <3>1
    <3> QED
      BY <1>2, <2>3, <3>2 DEF Least
  <2>4. CASE record # "message" /\ observer.terminal # "none"
    BY <1>2, <2>1, <2>4 DEF Observed, Moment, Least
  <2> QED
    BY <2>2, <2>3, <2>4
<1>3. \/ Observe /\ UNCHANGED clock
      \/ UNCHANGED observer /\ (UNCHANGED clock \/ clock' = clock + 1)
  <2>1. CASE Tick \/ ProcessStep \/ UNCHANGED vars
    BY <2>1, EnvironmentFrame DEF workers, Tick, ProcessStep, vars
  <2>2. CASE WorkerStep
    BY <2>2 DEF WorkerStep, BeginRead, Read, StoreChunk, ReadEnds, ReadFails, InputEnds,
                InputPublishes, RecorderEnds
  <2>3. CASE MonitorStep \/ Interruption
    BY <2>3, MonitorFrame
  <2> QED
    BY <2>1, <2>2, <2>3 DEF Next
<1> QED
  BY <1>1, <1>2, <1>3

-----------------------------------------------------------------------------
(* Every part of the invariant is kept *)

\* The ways cleanup starts: the verdict is one of those that raise or fail.
CleanupStarts ==
    NotifyRaises \/ NotifyExpires \/ MonitorRaises \/ DecideTimeout \/ SettleByCleanup

\* An invocation that settled without a failure needs no cleanup.
LEMMA SettledNeedsNone == IInv /\ SettleByCleanup => verdict \in Failures
BY DEF IInv, SettleInv, SettleByCleanup, CleanupRequired, GroupActive, Ended

LEMMA MonitorCases ==
    ASSUME IInv, MonitorStep \/ Interruption
    PROVE  \/ Launch \/ LaunchFails \/ Contain \/ ContainFails \/ NotifyReturns \/ CleanupStarts
           \/ LookAtObserver \/ LookAtProcess \/ LookAgain \/ PollAgain \/ DecideEnd
           \/ SettleWithoutCleanup
           \/ Terminate \/ GraceSucceeds \/ GraceExpires \/ TerminateAgain \/ Revoke
           \/ Join \/ Reap \/ Confirm
BY DEF MonitorStep, Interruption, CleanupStarts

LEMMA CleanupStart ==
    ASSUME IInv, CleanupStarts
    PROVE  /\ \E v \in RaisingVerdicts : StartCleanup(v)
           /\ pc \in {"notify", "observe", "poll", "decide", "settle"} /\ pc' = "terminate"
           /\ look' = NotLooked /\ finalizing' = FALSE
           /\ UNCHANGED <<tree, pipe, observer, reader, input, cancelled, result>>
<1>1. /\ \E v \in RaisingVerdicts : StartCleanup(v)
      /\ pc \in {"notify", "observe", "poll", "decide", "settle"}
  BY SettledNeedsNone
     DEF CleanupStarts, NotifyRaises, NotifyExpires, MonitorRaises, DecideTimeout,
         SettleByCleanup, RaisingVerdicts, Failures
<1> QED
  BY <1>1 DEF StartCleanup, environment, workers

\* What Confirm hands over.
LEMMA Confirmation ==
    ASSUME Confirm
    PROVE  /\ pc = "confirm" /\ pc' = "over"
           /\ UNCHANGED <<tree, pipe, emitted, workers, cancelled, look, finalizing, verdict>>
           /\ result'.confirmed => ~GroupActive
           /\ result'.kind = "returned" => verdict \notin Raised
           /\ result'.kind = "returned" => result'.failed \/ verdict \notin Failures
           /\ result'.kind = "returned" => result'.failed \/ result'.confirmed
           /\ result'.kind = "returned" => verdict # "timed-out"
           /\ result'.kind \in {"returned", "timed-out", "raised"}
           /\ verdict = "expired" => result'.failed
           /\ ~WorkersStopped /\ clean.forced => Tells'
<1>1. PICK known \in BOOLEAN, closed \in BOOLEAN :
         LET confirmed == known /\ ~GroupActive /\ verdict # "containment-failure"
             complete == confirmed /\ clean.reaped /\ closed /\ WorkersStopped /\ RecorderStopped
             truncated == clean.forced \/ \E s \in Streams : reader[s].error
         IN  Return(IF verdict \in Raised
                    THEN [NoResult EXCEPT !.kind = "raised", !.confirmed = confirmed]
                    ELSE Result(IF verdict = "timed-out" THEN "timed-out" ELSE "returned",
                                verdict \in Failures \/ ~confirmed, confirmed,
                                IF complete THEN "completed" ELSE "incomplete", truncated))
  BY DEF Confirm
<1>2. CASE verdict \in Raised
  BY <1>1, <1>2 DEF Confirm, Return, NoResult, Raised, Tells
<1>3. CASE verdict \notin Raised
  BY <1>1, <1>3 DEF Confirm, Return, Result, Failures, Tells
<1> QED
  BY <1>2, <1>3

LEMMA Settlement ==
    ASSUME SettleWithoutCleanup
    PROVE  /\ pc = "settle" /\ pc' = "over" /\ ~GroupActive /\ WorkersDone
           /\ verdict \notin Failures
           /\ UNCHANGED <<tree, pipe, emitted, workers, cancelled, look, finalizing, verdict>>
           /\ result'.kind = "returned" /\ result'.confirmed
           /\ result'.completion = TimelyTerminal(observer)
           /\ result'.message = TimelyMessage(observer)
           /\ result'.problem = (observer.problem # "none")
BY DEF SettleWithoutCleanup, CleanupRequired, Return, Result

\* Where the monitor's snapshot and the finalization deadline change.
LEMMA LookFrame ==
    ASSUME IInv, MonitorStep \/ Interruption
    PROVE  \/ LookAtObserver \/ LookAtProcess \/ LookAgain \/ PollAgain
           \/ look' = NotLooked /\ finalizing' = FALSE
           \/ /\ UNCHANGED <<look, finalizing>>
              /\ pc \notin {"observe", "poll", "decide"} /\ pc' \notin {"poll", "decide"}
<1>1. CASE CleanupStarts \/ DecideEnd
  BY <1>1, CleanupStart DEF DecideEnd
<1>2. CASE Launch \/ LaunchFails \/ Contain \/ ContainFails \/ NotifyReturns
  BY <1>2 DEF Launch, LaunchFails, Contain, ContainFails, NotifyReturns
<1>3. CASE SettleWithoutCleanup \/ Confirm
  BY <1>3, Settlement, Confirmation
<1>4. CASE Terminate \/ GraceSucceeds \/ GraceExpires \/ TerminateAgain \/ Revoke \/ Join \/ Reap
  BY <1>4 DEF Terminate, GraceSucceeds, GraceExpires, TerminateAgain, Revoke, Join, Reap, Clean
<1> QED
  BY <1>1, <1>2, <1>3, <1>4, MonitorCases

LEMMA ResultStep == IInv /\ [Next]_vars => ResultInv'
<1> SUFFICES ASSUME IInv, [Next]_vars PROVE ResultInv'
  OBVIOUS
<1>0. TypesInv /\ ResultInv
  BY DEF IInv
<1>1. CASE Tick \/ ProcessStep \/ UNCHANGED vars
  <2>1. UNCHANGED <<pc, result, verdict>>
    BY <1>1, EnvironmentFrame DEF monitor
  <2>2. tree.leader = "absent" /\ ~tree.child => tree'.leader = "absent" /\ ~tree'.child
    <3> USE <1>0 DEF TypesInv, TypeOK, Trees
    <3>1. CASE Fork \/ Detach \/ LeaderExits
      BY <3>1 DEF Fork, Detach, LeaderExits
    <3>2. CASE OthersExit
      BY <3>2 DEF OthersExit
    <3>3. CASE UNCHANGED tree
      BY <3>3
    <3> QED
      BY <1>1, <3>1, <3>2, <3>3 DEF Tick, ProcessStep, vars, environment, Emit
  <2>3. result'.confirmed => ~GroupAlive'
    <3>1. pc = "launch" => ~result.confirmed
      BY <1>0 DEF ResultInv, NoResult
    <3> QED
      BY <1>0, <2>1, <3>1, GoneStaysGone DEF ResultInv
  <2>4. tree'.leader = "absent" => pc' \in {"launch", "over"} /\ ~tree'.child
    BY <1>0, <2>1, <2>2, GoneStaysGone DEF ResultInv
  <2>5. pc' = "launch" => tree'.leader = "absent" /\ verdict' = "undecided"
    BY <1>0, <2>1, <2>2 DEF ResultInv
  <2> QED
    BY <1>0, <2>1, <2>3, <2>4, <2>5 DEF ResultInv
<1>2. CASE WorkerStep
  BY <1>0, <1>2, WorkerFrame DEF ResultInv, GroupAlive
<1>3. CASE MonitorStep \/ Interruption
  <2> USE <1>0 DEF ResultInv, GroupAlive, CleanupPoints, TypesInv, TypeOK, Trees
  <2>1. CASE Launch
    BY <2>1 DEF Launch, NoResult
  <2>2. CASE LaunchFails
    BY <2>2 DEF LaunchFails, NoResult, environment
  <2>3. CASE Contain \/ NotifyReturns \/ LookAtObserver \/ LookAgain \/ PollAgain \/ DecideEnd
    BY <2>3 DEF Contain, NotifyReturns, LookAtObserver, LookAgain, PollAgain, DecideEnd, Look,
                environment, NoResult
  <2>4. CASE LookAtProcess
    BY <2>4 DEF LookAtProcess, Look, Collected, NoResult
  <2>5. CASE CleanupStarts
    BY <2>5, CleanupStart DEF StartCleanup, environment, NoResult
  <2>6. CASE ContainFails
    BY <2>6 DEF ContainFails, RaisingVerdicts, Failures, NoResult
  <2>7. CASE SettleWithoutCleanup
    BY <2>7, Settlement DEF GroupActive
  <2>8. CASE Confirm
    BY <2>8, Confirmation DEF GroupActive
  <2>9. CASE Terminate \/ TerminateAgain
    BY <2>9 DEF Terminate, TerminateAgain, Clean, Signalled, NoResult
  <2>10. CASE GraceSucceeds \/ Reap
    BY <2>10 DEF GraceSucceeds, Reap, Clean, Collected, NoResult
  <2>11. CASE GraceExpires \/ Revoke \/ Join
    BY <2>11 DEF GraceExpires, Revoke, Join, Clean, NoResult
  <2> QED
    BY <1>3, <2>1, <2>2, <2>3, <2>4, <2>5, <2>6, <2>7, <2>8, <2>9, <2>10, <2>11, MonitorCases
<1> QED
  BY <1>1, <1>2, <1>3 DEF Next

LEMMA ReaderStep == IInv /\ [Next]_vars => ReaderInv'
<1> SUFFICES ASSUME IInv, [Next]_vars PROVE ReaderInv'
  OBVIOUS
<1>0. TypesInv /\ ResultInv /\ ReaderInv
  BY DEF IInv
<1>1. pc # "launch" => (~WriterAlive /\ pipe = 0 => ~WriterAlive' /\ pipe' = 0)
  <2>1. pipe' \in Nat
    BY NextTypes, ExplorationAssumption DEF IInv, TypesInv, TypeOK
  <2> QED
    BY <1>0, <2>1, GoneStaysGone
<1>2. CASE Tick \/ ProcessStep \/ UNCHANGED vars
  <2>1. UNCHANGED <<pc, reader, input, cancelled>>
    BY <1>2, EnvironmentFrame DEF monitor, workers
  <2>2. pc = "launch" => reader["stdout"].state = "unstarted"
    BY <1>0, StreamsAssumption DEF ReaderInv
  <2> QED
    BY <1>0, <1>1, <2>1, <2>2 DEF ReaderInv
<1>3. CASE WorkerStep
  <2>1. UNCHANGED <<tree, pc, cancelled>>
    BY <1>3, WorkerFrame
  <2> USE <1>0, <2>1, StreamsAssumption DEF ReaderInv, TypesInv, TypeOK, Readers, Inputs, WriterAlive
  <2>2. CASE Read
    BY <2>2 DEF Read
  <2>3. CASE BeginRead \/ Observe \/ StoreChunk
    BY <2>3 DEF BeginRead, Observe, StoreChunk, environment
  <2>4. ASSUME NEW s \in Streams, ReadEnds(s) PROVE ReaderInv'
    BY <2>4 DEF ReadEnds, environment
  <2>5. ASSUME NEW s \in Streams, ReadFails(s) PROVE ReaderInv'
    BY <2>5 DEF ReadFails, environment
  <2>6. CASE InputEnds \/ InputPublishes \/ RecorderEnds
    BY <2>6 DEF InputEnds, InputPublishes, RecorderEnds, environment
  <2> QED
    BY <1>3, <2>2, <2>3, <2>4, <2>5, <2>6 DEF WorkerStep
<1>4. CASE MonitorStep \/ Interruption
  <2> USE <1>0, StreamsAssumption DEF ReaderInv
  <2>0. UNCHANGED pipe /\ (pc # "contain" => UNCHANGED reader) /\ (pc # "notify" => UNCHANGED input)
        /\ (pc # "drain" => UNCHANGED cancelled)
    BY <1>4, MonitorFrame
  <2>1. CASE Launch \/ LaunchFails
    BY <2>0, <2>1 DEF Launch, LaunchFails
  <2>2. CASE Contain
    BY <2>0, <2>2 DEF Contain
  <2>3. CASE ContainFails
    BY <2>3, <1>1 DEF ContainFails, workers
  <2>4. CASE NotifyReturns
    BY <2>0, <2>4, <1>1 DEF NotifyReturns
  <2>5. CASE CleanupStarts
    BY <2>5, <1>1, CleanupStart
  <2>6. CASE LookAtObserver \/ LookAtProcess \/ LookAgain \/ PollAgain \/ DecideEnd
    BY <2>0, <2>6, <1>1 DEF LookAtObserver, LookAtProcess, LookAgain, PollAgain, DecideEnd, Look
  <2>7. CASE SettleWithoutCleanup
    <3>1. reader["stdout"].state = "done"
      BY <2>7, Settlement DEF WorkersDone
    <3> QED
      BY <2>7, <3>1, <1>1, Settlement DEF workers
  <2>8. CASE Terminate \/ GraceSucceeds \/ GraceExpires \/ TerminateAgain
    BY <2>0, <2>8, <1>1 DEF Terminate, GraceSucceeds, GraceExpires, TerminateAgain, Clean
  <2>9. CASE Revoke
    BY <2>9, <1>1 DEF Revoke, Clean, workers
  <2>10. CASE Join \/ Reap
    BY <2>0, <2>10, <1>1 DEF Join, Reap, Clean
  <2>11. CASE Confirm
    BY <2>11, <1>1, Confirmation DEF workers
  <2> QED
    BY <1>4, <2>1, <2>2, <2>3, <2>4, <2>5, <2>6, <2>7, <2>8, <2>9, <2>10, <2>11, MonitorCases
<1> QED
  BY <1>2, <1>3, <1>4 DEF Next

LEMMA StalledStep == IInv /\ [Next]_vars => StalledInv'
<1> SUFFICES ASSUME IInv, [Next]_vars PROVE StalledInv'
  OBVIOUS
<1>0. TypesInv /\ ReaderInv /\ StalledInv
  BY DEF IInv
<1> USE StreamsAssumption DEF StalledInv
<1>1. CASE Tick \/ ProcessStep \/ UNCHANGED vars
  BY <1>0, <1>1, EnvironmentFrame DEF monitor, workers, Tells
<1>2. CASE WorkerStep
  <2>1. UNCHANGED <<pc, clean, result>>
    BY <1>2, WorkerFrame
  <2>2. Running(reader'["stdout"].state) => Running(reader["stdout"].state)
    BY <1>0, <1>2 DEF WorkerStep, BeginRead, Read, Observe, StoreChunk, ReadEnds, ReadFails,
                      InputEnds, InputPublishes, RecorderEnds, Running, TypesInv, TypeOK, Readers
  <2> QED
    BY <1>0, <2>1, <2>2 DEF Tells
<1>3. CASE MonitorStep \/ Interruption
  <2>0. pc # "contain" => UNCHANGED reader
    BY <1>3, MonitorFrame
  <2>1. CASE Launch \/ LaunchFails \/ ContainFails
    BY <1>0, <2>1, <2>0 DEF Launch, LaunchFails, ContainFails, ReaderInv, Running, workers
  <2>2. CASE Contain \/ NotifyReturns \/ CleanupStarts
    BY <2>2, CleanupStart DEF Contain, NotifyReturns
  <2>3. CASE LookAtObserver \/ LookAtProcess \/ LookAgain \/ PollAgain \/ DecideEnd
    BY <2>3 DEF LookAtObserver, LookAtProcess, LookAgain, PollAgain, DecideEnd, Look
  <2>4. CASE SettleWithoutCleanup
    BY <2>4, Settlement DEF WorkersDone, Running, workers
  <2>5. CASE Terminate \/ GraceSucceeds \/ GraceExpires \/ TerminateAgain
    BY <2>5 DEF Terminate, GraceSucceeds, GraceExpires, TerminateAgain, Clean
  <2>6. CASE Revoke
    <3>1. UNCHANGED reader /\ pc' = "join" /\ clean'.forced = ~ReadersStopped
      BY <1>0, <2>6 DEF Revoke, Clean, workers, TypesInv, TypeOK, Cleanings
    <3> QED
      BY <3>1 DEF ReadersStopped
  <2>7. CASE Join \/ Reap
    BY <1>0, <2>0, <2>7 DEF Join, Reap, Clean, TypesInv, TypeOK, Cleanings
  <2>8. CASE Confirm
    BY <1>0, <2>8, Confirmation DEF WorkersStopped, ReadersStopped, workers
  <2> QED
    BY <1>3, <2>1, <2>2, <2>3, <2>4, <2>5, <2>6, <2>7, <2>8, MonitorCases
<1> QED
  BY <1>1, <1>2, <1>3 DEF Next

LEMMA StampStep == IInv /\ [Next]_vars => StampInv'
<1> SUFFICES ASSUME IInv, [Next]_vars PROVE StampInv'
  OBVIOUS
<1>1. observer'.message = "late" => clock' >= Timeout
  BY ObservationsStay
<1>2. /\ input'.at = "late" => clock' >= Timeout
      /\ input'.state \in {"stamped", "done"} /\ ~input'.error => input'.at # "none"
  <2> USE TimesAssumption DEF IInv, TypesInv, TypeOK, StampInv, Inputs, Time
  <2>1. CASE Tick \/ ProcessStep \/ UNCHANGED vars
    <3>1. UNCHANGED input /\ (UNCHANGED clock \/ clock' = clock + 1)
      BY <2>1, EnvironmentFrame DEF workers, Tick, ProcessStep, vars
    <3> QED
      BY <3>1
  <2>2. CASE WorkerStep
    <3>1. UNCHANGED clock
      BY <2>2, WorkerFrame
    <3>2. CASE InputEnds
      BY <3>1, <3>2 DEF InputEnds, Moment
    <3>3. CASE InputPublishes
      BY <3>1, <3>3 DEF InputPublishes
    <3>4. CASE UNCHANGED input
      BY <3>1, <3>4
    <3> QED
      BY <2>2, <3>2, <3>3, <3>4
         DEF WorkerStep, BeginRead, Read, Observe, StoreChunk, ReadEnds, ReadFails, RecorderEnds
  <2>3. CASE MonitorStep \/ Interruption
    <3>1. UNCHANGED clock /\ (UNCHANGED input \/ NotifyReturns)
      <4>1. UNCHANGED clock /\ (pc # "notify" => UNCHANGED input)
        BY <2>3, MonitorFrame
      <4>2. pc = "notify" => CleanupStarts \/ NotifyReturns
        BY <2>3, MonitorCases DEF Launch, LaunchFails, Contain, ContainFails, LookAtObserver,
           LookAtProcess, LookAgain, PollAgain, DecideEnd, SettleWithoutCleanup, Terminate,
           GraceSucceeds, GraceExpires, TerminateAgain, Revoke, Join, Reap, Confirm
      <4> QED
        BY <4>1, <4>2, CleanupStart DEF StartCleanup, workers
    <3>2. CASE NotifyReturns
      BY <3>1, <3>2 DEF NotifyReturns, ReaderInv
    <3> QED
      BY <3>1, <3>2
  <2> QED
    BY <2>1, <2>2, <2>3 DEF Next
<1> QED
  BY <1>1, <1>2 DEF StampInv

LEMMA LookStep == IInv /\ [Next]_vars => LookInv'
<1> SUFFICES ASSUME IInv, [Next]_vars PROVE LookInv'
  OBVIOUS
<1>0. TypesInv /\ ResultInv /\ LookInv
  BY DEF IInv
<1>1. ASSUME Ended PROVE Ended' /\ UNCHANGED observer
  <2>1. pc # "launch" /\ ~GroupAlive
    BY <1>0, <1>1 DEF Ended, ResultInv, GroupAlive
  <2>2. tree'.leader = "reaped" /\ ~GroupAlive'
    BY <1>0, <1>1, <2>1, GoneStaysGone DEF Ended
  <2> QED
    BY <1>1, <2>2, DoneStaysDone DEF Ended, GroupAlive
<1>2. /\ TimelyTerminal(observer) => TimelyTerminal(observer')
      /\ observer.message # "none" => observer'.message # "none"
  BY ObservationsStay
<1>3. CASE UNCHANGED look
  BY <1>0, <1>1, <1>2, <1>3 DEF LookInv
<1>4. CASE look' = NotLooked
  BY <1>4 DEF LookInv, NotLooked, NothingObserved, TimelyTerminal
<1>5. CASE LookAtObserver
  <2>1. look'.finished = look.finished /\ look'.seen = observer
    BY <1>0, <1>5 DEF LookAtObserver, Look, TypesInv, TypeOK, Looks
  <2> QED
    BY <1>0, <1>1, <1>2, <2>1 DEF LookInv
<1>6. CASE LookAtProcess
  <2>1. look'.finished = (tree.leader # "running" /\ ~tree.child /\ WorkersDone)
        /\ look'.seen = IF WorkersDone THEN observer ELSE look.seen
    BY <1>0, <1>6 DEF LookAtProcess, Look, TypesInv, TypeOK, Looks
  <2>2. tree' = Collected(tree) /\ tree.leader # "absent" /\ UNCHANGED <<observer, reader, input>>
    BY <1>0, <1>6 DEF LookAtProcess, Look, ResultInv, workers
  <2>3. tree'.leader # "running" => tree'.leader = "reaped"
    BY <1>0, <2>2 DEF Collected, TypesInv, TypeOK, Trees
  <2>4. tree'.child = tree.child /\ (tree.leader # "running" => tree'.leader # "running")
    BY <1>0, <2>2 DEF Collected, TypesInv, TypeOK, Trees
  <2> QED
    BY <1>0, <2>1, <2>2, <2>3, <2>4 DEF LookInv, Ended, WorkersDone
<1>7. CASE LookAgain
  <2>1. look'.finished = look.finished /\ look'.seen = look.seen
    BY <1>0, <1>7 DEF LookAgain, Look, TypesInv, TypeOK, Looks
  <2> QED
    BY <1>0, <1>1, <1>2, <2>1 DEF LookInv
<1>8. \/ UNCHANGED look \/ look' = NotLooked \/ LookAtObserver \/ LookAtProcess \/ LookAgain
  <2>1. CASE Tick \/ ProcessStep \/ UNCHANGED vars
    BY <2>1, EnvironmentFrame DEF monitor
  <2>2. CASE WorkerStep
    BY <2>2, WorkerFrame
  <2>3. CASE MonitorStep \/ Interruption
    BY <2>3, LookFrame DEF PollAgain
  <2> QED
    BY <2>1, <2>2, <2>3 DEF Next
<1> QED
  BY <1>3, <1>4, <1>5, <1>6, <1>7, <1>8

\* An input that was delivered in time stays delivered.
LEMMA InputStays == IInv /\ [Next]_vars /\ TimelyInput => TimelyInput'
<1> SUFFICES ASSUME IInv, [Next]_vars, input.state = "done" PROVE UNCHANGED input
  BY DEF TimelyInput
<1>1. CASE Tick \/ ProcessStep \/ UNCHANGED vars
  BY <1>1, EnvironmentFrame DEF workers
<1>2. CASE WorkerStep
  BY <1>2 DEF WorkerStep, BeginRead, Read, Observe, StoreChunk, ReadEnds, ReadFails, InputEnds, InputPublishes,
              RecorderEnds
<1>3. CASE MonitorStep \/ Interruption
  BY <1>3, MonitorFrame DEF IInv, ReaderInv
<1> QED
  BY <1>1, <1>2, <1>3 DEF Next

LEMMA FinalizingStep == IInv /\ [Next]_vars => FinalizingInv'
<1> SUFFICES ASSUME IInv, [Next]_vars PROVE FinalizingInv'
  OBVIOUS
<1>0. TypesInv /\ LookInv /\ FinalizingInv /\ StampInv
  BY DEF IInv
<1>1. clock \in Nat /\ clock' \in Nat /\ clock <= clock' /\ Timeout \in Nat
  <2>1. UNCHANGED clock \/ clock' = clock + 1
    BY EnvironmentFrame, WorkerFrame, MonitorFrame DEF Next, Tick, ProcessStep, vars
  <2> QED
    BY <1>0, <2>1, TimesAssumption DEF TypesInv, TypeOK, Time
<1>2. ASSUME finalizing
      PROVE  TimelyTerminal(observer') /\ TimelyInput' /\ observer'.message # "none"
  BY <1>0, <1>2, ObservationsStay, InputStays DEF FinalizingInv
<1>3. ASSUME finalizing, pc \in {"poll", "decide"}
      PROVE  /\ TimelyMessage(observer') => TimelyMessage(look.seen)
             /\ ~TimelyMessage(look.seen) => clock' >= Timeout
  BY <1>0, <1>1, <1>3, ObservationsStay DEF FinalizingInv
<1>4. CASE UNCHANGED <<pc, look, finalizing>>
  BY <1>0, <1>2, <1>3, <1>4 DEF FinalizingInv
<1>5. CASE ~finalizing'
  BY <1>5 DEF FinalizingInv
<1>6. CASE LookAtObserver
  <2>1. /\ pc' = "poll" /\ look'.seen = observer /\ finalizing' = finalizing
        /\ UNCHANGED observer
    BY <1>0, <1>6 DEF LookAtObserver, Look, TypesInv, TypeOK, Looks, workers
  <2>2. finalizing /\ ~TimelyMessage(observer) => clock' >= Timeout
    BY <1>0, <1>1 DEF FinalizingInv, StampInv, TimelyMessage, TypesInv, TypeOK, Observations, Moments
  <2> QED
    BY <1>2, <2>1, <2>2 DEF FinalizingInv
<1>7. CASE LookAtProcess
  <2>1. /\ pc' = "decide" /\ pc = "poll" /\ finalizing' = finalizing
        /\ look'.seen = IF WorkersDone THEN observer ELSE look.seen
        /\ UNCHANGED observer
    BY <1>0, <1>7 DEF LookAtProcess, Look, TypesInv, TypeOK, Looks, workers
  <2>2. finalizing /\ ~TimelyMessage(observer) => clock' >= Timeout
    BY <1>0, <1>1 DEF FinalizingInv, StampInv, TimelyMessage, TypesInv, TypeOK, Observations, Moments
  <2> QED
    BY <1>0, <1>2, <1>3, <2>1, <2>2 DEF FinalizingInv
<1>8. CASE LookAgain
  BY <1>2, <1>8 DEF LookAgain, Look, FinalizingInv
<1>9. CASE PollAgain
  <2>1. pc' = "observe" /\ finalizing' = (finalizing \/ Decision = "pending")
        /\ UNCHANGED <<observer, input>>
    BY <1>9 DEF PollAgain, workers
  <2>2. Decision = "pending" => Eligible
    BY DEF Decision
  <2>3. Eligible => TimelyTerminal(observer) /\ observer.message # "none" /\ TimelyInput
    BY <1>0 DEF Eligible, LookInv, TimelyMessage
  <2>4. Eligible => TimelyTerminal(observer') /\ observer'.message # "none" /\ TimelyInput'
    BY <2>1, <2>3 DEF TimelyInput
  <2> QED
    BY <1>2, <2>1, <2>2, <2>4 DEF FinalizingInv
<1>10. \/ UNCHANGED <<pc, look, finalizing>> \/ ~finalizing'
       \/ LookAtObserver \/ LookAtProcess \/ LookAgain \/ PollAgain
  <2>1. CASE Tick \/ ProcessStep \/ UNCHANGED vars
    BY <2>1, EnvironmentFrame DEF monitor
  <2>2. CASE WorkerStep
    BY <2>2, WorkerFrame
  <2>3. CASE MonitorStep \/ Interruption
    BY <1>0, <2>3, LookFrame DEF FinalizingInv
  <2> QED
    BY <2>1, <2>2, <2>3 DEF Next
<1> QED
  BY <1>4, <1>5, <1>6, <1>7, <1>8, <1>9, <1>10

LEMMA AgainStep == IInv /\ [Next]_vars => AgainInv'
<1> SUFFICES ASSUME IInv, [Next]_vars, look'.again PROVE AgainInv'
  BY DEF AgainInv
<1>0. TypesInv /\ LookInv /\ FinalizingInv /\ AgainInv
  BY DEF IInv
<1>1. clock \in Nat /\ clock' \in Nat /\ clock <= clock' /\ Timeout \in Nat
  <2>1. UNCHANGED clock \/ clock' = clock + 1
    BY EnvironmentFrame, WorkerFrame, MonitorFrame DEF Next, Tick, ProcessStep, vars
  <2> QED
    BY <1>0, <2>1, TimesAssumption DEF TypesInv, TypeOK, Time
<1>2. CASE UNCHANGED <<look, finalizing>> /\ (UNCHANGED pc \/ pc' \notin {"poll", "decide"})
  BY <1>0, <1>1, <1>2, ObservationsStay DEF AgainInv
<1>3. CASE LookAtObserver
  <2>1. /\ pc' = "poll" /\ look'.seen = observer /\ UNCHANGED <<finalizing, observer>>
        /\ look'.finished = look.finished /\ look'.again = look.again
    BY <1>0, <1>3 DEF LookAtObserver, Look, TypesInv, TypeOK, Looks, workers
  <2> QED
    BY <1>0, <1>1, <2>1 DEF AgainInv
<1>4. CASE LookAtProcess
  <2>1. /\ pc = "poll" /\ UNCHANGED <<finalizing, observer>>
        /\ look'.seen = IF WorkersDone THEN observer ELSE look.seen
        /\ look'.finished = (tree.leader # "running" /\ ~tree.child /\ WorkersDone)
        /\ look'.again = look.again
    BY <1>0, <1>4 DEF LookAtProcess, Look, TypesInv, TypeOK, Looks, workers
  <2>2. look.finished => look'.finished
    BY <1>0, <2>1 DEF LookInv, Ended
  <2> QED
    BY <1>0, <1>1, <2>1, <2>2 DEF AgainInv
<1>5. CASE LookAgain
  <2>1. pc' = "observe" /\ look'.finished = look.finished /\ UNCHANGED finalizing
    BY <1>0, <1>5 DEF LookAgain, Look, TypesInv, TypeOK, Looks
  <2> QED
    BY <1>1, <1>5, <2>1 DEF LookAgain, MustLookAgain, AgainInv
<1>6. look' # NotLooked
  BY DEF NotLooked
<1>7. \/ UNCHANGED <<look, finalizing>> /\ (UNCHANGED pc \/ pc' \notin {"poll", "decide"})
      \/ LookAtObserver \/ LookAtProcess \/ LookAgain
  <2>1. CASE Tick \/ ProcessStep \/ UNCHANGED vars
    BY <2>1, EnvironmentFrame DEF monitor
  <2>2. CASE WorkerStep
    BY <2>2, WorkerFrame
  <2>3. CASE MonitorStep \/ Interruption
    BY <1>6, <2>3, LookFrame DEF PollAgain
  <2> QED
    BY <2>1, <2>2, <2>3 DEF Next
<1> QED
  BY <1>2, <1>3, <1>4, <1>5, <1>7

\* An ended invocation and what was observed of it are not touched any more.
LEMMA EndedStays ==
    ASSUME IInv, [Next]_vars, Ended
    PROVE  Ended' /\ UNCHANGED <<observer, reader, input>>
<1>1. pc # "launch" /\ ~GroupAlive
  BY DEF IInv, Ended, ResultInv, GroupAlive
<1>2. tree'.leader = "reaped" /\ ~GroupAlive'
  BY <1>1, GoneStaysGone DEF IInv, Ended
<1> QED
  BY <1>2, DoneStaysDone DEF Ended, GroupAlive

LEMMA SettleStep == IInv /\ [Next]_vars => SettleInv'
<1> SUFFICES ASSUME IInv, [Next]_vars, pc' = "settle" PROVE SettleInv'
  BY DEF SettleInv
<1>0. TypesInv /\ LookInv /\ SettleInv
  BY DEF IInv
<1>1. CASE UNCHANGED <<pc, verdict>>
  <2>1. CASE verdict \in Failures
    BY <1>0, <1>1, <2>1 DEF SettleInv
  <2>2. CASE verdict \notin Failures
    <3>1. Ended' /\ UNCHANGED <<observer, reader, input>>
      BY <1>0, <1>1, <2>2, EndedStays DEF SettleInv
    <3> QED
      BY <1>0, <1>1, <2>2, <3>1 DEF SettleInv, StreamError, TimelyInput, TimelyTerminal, TimelyMessage
  <2> QED
    BY <2>1, <2>2
<1>2. CASE DecideEnd
  <2>1. /\ UNCHANGED <<tree, observer, reader, input>>
        /\ verdict' = Decision /\ Decision \in Failures \cup {"completed", "not-completed"}
    BY <1>2 DEF DecideEnd, environment, workers
  <2>2. CASE Decision \in Failures
    BY <2>1, <2>2 DEF SettleInv
  <2>3. CASE Decision \in {"completed", "not-completed"}
    <3>1. ~StreamError /\ ~Conflict /\ look.finished
      BY <2>3 DEF Decision
    <3>2. Ended /\ look.seen = observer
      BY <1>0, <3>1 DEF LookInv
    <3>3. Decision = "completed" => Eligible
      BY DEF Decision
    <3>4. Decision = "completed" => TimelyInput /\ observer.problem = "none"
      BY <3>1, <3>2, <3>3 DEF Eligible, Conflict
    <3>5. Decision = "not-completed" => ~Eligible /\ ~(clock >= Timeout)
      BY DEF Decision
    <3>6. ~(clock >= Timeout) => TimelyInput
      BY <1>0, <3>1, <3>2
         DEF IInv, StampInv, StreamError, TimelyInput, Ended, WorkersDone, TypesInv, TypeOK, Inputs,
             Moments
    <3>7. Decision = "not-completed" => ~(TimelyTerminal(observer) /\ TimelyMessage(observer))
      BY <3>2, <3>5, <3>6 DEF Eligible
    <3> QED
      BY <2>1, <2>3, <3>1, <3>2, <3>4, <3>7
         DEF SettleInv, StreamError, TimelyInput, TimelyTerminal, TimelyMessage, Ended, WorkersDone
  <2> QED
    BY <2>1, <2>2, <2>3
<1>3. UNCHANGED <<pc, verdict>> \/ DecideEnd
  <2>1. CASE Tick \/ ProcessStep \/ UNCHANGED vars
    BY <2>1, EnvironmentFrame DEF monitor
  <2>2. CASE WorkerStep
    BY <2>2, WorkerFrame
  <2>3. CASE MonitorStep \/ Interruption
    BY <2>3, MonitorCases, CleanupStart, Settlement, Confirmation
       DEF Launch, LaunchFails, Contain, ContainFails, NotifyReturns, LookAtObserver,
           LookAtProcess, LookAgain, PollAgain, Terminate, GraceSucceeds, GraceExpires,
           TerminateAgain, Revoke, Join, Reap, Look, Clean
  <2> QED
    BY <2>1, <2>2, <2>3 DEF Next
<1> QED
  BY <1>1, <1>2, <1>3

\* The result and the verdict change together, and only while there is no result.
LEMMA ResultFrame ==
    ASSUME IInv, [Next]_vars
    PROVE  \/ result' = NoResult
           \/ UNCHANGED <<result, verdict, cancelled>> /\ pc = "over" /\ pc' = "over"
           \/ LaunchFails \/ SettleWithoutCleanup \/ Confirm
<1>0. ResultInv
  BY DEF IInv
<1>1. CASE Tick \/ ProcessStep \/ UNCHANGED vars
  BY <1>0, <1>1, EnvironmentFrame DEF monitor, ResultInv
<1>2. CASE WorkerStep
  BY <1>0, <1>2, WorkerFrame DEF ResultInv
<1>3. CASE MonitorStep \/ Interruption
  <2>1. CASE CleanupStarts
    BY <1>0, <2>1, CleanupStart DEF ResultInv
  <2> QED
    BY <1>0, <1>3, <2>1, MonitorCases
       DEF Launch, Contain, ContainFails, NotifyReturns, LookAtObserver, LookAtProcess, LookAgain,
           PollAgain, DecideEnd, Terminate, GraceSucceeds, GraceExpires, TerminateAgain, Revoke,
           Join, Reap, Look, Clean, ResultInv
<1> QED
  BY <1>1, <1>2, <1>3 DEF Next

\* A result is never taken back.
LEMMA ResultGrows ==
    ASSUME IInv, [Next]_vars, result' = NoResult
    PROVE  result = NoResult
<1>1. CASE UNCHANGED result
  BY <1>1
<1>2. CASE pc # "over"
  BY <1>2 DEF IInv, ResultInv
<1>3. CASE pc = "over"
  <2>1. CASE Tick \/ ProcessStep \/ UNCHANGED vars
    BY <2>1, <1>1, EnvironmentFrame
  <2>2. CASE WorkerStep
    BY <2>2, <1>1, WorkerFrame
  <2>3. ~(MonitorStep \/ Interruption)
    BY <1>3, MonitorCases, CleanupStart, Settlement, Confirmation
       DEF Launch, LaunchFails, Contain, ContainFails, NotifyReturns, LookAtObserver,
           LookAtProcess, LookAgain, PollAgain, DecideEnd, Terminate, GraceSucceeds, GraceExpires,
           TerminateAgain, Revoke, Join, Reap
  <2> QED
    BY <2>1, <2>2, <2>3 DEF Next
<1> QED
  BY <1>2, <1>3

LEMMA AcceptedStep == IInv /\ [Next]_vars => AcceptedInv'
<1> SUFFICES ASSUME IInv, [Next]_vars, Accepted' PROVE AcceptedMeansCompleted' /\ Ended'
  BY DEF AcceptedInv
<1>0. TypesInv /\ ResultInv /\ ReaderInv /\ SettleInv /\ AcceptedInv
  BY DEF IInv
<1>1. result' # NoResult /\ result'.kind = "returned" /\ ~result'.failed
  BY DEF Accepted, NoResult
<1>2. CASE UNCHANGED <<result, verdict, cancelled>> /\ pc = "over"
  <2>1. Ended /\ AcceptedMeansCompleted /\ Accepted
    BY <1>0, <1>2 DEF AcceptedInv, Accepted
  <2>2. Ended' /\ UNCHANGED <<observer, reader, input>>
    BY <2>1, EndedStays
  <2>3. pipe' = 0 /\ ~WriterAlive' /\ ~GroupActive'
    <3>1. ~WriterAlive' /\ pipe' <= pipe
      BY <1>0, <1>2, <2>1, GoneStaysGone DEF AcceptedMeansCompleted
    <3>2. pipe' \in Nat /\ pipe = 0
      BY <2>1, NextTypes, ExplorationAssumption
         DEF IInv, TypesInv, TypeOK, AcceptedMeansCompleted
    <3> QED
      BY <2>2, <3>1, <3>2 DEF Ended, GroupActive
  <2> QED
    BY <1>2, <2>1, <2>2, <2>3 DEF AcceptedMeansCompleted, StreamError, TimelyInput
<1>3. CASE SettleWithoutCleanup
  <2>1. /\ UNCHANGED <<tree, pipe, workers, cancelled, verdict>>
        /\ result'.completion = TimelyTerminal(observer)
        /\ result'.message = TimelyMessage(observer)
        /\ result'.problem = (observer.problem # "none")
        /\ pc = "settle" /\ verdict \notin Failures
    BY <1>3, Settlement
  <2>2. /\ Ended /\ ~StreamError
        /\ verdict = "completed" /\ TimelyInput /\ observer.problem = "none"
    BY <1>0, <2>1 DEF SettleInv, Accepted
  <2>3. ~WriterAlive /\ pipe = 0
    BY <1>0, <2>1, <2>2, StreamsAssumption DEF ReaderInv, Ended, WorkersDone, StreamError
  <2> QED
    BY <2>1, <2>2, <2>3
       DEF AcceptedMeansCompleted, Ended, WorkersDone, WriterAlive, GroupActive, StreamError,
           TimelyInput, workers
<1>4. CASE Confirm
  BY <1>0, <1>1, <1>4, Confirmation DEF ResultInv, CleanupPoints, RaisingVerdicts, Raised
<1>5. CASE LaunchFails
  BY <1>1, <1>5 DEF LaunchFails, NoResult
<1> QED
  BY <1>1, <1>2, <1>3, <1>4, <1>5, ResultFrame

LEMMA InitIInv == Init => IInv
<1> SUFFICES ASSUME Init PROVE IInv
  OBVIOUS
<1>1. TypesInv
  BY InitTypes
<1>2. ResultInv /\ ReaderInv /\ StalledInv
  BY StreamsAssumption
     DEF Init, ResultInv, ReaderInv, StalledInv, Running, NoResult, CleanupPoints
<1>3. StampInv /\ LookInv /\ FinalizingInv /\ AgainInv
  BY DEF Init, StampInv, LookInv, FinalizingInv, AgainInv, NothingObserved, NotLooked,
         TimelyTerminal
<1>4. SettleInv /\ AcceptedInv
  BY DEF Init, SettleInv, AcceptedInv, Accepted, NoResult
<1> QED
  BY <1>1, <1>2, <1>3, <1>4 DEF IInv

LEMMA NextIInv == IInv /\ [Next]_vars => IInv'
<1> SUFFICES ASSUME IInv, [Next]_vars PROVE IInv'
  OBVIOUS
<1>1. TypesInv'
  BY NextTypes DEF IInv
<1> QED
  BY <1>1, ResultStep, ReaderStep, StalledStep, StampStep, LookStep, FinalizingStep, AgainStep,
     SettleStep, AcceptedStep DEF IInv

LEMMA SupervisionInvariant == Spec => []IInv
BY InitIInv, NextIInv, PTL DEF Spec

-----------------------------------------------------------------------------
(* Theorems *)

\* Whatever the deadlines, the budgets and the number of records are, the supervision's state
\* stays within its types, and no wait goes beyond the shared budget (process.py:1477).
THEOREM SupervisionTypeCorrect == Spec => []TypeOK
<1>1. IInv => TypeOK
  BY DEF IInv, TypesInv
<1> QED
  BY <1>1, SupervisionInvariant, PTL

\* A result that says that the termination was confirmed (tree_termination_confirmed) is never
\* followed by a life sign of the process group, for any number of forks, signals and ticks.
THEOREM ConfirmedTerminationIsOne == Spec => []ConfirmedMeansGroupGone
<1>1. IInv => ConfirmedMeansGroupGone
  BY DEF IInv, ResultInv, ConfirmedMeansGroupGone
<1> QED
  BY <1>1, SupervisionInvariant, PTL

\* What the adapter accepts was seen completed, in time and without contradiction by the
\* monitor, and nothing of its output is unread: for any deadlines and any number of records
\* (adapter.py:431-495, process.py:1546).
THEOREM AcceptedWasCompleted == Spec => []AcceptedMeansCompleted
<1>1. IInv => AcceptedMeansCompleted
  BY DEF IInv, AcceptedInv, AcceptedMeansCompleted
<1> QED
  BY <1>1, SupervisionInvariant, PTL

\* A reader that stalls between its read and the observer may observe a record when the call is
\* over (process.py:607-635, 2042-2044): for any deadlines and any number of records, what the
\* adapter accepts is no such result, the result says that its output is incomplete, and the
\* reader, cancelled, observes no further one.
THEOREM EvidenceStaysFinal == Spec => EvidenceIsFinal
<1> DEFINE Final == pc = "over" /\ observer' # observer
                    => /\ ~Accepted /\ cancelled
                       /\ result.kind = "raised" \/ (result.truncated /\ result.cleanup = "incomplete")
<1>1. IInv /\ [Next]_vars => [Final]_vars
  <2> SUFFICES ASSUME IInv, [Next]_vars, pc = "over", observer' # observer PROVE Final
    OBVIOUS
  <2>1. Observe
    <3>1. CASE Tick \/ ProcessStep \/ UNCHANGED vars
      BY <3>1, EnvironmentFrame DEF workers
    <3>2. CASE WorkerStep
      BY <3>2 DEF WorkerStep, BeginRead, Read, StoreChunk, ReadEnds, ReadFails, InputEnds,
                  InputPublishes, RecorderEnds
    <3>3. CASE MonitorStep \/ Interruption
      BY <3>3, MonitorFrame
    <3> QED
      BY <3>1, <3>2, <3>3 DEF Next
  <2>2. reader["stdout"].state = "observing"
    BY <2>1 DEF Observe
  <2>3. cancelled
    BY <2>2 DEF IInv, ReaderInv
  <2>4. Tells
    BY <2>2 DEF IInv, StalledInv, Running
  <2>5. ~Accepted
    BY <2>2, StreamsAssumption DEF IInv, AcceptedInv, Ended, WorkersDone
  <2> QED
    BY <2>3, <2>4, <2>5 DEF Tells
<1> QED
  BY <1>1, SupervisionInvariant, PTL DEF Spec, EvidenceIsFinal

\* The monitor never gives an invocation up as timed out while the observer shows that it
\* completed in time: the second look at the deadline is enough, for any deadlines.
THEOREM TimelyCompletionIsKept == Spec => NoTimelyCompletionIsTimedOut
<1> DEFINE Kept == verdict # "timed-out" /\ verdict' = "timed-out" /\ pc = "decide"
                   => ~(TimelyTerminal(observer) /\ TimelyMessage(observer) /\ TimelyInput)
<1>1. IInv /\ [Next]_vars => [Kept]_vars
  <2> SUFFICES ASSUME IInv, [Next]_vars, verdict # "timed-out", verdict' = "timed-out",
                      pc = "decide", TimelyTerminal(observer), TimelyMessage(observer), TimelyInput
               PROVE  FALSE
    BY DEF Kept
  <2>1. DecideTimeout
    <3>1. CASE Tick \/ ProcessStep \/ UNCHANGED vars
      BY <3>1, EnvironmentFrame DEF monitor
    <3>2. CASE WorkerStep
      BY <3>2, WorkerFrame
    <3>3. CASE MonitorStep \/ Interruption
      <4>1. ~LookAgain /\ ~PollAgain
        BY DEF LookAgain, Look, PollAgain
      <4>2. ~DecideEnd
        BY DEF DecideEnd, Failures
      <4>3. ~MonitorRaises
        BY DEF MonitorRaises, StartCleanup
      <4> QED
        BY <3>3, <4>1, <4>2, <4>3
           DEF MonitorStep, Interruption, Launch, LaunchFails, Contain, ContainFails,
               NotifyReturns, NotifyRaises, NotifyExpires, LookAtObserver, LookAtProcess,
               SettleWithoutCleanup, SettleByCleanup, Terminate, GraceSucceeds, GraceExpires,
               TerminateAgain, Revoke, Join, Reap, Confirm
    <3> QED
      BY <3>1, <3>2, <3>3 DEF Next
  <2>2. clock >= Timeout /\ ~Eligible /\ ~MustLookAgain
    BY <2>1 DEF DecideTimeout, Decision
  <2>3. look.again
    BY <2>2 DEF MustLookAgain
  <2>4. TimelyTerminal(look.seen) /\ TimelyMessage(look.seen)
    BY <2>3 DEF IInv, AgainInv, FinalizingInv, LookInv
  <2> QED
    BY <2>2, <2>4 DEF Eligible
<1> QED
  BY <1>1, SupervisionInvariant, PTL DEF Spec, NoTimelyCompletionIsTimedOut, Kept

LEMMA NothingHanded == result = NoResult => Outcome = Contract!NoOutcome
<1> SUFFICES ASSUME result = NoResult PROVE Outcome = Contract!NoOutcome
  OBVIOUS
<1>1. result.kind = "none" /\ ~result.failed /\ ~result.confirmed /\ ~result.completion /\ ~result.message
  BY DEF NoResult
<1>2. /\ result.failed = FALSE /\ result.confirmed = FALSE /\ result.completion = FALSE
      /\ result.message = FALSE
      /\ (result.kind # "none" /\ verdict = "expired") = FALSE
      /\ (result.kind # "none" /\ result.code = 0) = FALSE
  BY <1>1 DEF NoResult
<1> QED
  BY <1>1, <1>2 DEF Outcome, Contract!NoOutcome

LEMMA NothingHandedNext == result' = NoResult => Outcome' = Contract!NoOutcome
<1> SUFFICES ASSUME result' = NoResult PROVE Outcome' = Contract!NoOutcome
  OBVIOUS
<1>1. result'.kind = "none"
  BY DEF NoResult
<1>2. /\ result'.failed = FALSE /\ result'.confirmed = FALSE /\ result'.completion = FALSE
      /\ result'.message = FALSE
      /\ (result'.kind # "none" /\ verdict' = "expired") = FALSE
      /\ (result'.kind # "none" /\ result'.code = 0) = FALSE
  BY <1>1 DEF NoResult
<1> QED
  BY <1>1, <1>2 DEF Outcome, Contract!NoOutcome

\* A step that leaves the result alone launches the group, ends members of it, or does
\* nothing the caller knows of.
LEMMA GroupStep ==
    ASSUME TypesInv, TypesInv', ResultInv, [Next]_vars, UNCHANGED Outcome,
           pc = "launch" => Outcome = Contract!NoOutcome
    PROVE  [Contract!ContractNext]_<<GroupAlive, Outcome>>
<1>1. GroupAlive \in BOOLEAN /\ GroupAlive' \in BOOLEAN
  BY DEF GroupAlive, TypesInv, TypeOK, Trees
<1>2. CASE GroupAlive /\ UNCHANGED GroupAlive
  BY <1>2
<1>5. CASE GroupAlive /\ ~GroupAlive'
  BY <1>1, <1>5 DEF Contract!ContractNext, Contract!GroupDies
<1>3. CASE ~GroupAlive /\ ~GroupAlive'
  BY <1>1, <1>3
<1>4. CASE ~GroupAlive /\ GroupAlive'
  BY <1>4, <1>1, GoneStaysGone DEF Contract!ContractNext, Contract!LaunchGroup
<1> QED
  BY <1>1, <1>2, <1>3, <1>4, <1>5

\* What is handed over is true of the process group.
LEMMA HandedOverIsPromised ==
    ASSUME IInv, IInv', LaunchFails \/ SettleWithoutCleanup \/ Confirm
    PROVE  Contract!HandOver
<1>0. TypesInv /\ TypesInv' /\ ResultInv /\ ResultInv' /\ AcceptedInv'
  BY DEF IInv
<1>1. UNCHANGED <<tree, verdict>> /\ result'.kind \in {"not-launched", "returned", "timed-out", "raised"}
  BY Settlement, Confirmation DEF LaunchFails, NoResult, environment
<1>2. pc # "over"
  BY Settlement, Confirmation DEF LaunchFails
<1>3. Outcome = Contract!NoOutcome
  BY <1>0, <1>2, NothingHanded DEF ResultInv
<1>4. UNCHANGED GroupAlive
  BY <1>1 DEF GroupAlive
<1>5. /\ Outcome'.kind = result'.kind /\ Outcome'.failed = result'.failed
      /\ Outcome'.expired = (verdict' = "expired")
      /\ Outcome'.confirmed = result'.confirmed /\ Outcome'.success = (result'.code = 0)
      /\ Outcome'.completion = result'.completion /\ Outcome'.message = result'.message
      /\ Outcome' \in Contract!Outcomes
  <2>1. result' \in Results /\ result'.kind # "none"
    BY <1>0, <1>1 DEF TypesInv, TypeOK
  <2>2. /\ result'.failed \in BOOLEAN /\ result'.confirmed \in BOOLEAN
        /\ result'.completion \in BOOLEAN /\ result'.message \in BOOLEAN
    BY <2>1 DEF Results
  <2>3. (result'.kind # "none" /\ verdict' = "expired") = (verdict' = "expired")
    BY <2>1
  <2>4. (result'.kind # "none" /\ result'.code = 0) = (result'.code = 0)
    BY <2>1
  <2>5. Outcome' = [kind |-> result'.kind, failed |-> result'.failed,
                    expired |-> (verdict' = "expired"), confirmed |-> result'.confirmed,
                    success |-> (result'.code = 0), completion |-> result'.completion,
                    message |-> result'.message]
    BY <2>3, <2>4 DEF Outcome
  <2> QED
    BY <1>1, <2>2, <2>5 DEF Contract!Outcomes
<1>6. result'.confirmed => ~GroupAlive
  BY <1>0, <1>4 DEF ResultInv
<1>7. Contract!Acceptable(Outcome') => ~GroupAlive
  BY <1>0, <1>4, <1>5
     DEF Contract!Acceptable, AcceptedInv, Accepted, AcceptedMeansCompleted, GroupActive, GroupAlive
<1>8. result'.kind = "not-launched" => ~GroupAlive
  <2>1. result'.kind = "not-launched" => LaunchFails
    BY Settlement, Confirmation
  <2>2. LaunchFails => tree.leader = "absent" /\ ~tree.child
    BY <1>0 DEF LaunchFails, ResultInv
  <2> QED
    BY <2>1, <2>2 DEF GroupAlive
<1>9. result'.kind = "returned" /\ ~result'.confirmed => result'.failed
  BY Settlement, Confirmation DEF LaunchFails, NoResult
<1>10. verdict' = "expired" => result'.failed
  <2>1. LaunchFails => verdict # "expired"
    BY <1>0 DEF LaunchFails, ResultInv
  <2>2. SettleWithoutCleanup => verdict # "expired"
    BY Settlement DEF Failures
  <2> QED
    BY <1>1, <2>1, <2>2, Confirmation
<1>11. Contract!Promised(Outcome')
  BY <1>5, <1>6, <1>7, <1>8, <1>9, <1>10 DEF Contract!Promised
<1> QED
  BY <1>3, <1>4, <1>5, <1>11 DEF Contract!HandOver

\* The supervision implements the contract its caller is built on: what it hands over is
\* true of the process group, for any number of the actors' steps (process.py:1099).
THEOREM SupervisionImplementsContract == Spec => RunnerContractImplemented
<1>1. Init => Contract!ContractInit
  BY NothingHanded DEF Init, Contract!ContractInit, GroupAlive
<1>2. IInv /\ IInv' /\ [Next]_vars => [Contract!ContractNext]_<<GroupAlive, Outcome>>
  <2> SUFFICES ASSUME IInv, IInv', [Next]_vars
               PROVE  [Contract!ContractNext]_<<GroupAlive, Outcome>>
    OBVIOUS
  <2>0. TypesInv /\ TypesInv' /\ ResultInv
    BY DEF IInv
  <2>1. CASE result' = NoResult
    <3>1. result = NoResult
      BY <2>1, <2>0, ResultGrows
    <3>2. Outcome = Contract!NoOutcome /\ UNCHANGED Outcome
      BY <2>1, <3>1, NothingHanded, NothingHandedNext
    <3> QED
      BY <2>0, <3>2, GroupStep
  <2>2. CASE UNCHANGED <<result, verdict, cancelled>> /\ pc = "over"
    BY <2>0, <2>2, GroupStep DEF Outcome
  <2>3. CASE LaunchFails \/ SettleWithoutCleanup \/ Confirm
    BY <2>3, HandedOverIsPromised DEF Contract!ContractNext
  <2> QED
    BY <2>1, <2>2, <2>3, ResultFrame
<1> QED
  BY <1>1, <1>2, SupervisionInvariant, PTL
     DEF Spec, RunnerContractImplemented, Contract!ContractSpec
=============================================================================
