-------------------------- MODULE CodexExecutionProofs --------------------------
(***************************************************************************)
(* The Codex adapter keeps the contract of an agent executor, and its      *)
(* files never claim more than was done.  Both follow from what the runner *)
(* promises of the outcome it hands over and from the order of the steps.  *)
(***************************************************************************)
EXTENDS CodexExecution, TLAPS

-----------------------------------------------------------------------------
(* The invariant *)

\* The artifacts of an attempt.
Artifacts == [prompt : BOOLEAN, output : {"none", "empty", "note", "published"},
              result : BOOLEAN, diagnostic : {"none", "text", "bytes"},
              record : {"none", "SUCCESS", "FAILED"}]

\* Nothing runs that was not launched, and only the last step returns an execution.
ReturnInv ==
    /\ alive => launched
    /\ at # "returned" => execution = NoExecution

\* Up to the launch nothing is known and nothing runs.
LaunchInv ==
    /\ at \in {"prepare", "check"} => ~launched
    /\ at \in {"prepare", "check", "run"} => outcome = NoOutcome
    /\ at \in {"prepare", "check", "run", "read", "publish", "diagnose"} => reason = "none"
    /\ at \in {"prepare", "check", "run", "read"} => answer = "absent"
    /\ at = "publish" /\ outcome.kind = "timed-out" => answer = "absent"

\* What the runner handed over stays true, as nothing is launched after it.
Handed ==
    /\ outcome \in Outcomes /\ outcome.kind \in {"returned", "timed-out"}
    /\ Promised(outcome)

Rejected == reason \in Rejections /\ ~launched

Decided == Handed /\ reason \in ReasonsFor(outcome, answer)

OutcomeInv ==
    /\ at \in {"read", "publish", "diagnose"} => Handed
    /\ at = "finish" => Rejected \/ Decided

\* The files are what the steps so far have made of them.
FilesInv ==
    /\ at \notin {"returned", "raised"} => files.record = "none"
    /\ at \in {"prepare", "check", "run", "read", "publish", "diagnose"} =>
          /\ ~files.result
          /\ files.diagnostic = IF answer = "binary" THEN "bytes" ELSE "none"
    /\ at = "finish" => (files.result <=> reason = "none")

IInv ==
    /\ TypeOK /\ ReturnInv /\ LaunchInv /\ OutcomeInv /\ FilesInv /\ FilesTellTheTruth

-----------------------------------------------------------------------------
(* The decision *)

\* Reasons that are given after a launch.
LateReasons == {"TIMEOUT", "NON_ZERO_EXIT", "TRANSPORT_FAILURE", "FINALIZATION_FAILED",
                "MISSING_STRUCTURED_RESULT", "INVALID_STRUCTURED_RESULT",
                "AUTHENTICATION_OR_SERVICE"}

\* An outcome of the runner is given a reason for being refused, or it is acceptable and
\* its answer is good.
LEMMA ReasonsAre ==
    ASSUME NEW o \in Outcomes, o.kind \in {"returned", "timed-out"}, NEW content \in Contents,
           NEW r \in ReasonsFor(o, content)
    PROVE  r \in LateReasons \/ (r = "none" /\ Acceptable(o) /\ content = "valid")
<1>1. o.failed \in BOOLEAN /\ o.success \in BOOLEAN /\ o.completion \in BOOLEAN
      /\ o.message \in BOOLEAN
  BY DEF Outcomes
<1>2. CASE o.kind = "timed-out"
  BY <1>2 DEF ReasonsFor, LateReasons
<1>3. CASE o.kind = "returned" /\ o.failed
  <2>1. ~Acceptable(o)
    BY <1>3 DEF Acceptable
  <2>2. r = IF o.expired THEN "FINALIZATION_FAILED" ELSE "TRANSPORT_FAILURE"
    BY <1>3, <2>1 DEF ReasonsFor
  <2> QED
    BY <2>2 DEF LateReasons
<1>4. CASE o.kind = "returned" /\ ~o.failed /\ ~o.success
  <2>1. ~Acceptable(o)
    BY <1>4 DEF Acceptable
  <2> QED
    BY <1>4, <2>1 DEF ReasonsFor, LateReasons
<1>5. CASE o.kind = "returned" /\ ~o.failed /\ o.success /\ ~(o.completion /\ o.message)
  <2>1. ~Acceptable(o)
    BY <1>5 DEF Acceptable
  <2> QED
    BY <1>5, <2>1 DEF ReasonsFor, LateReasons
<1>6. CASE Acceptable(o)
  <2>1. o.kind = "returned" /\ ~o.failed /\ o.success /\ o.completion /\ o.message
    BY <1>6 DEF Acceptable
  <2> QED
    BY <1>6, <2>1 DEF ReasonsFor, LateReasons, Contents
<1> QED
  BY <1>1, <1>2, <1>3, <1>4, <1>5, <1>6 DEF Acceptable

\* The category of a failure, by the moment of its reason.
LEMMA CategoriesAre ==
    /\ \A r \in Rejections : FailureCategory(r) \in PreInvocationFailures
    /\ \A r \in LateReasons :
          FailureCategory(r) \in FailureCategories \ PreInvocationFailures
    /\ FailureCategory("TIMEOUT") = "TIMEOUT"
    /\ \A r \in LateReasons : r \notin Rejections
BY DEF FailureCategory, Rejections, LateReasons, PreInvocationFailures, FailureCategories

\* The execution that the adapter returns for a reason.
Returned(r) ==
    IF r = "none" THEN [status |-> "SUCCESS", start |-> "STARTED", category |-> "NONE"]
    ELSE [status |-> "FAILED", start |-> InvocationStartFor(r), category |-> MapFailure(r)]

\* It can be constructed and is true of the processes.
LEMMA ReturnedIsTrue ==
    ASSUME alive => launched, answer \in Contents, Rejected \/ Decided
    PROVE  /\ Returned(reason) \in Executions /\ ValidExecution(Returned(reason))
           /\ Returned(reason).start = "NOT_STARTED" => ~launched
           /\ Returned(reason).category \notin UntrustedCompletion => ~alive
<1> DEFINE e == Returned(reason)
<1>1. CASE Rejected
  <2>1. /\ reason # "none" /\ InvocationStartFor(reason) = "NOT_STARTED"
        /\ MapFailure(reason) \in PreInvocationFailures
    BY <1>1, CategoriesAre DEF Rejected, Rejections, InvocationStartFor, MapFailure
  <2>2. e.status = "FAILED" /\ e.start = "NOT_STARTED" /\ e.category \in PreInvocationFailures
    BY <2>1 DEF Returned
  <2>3. e \in Executions
    BY <2>1 DEF Returned, Executions, PreInvocationFailures, FailureCategories
  <2>4. ~launched /\ ~alive
    BY <1>1 DEF Rejected
  <2> QED
    BY <2>2, <2>3, <2>4 DEF ValidExecution, PreInvocationFailures, FailureCategories
<1>2. CASE Decided /\ reason = "none"
  <2>1. Acceptable(outcome)
    BY <1>2, ReasonsAre DEF Decided, Handed, LateReasons
  <2>2. ~alive
    BY <1>2, <2>1 DEF Decided, Handed, Promised
  <2> QED
    BY <1>2, <2>2 DEF Returned, Executions, ValidExecution
<1>3. CASE Decided /\ reason # "none"
  <2>1. reason \in LateReasons
    BY <1>3, ReasonsAre DEF Decided, Handed
  <2>2. InvocationStartFor(reason) = "STARTED"
    BY <2>1, CategoriesAre DEF InvocationStartFor
  <2>3. MapFailure(reason) \in FailureCategories \ PreInvocationFailures
    BY <2>1, CategoriesAre DEF MapFailure, FailureCategories, PreInvocationFailures
  <2>4. MapFailure(reason) \notin UntrustedCompletion => ~alive
    <3>1. CASE outcome.confirmed
      BY <1>3, <3>1 DEF Decided, Handed, Promised
    <3>2. CASE ~outcome.confirmed
      BY <2>1, <3>2, CategoriesAre DEF MapFailure, UntrustedCompletion
    <3> QED
      BY <3>1, <3>2
  <2>5. e.status = "FAILED" /\ e.start = "STARTED" /\ e.category = MapFailure(reason)
    BY <1>3, <2>2 DEF Returned
  <2>6. e \in Executions
    BY <1>3, <2>2, <2>3 DEF Returned, Executions
  <2> QED
    BY <2>3, <2>4, <2>5, <2>6 DEF ValidExecution
<1> QED
  BY <1>1, <1>2, <1>3

-----------------------------------------------------------------------------
(* The invariant is inductive *)

\* The type invariant without the artifacts.
DataTypes ==
    /\ alive \in BOOLEAN /\ launched \in BOOLEAN
    /\ outcome \in Outcomes \cup {NoOutcome}
    /\ at \in {"prepare", "check", "run", "read", "publish", "diagnose", "finish", "returned",
               "raised"}
    /\ scratch \in Contents /\ answer \in Contents
    /\ reason \in Reasons \cup {"none"}
    /\ execution \in Executions \cup {NoExecution}

LEMMA TypesAre == TypeOK <=> DataTypes /\ files \in Artifacts
BY DEF TypeOK, DataTypes, Artifacts

\* The execution that is returned is one that can be constructed.
LEMMA FinishReturns == Finish => execution' = Returned(reason)
BY DEF Finish, Returned

\* A step keeps the types of the data.
LEMMA NextData ==
    ASSUME TypeOK, ReturnInv, LaunchInv, OutcomeInv, [Next]_vars
    PROVE  DataTypes'
<1> USE TypesAre DEF DataTypes, adapter
<1>1. CASE AgentWrites
  BY <1>1 DEF AgentWrites
<1>2. CASE AgentEnds
  BY <1>2 DEF AgentEnds, GroupDies
<1>3. CASE Prepare
  BY <1>3 DEF Prepare
<1>4. CASE Reject
  BY <1>4 DEF Reject, Rejections, Reasons
<1>5. CASE Run
  BY <1>5 DEF Run, LaunchGroup
<1>6. CASE RunFails
  BY <1>6 DEF RunFails, HandOver, Reasons
<1>7. CASE RunnerHandsOver \/ RunnerRaises
  BY <1>7 DEF RunnerHandsOver, RunnerRaises, HandOver
<1>8. CASE ReadAnswer \/ PublishOutput
  BY <1>8 DEF ReadAnswer, PublishOutput, Contents
<1>9. CASE Decide
  <2>1. reason' \in LateReasons \cup {"none"}
    BY <1>9, ReasonsAre DEF Decide, OutcomeInv, Handed
  <2> QED
    BY <1>9, <2>1 DEF Decide, LateReasons, Reasons
<1>10. CASE Finish
  <2>1. execution' \in Executions
    BY <1>10, FinishReturns, ReturnedIsTrue DEF Finish, OutcomeInv, ReturnInv
  <2> QED
    BY <1>10, <2>1 DEF Finish
<1>11. CASE Abandoned
  BY <1>11 DEF Abandoned
<1>12. CASE UNCHANGED vars
  BY <1>12 DEF vars
<1> QED
  BY <1>1, <1>2, <1>3, <1>4, <1>5, <1>6, <1>7, <1>8, <1>9, <1>10, <1>11, <1>12 DEF Next

\* A step of the adapter leaves artifacts.
LEMMA NextArtifacts ==
    ASSUME TypeOK, [Next]_vars
    PROVE  files' \in Artifacts
<1> USE TypesAre DEF DataTypes, adapter, Artifacts
<1>1. CASE Prepare
  BY <1>1 DEF Prepare, NoFiles
<1>2. CASE Reject \/ RunFails
  BY <1>2 DEF Reject, RunFails
<1>3. CASE ReadAnswer \/ PublishOutput
  BY <1>3 DEF ReadAnswer, PublishOutput
<1>4. CASE Decide
  BY <1>4 DEF Decide
<1>5. CASE Finish
  BY <1>5 DEF Finish
<1>6. CASE UNCHANGED files
  BY <1>6
<1> QED
  BY <1>1, <1>2, <1>3, <1>4, <1>5, <1>6 DEF Next, vars, AgentWrites, AgentEnds, Run,
     RunnerHandsOver, RunnerRaises, Abandoned

\* Nothing runs that was not launched, and only the last step returns.
LEMMA NextReturn == ReturnInv /\ [Next]_vars => ReturnInv'
BY DEF ReturnInv, Next, vars, adapter, AgentWrites, AgentEnds, GroupDies, Prepare, Reject, Run,
   LaunchGroup, RunFails, HandOver, RunnerHandsOver, RunnerRaises, ReadAnswer, PublishOutput,
   Decide, Finish, Abandoned

\* Up to the launch nothing is known.
LEMMA NextLaunch == LaunchInv /\ [Next]_vars => LaunchInv'
<1> SUFFICES ASSUME LaunchInv, [Next]_vars PROVE LaunchInv'
  OBVIOUS
<1> USE DEF LaunchInv, adapter
<1>1. CASE AgentWrites \/ AgentEnds \/ Prepare \/ Reject \/ Abandoned \/ UNCHANGED vars
  BY <1>1 DEF AgentWrites, AgentEnds, GroupDies, Prepare, Reject, Abandoned, vars
<1>2. CASE Run \/ RunFails
  BY <1>2 DEF Run, LaunchGroup, RunFails
<1>3. CASE RunnerHandsOver \/ RunnerRaises
  BY <1>3 DEF RunnerHandsOver, RunnerRaises
<1>4. CASE ReadAnswer \/ PublishOutput \/ Decide \/ Finish
  BY <1>4 DEF ReadAnswer, PublishOutput, Decide, Finish
<1> QED
  BY <1>1, <1>2, <1>3, <1>4 DEF Next

\* What was handed over stays true.
LEMMA HandedStays ==
    ASSUME Handed, [Next]_vars
    PROVE  UNCHANGED outcome /\ Handed'
<1>1. outcome # NoOutcome
  BY DEF Handed, NoOutcome
<1>2. UNCHANGED outcome /\ (alive' => alive)
  BY <1>1 DEF Next, vars, adapter, AgentWrites, AgentEnds, GroupDies, Prepare, Reject, Run,
     LaunchGroup, RunFails, HandOver, RunnerHandsOver, RunnerRaises, ReadAnswer,
     PublishOutput, Decide, Finish, Abandoned
<1> QED
  BY <1>2 DEF Handed, Promised, Acceptable

\* A step keeps the outcome true, and decides by it.
LEMMA NextOutcome == LaunchInv /\ OutcomeInv /\ [Next]_vars => OutcomeInv'
<1> SUFFICES ASSUME LaunchInv, OutcomeInv, [Next]_vars PROVE OutcomeInv'
  OBVIOUS
<1> USE DEF adapter
<1>1. CASE AgentWrites \/ AgentEnds \/ UNCHANGED vars
  <2>1. UNCHANGED <<at, launched, answer, reason>>
    BY <1>1 DEF AgentWrites, AgentEnds, vars
  <2>2. Handed => UNCHANGED outcome /\ Handed'
    BY HandedStays
  <2> QED
    BY <2>1, <2>2 DEF OutcomeInv, Rejected, Decided
<1>2. CASE Prepare \/ Run \/ RunnerRaises \/ Abandoned \/ Finish
  BY <1>2 DEF Prepare, Run, RunnerRaises, Abandoned, Finish, OutcomeInv
<1>3. CASE Reject
  BY <1>3 DEF Reject, LaunchInv, OutcomeInv, Rejected
<1>4. CASE RunFails
  BY <1>4 DEF RunFails, LaunchInv, OutcomeInv, Rejected, Rejections
<1>5. CASE RunnerHandsOver
  BY <1>5 DEF RunnerHandsOver, HandOver, OutcomeInv, Handed, Promised
<1>6. CASE ReadAnswer \/ PublishOutput
  <2>1. Handed'
    BY <1>6, HandedStays DEF ReadAnswer, PublishOutput, OutcomeInv
  <2> QED
    BY <1>6, <2>1 DEF ReadAnswer, PublishOutput, OutcomeInv
<1>7. CASE Decide
  <2>1. UNCHANGED <<outcome, answer>> /\ Handed'
    BY <1>7, HandedStays DEF Decide, OutcomeInv
  <2>2. reason' \in ReasonsFor(outcome, answer)
    BY <1>7 DEF Decide
  <2>3. Decided'
    BY <2>1, <2>2 DEF Decided
  <2> QED
    BY <1>7, <2>3 DEF Decide, OutcomeInv
<1> QED
  BY <1>1, <1>2, <1>3, <1>4, <1>5, <1>6, <1>7 DEF Next

\* A step makes of the files what the invariant says.
LEMMA NextFiles ==
    ASSUME TypeOK, LaunchInv, FilesInv, [Next]_vars
    PROVE  FilesInv'
<1>1. files \in Artifacts
  BY TypesAre
<1> USE DEF adapter, FilesInv
<1>2. CASE AgentWrites \/ AgentEnds \/ Run \/ RunnerHandsOver \/ RunnerRaises \/ Abandoned
           \/ UNCHANGED vars
  BY <1>2 DEF AgentWrites, AgentEnds, Run, RunnerHandsOver, RunnerRaises, Abandoned, vars
<1>3. CASE Prepare
  <2>1. /\ files'.record = "none" /\ files'.result = FALSE /\ files'.diagnostic = "none"
        /\ at' = "check" /\ answer' = "absent"
    BY <1>3 DEF Prepare, NoFiles, LaunchInv
  <2> QED
    BY <2>1
<1>4. CASE Reject \/ RunFails
  <2>1. /\ files'.record = files.record /\ files'.result = files.result
        /\ at = "check" /\ at' = "finish" /\ reason' # "none"
    BY <1>1, <1>4 DEF Reject, RunFails, Artifacts, Rejections
  <2> QED
    BY <2>1
<1>5. CASE ReadAnswer
  <2>1. /\ files'.record = files.record /\ files'.result = files.result
        /\ files'.diagnostic = IF scratch = "binary" THEN "bytes" ELSE files.diagnostic
        /\ at = "read" /\ at' \in {"diagnose", "publish"} /\ answer' = scratch
    BY <1>1, <1>5 DEF ReadAnswer, Artifacts
  <2>2. answer = "absent"
    BY <2>1 DEF LaunchInv
  <2> QED
    BY <2>1, <2>2
<1>6. CASE PublishOutput
  <2>1. /\ files'.record = files.record /\ files'.result = files.result
        /\ files'.diagnostic = files.diagnostic
        /\ at = "publish" /\ at' \in {"diagnose", "read"} /\ answer' = answer
    BY <1>1, <1>6 DEF PublishOutput, Artifacts
  <2> QED
    BY <2>1
<1>7. CASE Decide
  <2>1. /\ files'.record = files.record
        /\ reason' = "none" => files'.result = TRUE
        /\ reason' # "none" => files'.result = files.result
        /\ at = "diagnose" /\ at' = "finish"
    BY <1>1, <1>7 DEF Decide, Artifacts
  <2> QED
    BY <2>1
<1>8. CASE Finish
  BY <1>8 DEF Finish
<1> QED
  BY <1>2, <1>3, <1>4, <1>5, <1>6, <1>7, <1>8 DEF Next

\* The typed result is written for an acceptable outcome only, and stays what it is.
LEMMA NextTruth ==
    ASSUME IInv, [Next]_vars
    PROVE  FilesTellTheTruth'
<1>1. /\ files \in Artifacts /\ answer \in Contents
      /\ LaunchInv /\ OutcomeInv /\ FilesInv /\ TypedResultIsAccepted /\ RecordMatchesResult
  BY TypesAre DEF IInv, DataTypes, FilesTellTheTruth
<1> USE DEF adapter
<1>2. CASE Decide
  <2>1. UNCHANGED <<alive, outcome, answer>> /\ at = "diagnose"
    BY <1>2 DEF Decide
  <2>2. Handed /\ files.record = "none" /\ ~files.result
        /\ files.diagnostic = IF answer = "binary" THEN "bytes" ELSE "none"
    BY <1>1, <2>1 DEF OutcomeInv, FilesInv
  <2>3. files'.record = "none"
    BY <1>1, <1>2, <2>2 DEF Decide, Artifacts
  <2>4. CASE reason' = "none"
    <3>1. Acceptable(outcome) /\ answer = "valid"
      BY <1>1, <1>2, <2>2, <2>4, ReasonsAre DEF Decide, Handed, LateReasons
    <3>2. ~alive
      BY <2>2, <3>1 DEF Handed, Promised
    <3>3. files'.diagnostic = "none"
      BY <1>1, <1>2, <2>2, <2>4, <3>1 DEF Decide, Artifacts
    <3> QED
      BY <2>1, <2>3, <3>1, <3>2, <3>3
         DEF FilesTellTheTruth, TypedResultIsAccepted, RecordMatchesResult, Acceptable
  <2>5. CASE reason' # "none"
    <3>1. ~files'.result
      BY <1>1, <1>2, <2>2, <2>5 DEF Decide, Artifacts
    <3> QED
      BY <2>3, <3>1 DEF FilesTellTheTruth, TypedResultIsAccepted, RecordMatchesResult
  <2> QED
    BY <2>4, <2>5
<1>3. CASE Finish
  <2>1. /\ UNCHANGED <<alive, outcome, answer>> /\ at = "finish"
        /\ files'.result = files.result /\ files'.diagnostic = files.diagnostic
        /\ files'.record = IF reason = "none" THEN "SUCCESS" ELSE "FAILED"
    BY <1>1, <1>3 DEF Finish, Artifacts
  <2> QED
    BY <1>1, <2>1 DEF FilesInv, FilesTellTheTruth, TypedResultIsAccepted,
       RecordMatchesResult, Acceptable
<1>4. ASSUME at \in {"prepare", "check", "run", "read", "publish"}, ~Abandoned,
             ~AgentWrites, ~AgentEnds, ~UNCHANGED vars
      PROVE  FilesTellTheTruth'
  <2>1. ~files.result /\ files.record = "none"
    BY <1>1, <1>4 DEF FilesInv
  <2>2. ~files'.result /\ files'.record = "none"
    <3>1. CASE Prepare
      BY <3>1 DEF Prepare, NoFiles
    <3>2. CASE Reject \/ RunFails \/ ReadAnswer \/ PublishOutput
      BY <1>1, <2>1, <3>2 DEF Reject, RunFails, ReadAnswer, PublishOutput, Artifacts
    <3>3. CASE Run \/ RunnerHandsOver \/ RunnerRaises
      BY <2>1, <3>3 DEF Run, RunnerHandsOver, RunnerRaises
    <3> QED
      BY <1>4, <3>1, <3>2, <3>3 DEF Next, Decide, Finish
  <2> QED
    BY <2>2 DEF FilesTellTheTruth, TypedResultIsAccepted, RecordMatchesResult
<1>5. CASE AgentWrites \/ AgentEnds \/ Abandoned \/ UNCHANGED vars
  <2>1. UNCHANGED <<outcome, answer, files>> /\ (alive' => alive)
    BY <1>5 DEF AgentWrites, AgentEnds, GroupDies, Abandoned, vars
  <2> QED
    BY <1>1, <2>1 DEF FilesTellTheTruth, TypedResultIsAccepted, RecordMatchesResult,
       Acceptable
<1>6. \/ Decide \/ Finish \/ AgentWrites \/ AgentEnds \/ Abandoned \/ UNCHANGED vars
      \/ at \in {"prepare", "check", "run", "read", "publish"}
  BY DEF Next, Prepare, Reject, Run, RunFails, RunnerHandsOver, RunnerRaises, ReadAnswer,
     PublishOutput
<1> QED
  BY <1>2, <1>3, <1>4, <1>5, <1>6

-----------------------------------------------------------------------------
(* The theorems *)

\* The invariant holds at first.
LEMMA InitIInv == Init => IInv
<1> SUFFICES ASSUME Init PROVE IInv
  OBVIOUS
<1> USE DEF Init, ContractInit
<1>1. files \in Artifacts /\ files.record = "none" /\ files.result = FALSE
      /\ files.diagnostic = "none"
  BY DEF NoFiles, Artifacts
<1>2. DataTypes
  BY DEF DataTypes, Contents
<1> QED
  BY <1>1, <1>2, TypesAre DEF IInv, ReturnInv, LaunchInv, OutcomeInv, FilesInv,
     FilesTellTheTruth, TypedResultIsAccepted, RecordMatchesResult

\* The invariant is inductive.
LEMMA NextIInv == IInv /\ [Next]_vars => IInv'
<1> SUFFICES ASSUME IInv, [Next]_vars PROVE IInv'
  OBVIOUS
<1>1. TypeOK'
  <2>1. DataTypes' /\ files' \in Artifacts
    BY NextData, NextArtifacts DEF IInv
  <2>2. TypeOK' <=> DataTypes' /\ files' \in Artifacts
    BY DEF TypeOK, DataTypes, Artifacts
  <2> QED
    BY <2>1, <2>2
<1> QED
  BY <1>1, NextReturn, NextLaunch, NextOutcome, NextFiles, NextTruth DEF IInv

\* The inductive invariant of the adapter.
THEOREM CodexInvariant == Spec => []IInv
BY InitIInv, NextIInv, PTL DEF Spec

\* The artifacts, the outcomes and the locals of execute() have their types.
THEOREM CodexTypeCorrect == Spec => []TypeOK
<1>1. IInv => TypeOK
  BY DEF IInv
<1> QED
  BY <1>1, CodexInvariant, PTL

\* A typed result was accepted, and the record on disk agrees with it, at every step of
\* CodexCliAgentExecutor.execute and wherever it is cut off.
THEOREM FilesAreTrue == Spec => []FilesTellTheTruth
<1>1. IInv => FilesTellTheTruth
  BY DEF IInv
<1> QED
  BY <1>1, CodexInvariant, PTL

\* What the caller of the adapter sees of the execution.
Answered ==
    IF at = "raised" THEN [status |-> "RAISED", start |-> "none", category |-> "NONE"]
    ELSE execution

\* Every step of the adapter is one of an agent executor, or changes nothing of it.
LEMMA AgentStep ==
    ASSUME IInv, IInv', [Next]_vars
    PROVE  [Agent!AgentNext]_<<alive, launched, Answered>>
<1> USE DEF adapter, Answered, IInv, ReturnInv, LaunchInv
<1> USE DEF Agent!AgentNext, Agent!NoExecution, NoExecution
<1>1. CASE AgentEnds
  BY <1>1 DEF AgentEnds, GroupDies, Agent!AgentDies
<1>2. CASE Run
  BY <1>2 DEF Run, LaunchGroup, Agent!LaunchAgent
<1>3. CASE RunnerRaises \/ Abandoned
  <2>1. UNCHANGED <<alive, launched>> /\ at \notin {"returned", "raised"} /\ at' = "raised"
    BY <1>3 DEF RunnerRaises, HandOver, Abandoned
  <2> QED
    BY <2>1 DEF Agent!AgentRaises, Agent!Raised
<1>4. CASE Finish
  <2>1. /\ UNCHANGED <<alive, launched>> /\ at = "finish" /\ at' = "returned"
        /\ execution = NoExecution /\ execution' = Returned(reason)
    BY <1>4, FinishReturns DEF Finish
  <2>2. /\ Returned(reason) \in Executions /\ ValidExecution(Returned(reason))
        /\ Returned(reason).start = "NOT_STARTED" => ~launched
        /\ Returned(reason).category \notin UntrustedCompletion => ~alive
    BY <2>1, ReturnedIsTrue, TypesAre DEF OutcomeInv, DataTypes
  <2>3. Agent!ValidExecution(Returned(reason))
    BY <2>2 DEF Agent!ValidExecution, ValidExecution, Agent!FailureCategories,
       FailureCategories, Agent!PreInvocationFailures, PreInvocationFailures
  <2>4. Answered = NoExecution /\ Answered' = Returned(reason)
    BY <2>1
  <2>5. Agent!AgentReturns
    BY <2>1, <2>2, <2>3, <2>4 DEF Agent!AgentReturns, Agent!Executions, Executions,
       Agent!FailureCategories, FailureCategories, Agent!UntrustedCompletion,
       UntrustedCompletion
  <2> QED
    BY <2>5
<1>5. CASE AgentWrites \/ Prepare \/ Reject \/ RunFails \/ RunnerHandsOver \/ ReadAnswer
           \/ PublishOutput \/ Decide \/ UNCHANGED vars
  <2>1. UNCHANGED <<alive, launched, execution>> /\ (at' = "raised" <=> at = "raised")
    BY <1>5 DEF AgentWrites, Prepare, Reject, RunFails, HandOver, RunnerHandsOver, ReadAnswer,
       PublishOutput, Decide, vars
  <2> QED
    BY <2>1
<1> QED
  BY <1>1, <1>2, <1>3, <1>4, <1>5 DEF Next

\* CodexCliAgentExecutor.execute keeps what AgentContract promises its caller.
THEOREM CodexImplementsContract == Spec => AgentContractImplemented
<1>1. Init => Agent!AgentInit
  BY DEF Init, ContractInit, Agent!AgentInit, Agent!NoExecution, NoExecution
<1>2. IInv /\ IInv' /\ [Next]_vars => [Agent!AgentNext]_<<alive, launched, Answered>>
  BY AgentStep
<1> QED
  BY <1>1, <1>2, CodexInvariant, PTL
     DEF Spec, AgentContractImplemented, Agent!AgentSpec, Answered
================================================================================
