--------------------------- MODULE GuardedWriteProofs ---------------------------
(***************************************************************************)
(* Why the guarded operation may be believed.  TLC goes through all of     *)
(* GuardedWrite, which is finite; the invariant here says why its outcomes *)
(* are right: what was read of the repository before the invocation is     *)
(* what the operation began with, what was read after an invocation that   *)
(* has ended is what is there, and an agent is only launched in between.   *)
(***************************************************************************)
EXTENDS GuardedWrite, TLAPS

-----------------------------------------------------------------------------
(* Types *)

Points == {"before", "after"}
Parts == {"git", "tree", "env"}
Snapshots == [git: {"base", "moved", "unread", "?"}, tree: {"start", "other", "unread", "?"},
              env: {"none", "new", "unread", "?"}]
Shots == [Points -> Snapshots]
Scans == [Points -> {"none", "new", "error"}]
Guards == [human : BOOLEAN, persisted : BOOLEAN]
Audits == [violations : BOOLEAN, unchanged : BOOLEAN,
           start : {"none", "STARTED", "NOT_STARTED", "UNKNOWN"}]
Answers == Executions \cup {NoExecution, Raised}

\* The two halves of the type invariant: the flags, and the data.
FlagTypes ==
    /\ alive \in BOOLEAN /\ launched \in BOOLEAN /\ touched \in BOOLEAN /\ pinned \in BOOLEAN
    /\ record \in BOOLEAN /\ marked \in BOOLEAN /\ errors \in BOOLEAN /\ failed \in BOOLEAN
DataTypes ==
    /\ execution \in Answers /\ repo \in Repositories /\ origin \in Repositories
    /\ kind \in {"execute", "reject", "reject-unsafe"}
    /\ at \in {"associate", "scan", "git", "tree", "env", "record", "admit", "executing",
               "answer", "evidence", "guard", "judge", "returned", "raised"}
    /\ point \in Points /\ shot \in Shots /\ scan \in Scans
    /\ refusal \in {"none", "violations", "capability", "stage"}
    /\ guard \in Guards /\ audit \in Audits
    /\ outcome \in CleanFailures \cup {"none", "Succeeded", "FailedUncertain", "SafetyStopped"}

\* The type invariant is the two halves, and a start that is judged.
LEMMA TypesAre ==
    TypeOK <=> FlagTypes /\ DataTypes /\ (outcome # "none" => audit.start # "none")
BY DEF TypeOK, FlagTypes, DataTypes, Points, Snapshots, Shots, Scans, Guards, Audits, Answers

-----------------------------------------------------------------------------
(* The invariant *)

\* The answer of the executor is an execution, and true of the processes.
AnswerInv ==
    /\ alive => launched
    /\ execution \in Executions =>
          /\ ValidExecution(execution)
          /\ execution.start = "NOT_STARTED" => ~launched
          /\ execution.category \notin UntrustedCompletion => ~alive

\* The executor is called between the two captures and not after a refusal.
Invoking == at \in {"executing", "answer", "evidence"}
PathInv ==
    /\ at \in {"associate", "admit", "raised"} => point = "before"
    /\ Invoking => point = "before" /\ refusal = "none" /\ ~failed
    /\ at \in {"guard", "judge", "returned"} => point = "after"
    /\ launched /\ at # "raised" => refusal = "none" /\ (point = "after" \/ Invoking)
    /\ at = "executing" => execution = NoExecution
    /\ at \in {"answer", "evidence"} => execution \in Executions
    /\ refusal # "none" => point = "after" /\ execution = NoExecution
    /\ point = "before" /\ ~Invoking /\ at # "raised" => execution = NoExecution
    /\ point = "before" => ~failed
    /\ point = "after" /\ refusal = "none" => execution # NoExecution
    /\ point = "after" /\ refusal = "none" /\ ~failed => execution \in Executions

\* Without an agent or an outsider nothing is written.
OriginInv == ~touched /\ ~launched => repo = origin

\* An agent is called and launched from the authorised workspace.
Authorised ==
    /\ origin.git = "base"
    /\ pinned => origin = [git |-> "base", tree |-> "start", env |-> "none"]
StartInv == (Invoking \/ launched) /\ ~touched => Authorised

\* The parts of a snapshot that were read are those of s.
Fits(snapshot, s) ==
    \/ snapshot = Incomplete
    \/ /\ snapshot.git \in {"unread", s.git}
       /\ snapshot.tree \in {"unread", s.tree}
       /\ snapshot.env \in {"unread", s.env}
Seen(p, s) == Fits(shot[p], s)

\* What was read of a snapshot, if it is not incomplete.
HasGit(p) == shot[p] # Incomplete => shot[p].git # "unread"
HasTree(p) == shot[p] # Incomplete => shot[p].tree # "unread"
HasEnv(p) == shot[p] # Incomplete => shot[p].env # "unread"

\* The parts of a capture are read in their order.
ReadInv ==
    /\ point = "before" => shot["after"] = Unread
    /\ at # "raised" /\ (point = "after" \/ at \notin {"associate", "scan", "git"}) =>
          HasGit("before")
    /\ at # "raised" /\ (point = "after" \/ at \notin {"associate", "scan", "git", "tree"}) =>
          HasTree("before")
    /\ at # "raised"
       /\ (point = "after" \/ at \notin {"associate", "scan", "git", "tree", "env"}) =>
          HasEnv("before")
    /\ point = "after" /\ at # "git" => HasGit("after")
    /\ point = "after" /\ at \notin {"git", "tree"} => HasTree("after")
    /\ point = "after" /\ at \notin {"git", "tree", "env"} => HasEnv("after")

\* Nobody of the invocation can write after it.
Quiet ==
    \/ refusal # "none"
    \/ execution \in Executions /\ execution.category \notin UntrustedCompletion

SeenInv ==
    ~touched =>
       /\ Seen("before", origin)
       /\ at # "raised" /\ (point = "after" \/ at \notin {"associate", "scan"}) =>
             scan["before"] \in {origin.env, "error"}
       /\ point = "after" /\ Quiet =>
             /\ Seen("after", repo)
             /\ at \in {"record", "guard", "judge", "returned"} =>
                   scan["after"] \in {repo.env, "error"}

\* An attempt without a record has evidence errors, so nobody trusts its evidence.
RecordInv == at \notin {"associate", "raised"} /\ ~record => errors

\* The guard needs no human only if everything was read and the guard was written.
GuardInv ==
    at \in {"judge", "returned"} /\ ~guard.human =>
       Inspected /\ ~NewEnvironment /\ guard.persisted

\* An outcome is given at the end, and as the properties say.
OutcomeInv ==
    /\ outcome # "none" => at = "returned" /\ audit.start # "none"
    /\ EndedMeansQuiet /\ CleanFailureLeavesRepository /\ SuccessIsWhatIsThere /\ Constructible

IInv ==
    /\ FlagTypes /\ DataTypes /\ AnswerInv /\ PathInv /\ OriginInv /\ StartInv
    /\ ReadInv /\ SeenInv /\ RecordInv /\ GuardInv /\ OutcomeInv

-----------------------------------------------------------------------------
(* A look *)

\* A look reads one part of the snapshot it is at, or gives the snapshot up.
LEMMA LookEffect ==
    ASSUME DataTypes, NEW part \in Parts, Look(part)
    PROVE  /\ shot' \in Shots
           /\ \A p \in Points \ {point} : shot'[p] = shot[p]
           /\ \/ shot'[point] = Incomplete
              \/ /\ shot[point] # Incomplete
                 /\ shot'[point].git = IF part = "git" THEN repo.git ELSE shot[point].git
                 /\ shot'[point].tree = IF part = "tree" THEN repo.tree ELSE shot[point].tree
                 /\ shot'[point].env = IF part = "env" THEN repo.env ELSE shot[point].env
<1>1. shot \in [Points -> Snapshots] /\ point \in Points /\ repo \in Repositories
  BY DEF DataTypes, Shots
<1>2. \E s \in Snapshots :
         /\ shot' = [shot EXCEPT ![point] = s]
         /\ \/ s = Incomplete
            \/ /\ shot[point] # Incomplete
               /\ s.git = IF part = "git" THEN repo.git ELSE shot[point].git
               /\ s.tree = IF part = "tree" THEN repo.tree ELSE shot[point].tree
               /\ s.env = IF part = "env" THEN repo.env ELSE shot[point].env
  <2>1. Incomplete \in Snapshots
    BY DEF Incomplete, Snapshots
  <2>2. CASE shot' = [shot EXCEPT ![point] = Incomplete]
    BY <2>1, <2>2
  <2>3. CASE shot' = [shot EXCEPT ![point] =
                         IF @ = Incomplete THEN @ ELSE [@ EXCEPT ![part] = repo[part]]]
    <3>1. CASE shot[point] = Incomplete
      <4>1. shot' = [shot EXCEPT ![point] = Incomplete]
        BY <1>1, <2>3, <3>1
      <4> QED
        BY <2>1, <4>1
    <3>2. CASE shot[point] # Incomplete
      <4> DEFINE s == [shot[point] EXCEPT ![part] = repo[part]]
      <4>1. shot' = [shot EXCEPT ![point] = s]
        BY <1>1, <2>3, <3>2
      <4>2. shot[point] \in Snapshots
        BY <1>1
      <4>3. /\ s \in Snapshots
            /\ s.git = IF part = "git" THEN repo.git ELSE shot[point].git
            /\ s.tree = IF part = "tree" THEN repo.tree ELSE shot[point].tree
            /\ s.env = IF part = "env" THEN repo.env ELSE shot[point].env
        BY <1>1, <4>2 DEF Snapshots, Repositories, Parts
      <4> HIDE DEF s
      <4> QED
        BY <3>2, <4>1, <4>3
    <3> QED
      BY <3>1, <3>2
  <2> QED
    BY <2>2, <2>3 DEF Look
<1> QED
  BY <1>1, <1>2 DEF Shots

\* The order of the steps of a capture, at either point.
LEMMA AfterLookIs ==
    ASSUME NEW step \in Parts \cup {"scan"}
    PROVE  AfterLook(step) =
              IF point = "before"
              THEN IF step = "scan" THEN "git" ELSE IF step = "git" THEN "tree"
                   ELSE IF step = "tree" THEN "env" ELSE "record"
              ELSE IF step = "scan" THEN "record" ELSE IF step = "git" THEN "tree"
                   ELSE IF step = "tree" THEN "env" ELSE "scan"
BY DEF AfterLook, Parts

-----------------------------------------------------------------------------
(* The types hold *)

\* What the operation knows before it has read anything.
LEMMA NothingKnown ==
    NoShots \in Shots /\ NoScans \in Scans /\ NoGuard \in Guards /\ NoAudit \in Audits
<1>1. NoShots \in Shots
  BY DEF NoShots, Shots, Points, Snapshots, Unread
<1>2. NoScans \in Scans
  BY DEF NoScans, Scans, Points
<1>3. NoGuard \in Guards
  BY DEF NoGuard, Guards
<1>4. NoAudit \in Audits
  BY DEF NoAudit, Audits
<1> QED
  BY <1>1, <1>2, <1>3, <1>4

\* The types hold at first.
LEMMA InitTypes == Init => FlagTypes /\ DataTypes
<1> SUFFICES ASSUME Init PROVE FlagTypes /\ DataTypes
  OBVIOUS
<1>1. FlagTypes
  BY DEF Init, AgentInit, FlagTypes
<1>2. DataTypes
  BY NothingKnown DEF Init, AgentInit, DataTypes, Answers, Points, CleanFailures
<1> QED
  BY <1>1, <1>2

\* The tracker's errors only ever come, and an update without a record brings none.
LEMMA UpdateEffect ==
    ASSUME FlagTypes, Update
    PROVE  errors' \in BOOLEAN /\ (errors => errors') /\ (errors' => errors \/ record)
<1>1. errors \in BOOLEAN /\ record \in BOOLEAN
  BY DEF FlagTypes
<1>2. errors' = errors \/ errors' = (errors \/ record)
  BY DEF Update
<1> QED
  BY <1>1, <1>2

\* A step keeps the types of the flags.
LEMMA NextFlags == FlagTypes /\ [Next]_vars => FlagTypes'
<1> SUFFICES ASSUME FlagTypes, [Next]_vars PROVE FlagTypes'
  OBVIOUS
<1> USE DEF FlagTypes, agent, request, tracker, capture, judged
<1>1. CASE AgentWrites \/ OutsiderWrites \/ AgentEnds
  BY <1>1 DEF AgentWrites, OutsiderWrites, AgentEnds, AgentDies
<1>2. CASE MarkStarted \/ RecordCapture
  <2>1. errors' \in BOOLEAN
    BY <1>2, UpdateEffect DEF MarkStarted, RecordCapture
  <2> QED
    BY <1>2, <2>1 DEF MarkStarted, RecordCapture
<1>3. CASE Associate
  <2>1. record' \in BOOLEAN /\ errors' \in BOOLEAN
    BY <1>3 DEF Associate
  <2> QED
    BY <1>3, <2>1 DEF Associate
<1>4. CASE \E part \in Parts : Look(part)
  BY <1>4 DEF Look
<1>5. CASE Scan
  BY <1>5 DEF Scan
<1>6. CASE Reject \/ RefuseUnsafe \/ RefuseIncapable
  BY <1>6 DEF Reject, RefuseUnsafe, RefuseIncapable, Refuse
<1>7. CASE Invoke
  BY <1>7 DEF Invoke
<1>8. CASE Launch
  BY <1>8 DEF Launch, LaunchAgent
<1>9. CASE Answer
  BY <1>9 DEF Answer, AgentReturns
<1>10. CASE ExecutorRaises
  BY <1>10 DEF ExecutorRaises, AgentRaises
<1>11. CASE RecordStarted
  <2>1. errors' \in BOOLEAN
    <3>1. CASE marked' # marked
      BY <1>11, <3>1, UpdateEffect DEF RecordStarted
    <3>2. CASE marked' = marked
      BY <1>11, <3>2 DEF RecordStarted
    <3> QED
      BY <3>1, <3>2
  <2>2. marked' \in BOOLEAN
    BY <1>11 DEF RecordStarted
  <2> QED
    BY <1>11, <2>1, <2>2 DEF RecordStarted
<1>12. CASE WriteEvidence
  <2>1. errors' \in BOOLEAN
    BY <1>12, UpdateEffect DEF WriteEvidence
  <2> QED
    BY <1>12, <2>1 DEF WriteEvidence
<1>13. CASE EvidenceRaises
  <2>1. marked' \in BOOLEAN /\ errors' \in BOOLEAN /\ record' = record /\ failed' = TRUE
    BY <1>13 DEF EvidenceRaises
  <2> QED
    BY <1>13, <2>1 DEF EvidenceRaises
<1>14. CASE BuildGuard
  <2>1. errors' \in BOOLEAN
    BY <1>14 DEF BuildGuard
  <2> QED
    BY <1>14, <2>1 DEF BuildGuard
<1>15. CASE Judge
  BY <1>15 DEF Judge
<1>16. CASE Abandoned
  BY <1>16 DEF Abandoned
<1>17. CASE UNCHANGED vars
  BY <1>17 DEF vars
<1> QED
  BY <1>1, <1>2, <1>3, <1>4, <1>5, <1>6, <1>7, <1>8, <1>9, <1>10, <1>11, <1>12, <1>13, <1>14,
     <1>15, <1>16, <1>17 DEF Next, Parts

\* A scan of the environment reads it, or fails.
LEMMA ScanEffect ==
    ASSUME scan \in Scans, point \in Points, repo \in Repositories, Scan
    PROVE  /\ scan' \in Scans
           /\ \A p \in Points \ {point} : scan'[p] = scan[p]
           /\ scan'[point] \in {repo.env, "error"}
<1>1. repo.env \in {"none", "new"}
  BY DEF Repositories
<1>2. \E v \in {repo.env, "error"} : scan' = [scan EXCEPT ![point] = v]
  BY DEF Scan
<1> QED
  BY <1>1, <1>2 DEF Scans, Points

\* The judgement is one of the sealed outcomes, of a start that was determined.
LEMMA JudgeEffect ==
    ASSUME FlagTypes, DataTypes, Judge
    PROVE  /\ audit' \in Audits
           /\ outcome' \in CleanFailures \cup {"Succeeded", "FailedUncertain", "SafetyStopped"}
<1>1. Judge
  OBVIOUS
<1>2. InvocationStart \in {"none", "STARTED", "NOT_STARTED", "UNKNOWN"}
  <2>1. execution.start \in {"none", "STARTED", "NOT_STARTED", "UNKNOWN"}
    BY DEF DataTypes, Answers, Executions, NoExecution, Raised
  <2> QED
    BY <2>1 DEF InvocationStart
<1>3. Unchanged \in BOOLEAN
  BY DEF Unchanged
<1>4. PICK diffed \in BOOLEAN :
         audit' = [violations |-> refusal = "violations" \/ PostViolation \/ ~diffed,
                   start |-> InvocationStart, unchanged |-> Unchanged]
  BY <1>1 DEF Judge
<1>5. (refusal = "violations" \/ PostViolation \/ ~diffed) \in BOOLEAN
  OBVIOUS
<1>6. audit' \in Audits
  BY <1>2, <1>3, <1>4, <1>5 DEF Audits
<1>7. outcome' = Classify(audit')
  BY <1>1 DEF Judge
<1>8. outcome' \in CleanFailures \cup {"Succeeded", "FailedUncertain", "SafetyStopped"}
  BY <1>7 DEF Classify, CleanFailures
<1> QED
  BY <1>6, <1>8


\* A step keeps the types of the data.
LEMMA NextData == FlagTypes /\ DataTypes /\ [Next]_vars => DataTypes'
<1> SUFFICES ASSUME FlagTypes, DataTypes, [Next]_vars PROVE DataTypes'
  OBVIOUS
<1> USE DEF DataTypes, agent, request, tracker, capture, judged
<1>1. CASE AgentWrites \/ OutsiderWrites \/ AgentEnds
  BY <1>1 DEF AgentWrites, OutsiderWrites, AgentEnds, Writes, AgentDies
<1>2. CASE MarkStarted \/ Associate \/ RecordCapture
  BY <1>2 DEF MarkStarted, Associate, RecordCapture
<1>3. ASSUME NEW part \in Parts, Look(part) PROVE DataTypes'
  <2>1. shot' \in Shots /\ at' \in {"git", "tree", "env", "record", "scan"}
    BY <1>3, LookEffect, AfterLookIs DEF Look, Parts
  <2> QED
    BY <1>3, <2>1 DEF Look
<1>4. CASE Scan
  <2>1. at' \in {"git", "record"} /\ scan' \in Scans
    BY <1>4, AfterLookIs, ScanEffect DEF Scan
  <2> QED
    BY <1>4, <2>1 DEF Scan
<1>5. CASE Reject \/ RefuseUnsafe \/ RefuseIncapable
  <2>1. refusal' \in {"violations", "capability", "stage"} /\ Refuse(refusal')
    BY <1>5 DEF Reject, RefuseUnsafe, RefuseIncapable, Refuse
  <2> QED
    BY <2>1 DEF Refuse, Points
<1>6. CASE Invoke
  BY <1>6 DEF Invoke
<1>7. CASE Launch
  BY <1>7 DEF Launch, LaunchAgent
<1>8. CASE Answer
  BY <1>8 DEF Answer, AgentReturns, Answers
<1>9. CASE ExecutorRaises
  BY <1>9 DEF ExecutorRaises, AgentRaises, CaptureAfter, Answers, Points
<1>10. CASE RecordStarted
  BY <1>10 DEF RecordStarted
<1>11. CASE WriteEvidence \/ EvidenceRaises
  BY <1>11 DEF WriteEvidence, EvidenceRaises, CaptureAfter, Points
<1>12. CASE BuildGuard
  <2>1. guard' \in Guards
    <3>1. PICK written \in BOOLEAN :
             guard' = [human |-> RequiresHuman(errors'), persisted |-> record /\ written]
      BY <1>12 DEF BuildGuard
    <3>2. RequiresHuman(errors') \in BOOLEAN /\ (record /\ written) \in BOOLEAN
      BY DEF RequiresHuman
    <3> QED
      BY <3>1, <3>2 DEF Guards
  <2> QED
    BY <1>12, <2>1 DEF BuildGuard
<1>13. CASE Judge
  BY <1>13, JudgeEffect DEF Judge
<1>14. CASE Abandoned
  BY <1>14, NothingKnown DEF Abandoned, Points
<1>15. CASE UNCHANGED vars
  BY <1>15 DEF vars
<1> QED
  BY <1>1, <1>2, <1>3, <1>4, <1>5, <1>6, <1>7, <1>8, <1>9, <1>10, <1>11, <1>12, <1>13, <1>14,
     <1>15 DEF Next, Parts

-----------------------------------------------------------------------------
(* The invocation *)

\* What the executor answers stays true: nothing is launched after the answer.
LEMMA NextAnswer == FlagTypes /\ DataTypes /\ AnswerInv /\ [Next]_vars => AnswerInv'
<1> SUFFICES ASSUME FlagTypes, DataTypes, AnswerInv, [Next]_vars PROVE AnswerInv'
  OBVIOUS
<1>1. CASE UNCHANGED agent
  BY <1>1 DEF AnswerInv, agent
<1>2. CASE AgentEnds
  BY <1>2 DEF AnswerInv, AgentEnds, AgentDies
<1>3. CASE Launch
  <2>1. NoExecution \notin Executions
    BY DEF NoExecution, Executions
  <2> QED
    BY <1>3, <2>1 DEF AnswerInv, Launch, LaunchAgent
<1>4. CASE Answer
  BY <1>4 DEF AnswerInv, Answer, AgentReturns
<1>5. CASE ExecutorRaises
  <2>1. Raised \notin Executions
    BY DEF Raised, Executions
  <2> QED
    BY <1>5, <2>1 DEF AnswerInv, ExecutorRaises, AgentRaises
<1>6. UNCHANGED agent \/ AgentEnds \/ Launch \/ Answer \/ ExecutorRaises
  BY DEF Next, vars, AgentWrites, OutsiderWrites, MarkStarted, Associate, Look, Scan,
     RecordCapture, Reject, RefuseUnsafe, RefuseIncapable, Refuse, Invoke, RecordStarted,
     WriteEvidence, EvidenceRaises, BuildGuard, Judge, Abandoned
<1> QED
  BY <1>1, <1>2, <1>3, <1>4, <1>5, <1>6

\* Where a look leads to.
LEMMA AfterLookAt ==
    ASSUME NEW part \in Parts, Look(part)
    PROVE  /\ at = part
           /\ at' = IF part = "git" THEN "tree" ELSE IF part = "tree" THEN "env"
                    ELSE IF point = "before" THEN "record" ELSE "scan"
BY AfterLookIs DEF Look, Parts

\* The steps keep their order.
LEMMA NextPath == FlagTypes /\ DataTypes /\ AnswerInv /\ PathInv /\ [Next]_vars => PathInv'
<1> SUFFICES ASSUME FlagTypes, DataTypes, AnswerInv, PathInv, [Next]_vars PROVE PathInv'
  OBVIOUS
<1> USE DEF PathInv, Invoking, agent, request, tracker, capture, judged
<1>1. CASE AgentWrites \/ OutsiderWrites \/ AgentEnds \/ MarkStarted
  BY <1>1 DEF AgentWrites, OutsiderWrites, AgentEnds, AgentDies, MarkStarted
<1>2. CASE Associate \/ RecordCapture
  BY <1>2 DEF Associate, RecordCapture, DataTypes, Points
<1>3. ASSUME NEW part \in Parts, Look(part) PROVE PathInv'
  BY <1>3, AfterLookAt DEF Look, Parts, DataTypes, Points
<1>4. CASE Scan
  <2>1. at' = IF point = "before" THEN "git" ELSE "record"
    BY <1>4, AfterLookIs DEF Scan
  <2> QED
    BY <1>4, <2>1 DEF Scan, DataTypes, Points
<1>5. CASE Reject \/ RefuseUnsafe \/ RefuseIncapable
  BY <1>5 DEF Reject, RefuseUnsafe, RefuseIncapable, Refuse
<1>6. CASE Invoke
  BY <1>6 DEF Invoke
<1>7. CASE Launch
  BY <1>7 DEF Launch, LaunchAgent
<1>8. CASE Answer
  BY <1>8 DEF Answer, AgentReturns
<1>9. CASE ExecutorRaises
  BY <1>9 DEF ExecutorRaises, AgentRaises, CaptureAfter, Raised, NoExecution
<1>10. CASE RecordStarted
  BY <1>10 DEF RecordStarted
<1>11. CASE WriteEvidence \/ EvidenceRaises
  <2>1. NoExecution \notin Executions
    BY DEF NoExecution, Executions
  <2> QED
    BY <1>11, <2>1 DEF WriteEvidence, EvidenceRaises, CaptureAfter
<1>12. CASE BuildGuard
  BY <1>12 DEF BuildGuard
<1>13. CASE Judge
  BY <1>13 DEF Judge
<1>14. CASE Abandoned
  BY <1>14 DEF Abandoned
<1>15. CASE UNCHANGED vars
  BY <1>15 DEF vars
<1> QED
  BY <1>1, <1>2, <1>3, <1>4, <1>5, <1>6, <1>7, <1>8, <1>9, <1>10, <1>11, <1>12, <1>13, <1>14,
     <1>15 DEF Next, Parts

\* Only the agent and the outsider write.
LEMMA NextOrigin == AnswerInv /\ OriginInv /\ [Next]_vars => OriginInv'
<1> SUFFICES ASSUME AnswerInv, OriginInv, [Next]_vars PROVE OriginInv'
  OBVIOUS
<1>1. origin' = origin /\ (launched => launched') /\ (touched => touched')
  BY DEF Next, vars, agent, request, AgentWrites, OutsiderWrites, AgentEnds, AgentDies,
     MarkStarted, Associate, Look, Scan, RecordCapture, Reject, RefuseUnsafe, RefuseIncapable,
     Refuse, Invoke, Launch, LaunchAgent, Answer, AgentReturns, ExecutorRaises, AgentRaises,
     RecordStarted, WriteEvidence, EvidenceRaises, BuildGuard, Judge, Abandoned
<1>2. CASE repo' = repo
  BY <1>1, <1>2 DEF OriginInv
<1>3. CASE repo' # repo
  <2>1. AgentWrites \/ OutsiderWrites
    BY <1>3 DEF Next, vars, AgentEnds,
       MarkStarted, Associate, Look, Scan, RecordCapture, Reject, RefuseUnsafe,
       RefuseIncapable, Refuse, Invoke, Launch, Answer, ExecutorRaises,
       RecordStarted, WriteEvidence, EvidenceRaises, BuildGuard, Judge, Abandoned
  <2>2. launched' \/ touched'
    BY <2>1 DEF AgentWrites, OutsiderWrites, AnswerInv, agent
  <2> QED
    BY <2>2 DEF OriginInv
<1> QED
  BY <1>2, <1>3

\* The start that admission lets pass is the authorised one.
LEMMA AdmissionAuthorises ==
    ASSUME DataTypes, Seen("before", origin), ~StartingViolation
    PROVE  Authorised
<1>1. shot["before"] \in Snapshots /\ origin \in Repositories
  BY DEF DataTypes, Shots, Points
<1>2. shot["before"] # Incomplete
  BY DEF StartingViolation, Taken
<1>3. shot["before"].git = "base" /\ shot["before"].git \in {"unread", origin.git}
  BY <1>2 DEF StartingViolation, Seen, Fits
<1>4. ASSUME pinned
      PROVE  origin = [git |-> "base", tree |-> "start", env |-> "none"]
  <2>1. shot["before"] = [git |-> "base", tree |-> "start", env |-> "none"]
    BY <1>4 DEF StartingViolation
  <2>2. origin.git = "base" /\ origin.tree = "start" /\ origin.env = "none"
    BY <1>2, <2>1 DEF Seen, Fits
  <2> QED
    BY <1>1, <2>2 DEF Repositories
<1> QED
  BY <1>3, <1>4 DEF Authorised

\* An agent is called and launched from a start that admission let pass.
LEMMA NextStart ==
    FlagTypes /\ DataTypes /\ PathInv /\ StartInv /\ SeenInv /\ [Next]_vars => StartInv'
<1> SUFFICES ASSUME FlagTypes, DataTypes, PathInv, StartInv, SeenInv, [Next]_vars,
                    (Invoking \/ launched)', ~touched'
             PROVE  Authorised'
  BY DEF StartInv
<1>1. UNCHANGED request /\ ~touched
  BY DEF Next, vars, agent, request, AgentWrites, OutsiderWrites, AgentEnds,
     MarkStarted, Associate, Look, Scan, RecordCapture, Reject, RefuseUnsafe, RefuseIncapable,
     Refuse, Invoke, Launch, Answer, ExecutorRaises,
     RecordStarted, WriteEvidence, EvidenceRaises, BuildGuard, Judge, Abandoned
<1>2. CASE Invoking \/ launched
  BY <1>1, <1>2 DEF StartInv, Authorised, request
<1>3. CASE ~Invoking /\ ~launched
  <2>1. Invoke
    <3>1. ~Associate /\ ~Scan /\ ~RecordCapture /\ ~BuildGuard /\ ~Judge /\ ~Abandoned
      BY <1>3, AfterLookIs DEF Associate, Scan, RecordCapture, BuildGuard, Judge, Abandoned,
         Invoking, agent
    <3>2. ~\E part \in Parts : Look(part)
      BY <1>3, AfterLookAt DEF Look, Parts, Invoking, agent
    <3>3. ~AgentWrites /\ ~OutsiderWrites /\ ~AgentEnds /\ ~MarkStarted /\ ~UNCHANGED vars
      BY <1>3 DEF AgentWrites, OutsiderWrites, AgentEnds, AgentDies, MarkStarted, vars,
         Invoking, agent
    <3>4. ~Reject /\ ~RefuseUnsafe /\ ~RefuseIncapable
      BY <1>3 DEF Reject, RefuseUnsafe, RefuseIncapable, Refuse, Invoking, agent
    <3>5. /\ ~Launch /\ ~Answer /\ ~ExecutorRaises /\ ~RecordStarted /\ ~WriteEvidence
          /\ ~EvidenceRaises
      BY <1>3 DEF Launch, Answer, ExecutorRaises, RecordStarted, WriteEvidence,
         EvidenceRaises, Invoking
    <3> QED
      BY <3>1, <3>2, <3>3, <3>4, <3>5 DEF Next, Parts
  <2>2. Authorised
    BY <1>1, <2>1, AdmissionAuthorises DEF Invoke, SeenInv
  <2> QED
    BY <1>1, <2>2 DEF Authorised, request
<1> QED
  BY <1>2, <1>3

\* Without an attempt record there are evidence errors.
LEMMA NextRecord == FlagTypes /\ RecordInv /\ [Next]_vars => RecordInv'
<1> SUFFICES ASSUME FlagTypes, RecordInv, [Next]_vars PROVE RecordInv'
  OBVIOUS
<1>1. CASE Associate
  BY <1>1 DEF Associate, RecordInv
<1>2. CASE Abandoned
  BY <1>2 DEF Abandoned, RecordInv
<1>3. ASSUME ~Associate, ~Abandoned PROVE RecordInv'
  <2>1. /\ record' = record
        /\ at \in {"associate", "raised"} => at' \in {"associate", "raised"}
    BY <1>3 DEF Next, vars, tracker, AgentWrites, OutsiderWrites, AgentEnds,
       MarkStarted, Look, Scan, RecordCapture, Reject, RefuseUnsafe,
       RefuseIncapable, Refuse, Invoke, Launch, Answer, ExecutorRaises,
       RecordStarted, WriteEvidence, EvidenceRaises, BuildGuard, Judge, CaptureAfter
  <2>2. errors => errors'
    <3>1. CASE UNCHANGED errors
      BY <3>1
    <3>2. CASE Update
      BY <3>2, UpdateEffect
    <3>3. CASE errors' # errors /\ ~Update
      <4>1. RecordStarted \/ EvidenceRaises \/ BuildGuard
        BY <1>3, <3>3 DEF Next, vars, tracker, AgentWrites, OutsiderWrites, AgentEnds,
           MarkStarted, Look, Scan, RecordCapture, Reject, RefuseUnsafe,
           RefuseIncapable, Refuse, Invoke, Launch, Answer, ExecutorRaises,
           WriteEvidence, Judge
      <4> QED
        BY <3>3, <4>1 DEF RecordStarted, EvidenceRaises, BuildGuard, tracker
    <3> QED
      BY <3>1, <3>2, <3>3
  <2> QED
    BY <2>1, <2>2 DEF RecordInv
<1> QED
  BY <1>1, <1>2, <1>3

-----------------------------------------------------------------------------
(* The captures *)

\* The parts of a capture are read one after the other.
LEMMA NextRead ==
    DataTypes /\ PathInv /\ ReadInv /\ [Next]_vars => ReadInv'
<1> SUFFICES ASSUME DataTypes, PathInv, ReadInv, [Next]_vars PROVE ReadInv'
  OBVIOUS
<1> USE DEF ReadInv, HasGit, HasTree, HasEnv, agent, request, tracker, capture, judged
<1>1. CASE AgentWrites \/ OutsiderWrites \/ AgentEnds \/ MarkStarted
  BY <1>1 DEF AgentWrites, OutsiderWrites, AgentEnds, MarkStarted
<1>2. CASE Associate \/ RecordCapture
  BY <1>2 DEF Associate, RecordCapture
<1>3. ASSUME NEW part \in Parts, Look(part) PROVE ReadInv'
  <2>1. /\ at = part /\ UNCHANGED point
        /\ at' = IF part = "git" THEN "tree" ELSE IF part = "tree" THEN "env"
                 ELSE IF point = "before" THEN "record" ELSE "scan"
    BY <1>3, AfterLookAt DEF Look
  <2>2. /\ shot' \in Shots
        /\ \A p \in Points \ {point} : shot'[p] = shot[p]
        /\ \/ shot'[point] = Incomplete
           \/ /\ shot[point] # Incomplete
              /\ shot'[point].git = IF part = "git" THEN repo.git ELSE shot[point].git
              /\ shot'[point].tree = IF part = "tree" THEN repo.tree ELSE shot[point].tree
              /\ shot'[point].env = IF part = "env" THEN repo.env ELSE shot[point].env
    BY <1>3, LookEffect
  <2>3. /\ repo.git # "unread" /\ repo.tree # "unread" /\ repo.env # "unread"
        /\ point \in {"before", "after"} /\ part \in {"git", "tree", "env"}
    BY DEF DataTypes, Repositories, Points, Parts
  <2>4. CASE point = "before"
    <3>1. shot'["after"] = shot["after"]
      BY <2>2, <2>4 DEF Points
    <3> QED
      BY <2>1, <2>2, <2>3, <2>4, <3>1
  <2>5. CASE point = "after"
    <3>1. shot'["before"] = shot["before"]
      BY <2>2, <2>5 DEF Points
    <3> QED
      BY <2>1, <2>2, <2>3, <2>5, <3>1
  <2> QED
    BY <2>3, <2>4, <2>5
<1>4. CASE Scan
  <2>1. at' = IF point = "before" THEN "git" ELSE "record"
    BY <1>4, AfterLookIs DEF Scan
  <2> QED
    BY <1>4, <2>1 DEF Scan, DataTypes, Points
<1>5. CASE Reject \/ RefuseUnsafe \/ RefuseIncapable
  BY <1>5 DEF Reject, RefuseUnsafe, RefuseIncapable, Refuse
<1>6. CASE Invoke \/ Launch \/ Answer \/ RecordStarted
  BY <1>6 DEF Invoke, Launch, Answer, RecordStarted
<1>7. CASE ExecutorRaises \/ WriteEvidence \/ EvidenceRaises
  BY <1>7 DEF ExecutorRaises, WriteEvidence, EvidenceRaises, CaptureAfter
<1>8. CASE BuildGuard \/ Judge
  BY <1>8 DEF BuildGuard, Judge
<1>9. CASE Abandoned
  BY <1>9 DEF Abandoned, NoShots
<1>10. CASE UNCHANGED vars
  BY <1>10 DEF vars
<1> QED
  BY <1>1, <1>2, <1>3, <1>4, <1>5, <1>6, <1>7, <1>8, <1>9, <1>10 DEF Next, Parts

\* A snapshot that was read to its end, of a repository that stayed as it was, is it.
LEMMA WholeSnapshot ==
    ASSUME shot \in Shots, NEW p \in Points, NEW s \in Repositories, Seen(p, s),
           shot[p] # Incomplete, HasGit(p), HasTree(p), HasEnv(p)
    PROVE  shot[p] = s
<1>1. shot[p] \in Snapshots
  BY DEF Shots
<1>2. shot[p].git = s.git /\ shot[p].tree = s.tree /\ shot[p].env = s.env
  BY DEF Seen, Fits, HasGit, HasTree, HasEnv
<1> QED
  BY <1>1, <1>2 DEF Snapshots, Repositories

\* Before the executor is called nobody of the invocation runs.
LEMMA NothingLaunched ==
    PathInv /\ point = "before" /\ ~Invoking /\ at # "raised" => ~launched
BY DEF PathInv

\* What the invocation left running is none of a quiet one.
LEMMA QuietIsOver == AnswerInv /\ PathInv /\ Running /\ Quiet => ~alive
<1> SUFFICES ASSUME AnswerInv, PathInv, Running, Quiet PROVE ~alive
  OBVIOUS
<1>1. CASE refusal # "none"
  BY <1>1 DEF AnswerInv, PathInv, Running
<1>2. CASE execution \in Executions /\ execution.category \notin UntrustedCompletion
  BY <1>2 DEF AnswerInv
<1> QED
  BY <1>1, <1>2 DEF Quiet

\* What was read of the start is what the operation began with.
SeenBefore ==
    /\ Seen("before", origin)
    /\ at # "raised" /\ (point = "after" \/ at \notin {"associate", "scan"}) =>
          scan["before"] \in {origin.env, "error"}

\* What was read of the end of a quiet invocation is what is there.
SeenAfter ==
    /\ Seen("after", repo)
    /\ at \in {"record", "guard", "judge", "returned"} =>
          scan["after"] \in {repo.env, "error"}

\* What was seen, by the point it was seen at.
LEMMA SeenIs == SeenInv <=> (~touched => SeenBefore /\ (point = "after" /\ Quiet => SeenAfter))
BY DEF SeenInv, SeenBefore, SeenAfter

\* A look at a repository that is s leaves what was seen of s.
LEMMA LookSees ==
    ASSUME DataTypes, NEW part \in Parts, Look(part), NEW p \in Points, NEW s,
           Seen(p, s), p = point => repo = s
    PROVE  Fits(shot'[p], s)
<1>1. CASE p # point
  <2>1. shot'[p] = shot[p]
    BY <1>1, LookEffect DEF DataTypes
  <2> QED
    BY <2>1 DEF Seen
<1>2. CASE p = point
  BY <1>2, LookEffect DEF Seen, Fits
<1> QED
  BY <1>1, <1>2

\* One step keeps what was seen of the start.
LEMMA NextSeenBefore ==
    ASSUME DataTypes, PathInv, OriginInv, SeenBefore, ~touched, [Next]_vars
    PROVE  SeenBefore'
<1> USE DEF agent, request, tracker, capture, judged
<1>1. CASE UNCHANGED <<at, point, shot, scan, origin>>
  BY <1>1 DEF SeenBefore, Seen
<1>2. CASE Associate
  BY <1>2 DEF Associate, SeenBefore, Seen, PathInv
<1>3. CASE \E part \in Parts : Look(part)
  <2>1. PICK part \in Parts : Look(part)
    BY <1>3
  <2>2. point = "before" => repo = origin
    BY <2>1, AfterLookAt, NothingLaunched DEF OriginInv, Invoking, Parts
  <2>3. Seen("before", origin)'
    <3>1. Fits(shot'["before"], origin)
      BY <2>1, <2>2, LookSees DEF SeenBefore, Points
    <3> QED
      BY <2>1, <3>1 DEF Seen, Look
  <2> QED
    BY <2>1, <2>3, AfterLookAt DEF SeenBefore, Look, Parts
<1>4. CASE Scan
  <2>1. point = "before" => repo = origin
    BY <1>4, NothingLaunched DEF OriginInv, Invoking, Scan
  <2>2. scan'["before"] \in {origin.env, "error"}
    <3>1. CASE point = "before"
      BY <1>4, <2>1, <3>1, ScanEffect DEF DataTypes
    <3>2. CASE point # "before"
      <4>1. scan'["before"] = scan["before"] /\ point = "after"
        BY <1>4, <3>2, ScanEffect DEF DataTypes, Points
      <4> QED
        BY <1>4, <4>1 DEF SeenBefore, Scan
    <3> QED
      BY <3>1, <3>2
  <2> QED
    BY <1>4, <2>2 DEF SeenBefore, Seen, Scan
<1>5. CASE Abandoned
  BY <1>5 DEF Abandoned, SeenBefore, Seen, Fits, NoShots, Unread
<1>6. ASSUME at \notin {"associate", "scan"}, UNCHANGED <<shot, scan, origin>>
      PROVE  SeenBefore'
  <2>1. CASE at = "raised"
    <3>1. UNCHANGED <<at, point>>
      BY <2>1 DEF Next, vars, AgentWrites, OutsiderWrites, AgentEnds, MarkStarted, Associate,
         Look, Scan, RecordCapture, Reject, RefuseUnsafe, RefuseIncapable, Refuse, Invoke,
         Launch, Answer, ExecutorRaises, RecordStarted, WriteEvidence, EvidenceRaises,
         BuildGuard, Judge, Abandoned, Running, Parts
    <3> QED
      BY <1>1, <1>6, <3>1
  <2>2. CASE at # "raised"
    BY <1>6, <2>2 DEF SeenBefore, Seen
  <2> QED
    BY <2>1, <2>2
<1>7. \/ UNCHANGED <<at, point, shot, scan, origin>>
      \/ Associate \/ (\E part \in Parts : Look(part)) \/ Scan \/ Abandoned
      \/ at \notin {"associate", "scan"} /\ UNCHANGED <<shot, scan, origin>>
  BY DEF Next, vars, AgentWrites, OutsiderWrites, AgentEnds, MarkStarted,
     RecordCapture, Reject, RefuseUnsafe, RefuseIncapable, Refuse, Invoke,
     Launch, Answer, ExecutorRaises, RecordStarted, WriteEvidence, EvidenceRaises,
     BuildGuard, Judge, CaptureAfter, Parts
<1> QED
  BY <1>1, <1>2, <1>3, <1>4, <1>5, <1>6, <1>7

\* One step keeps what was seen of the end, once nobody of the invocation can write.
LEMMA NextSeenAfter ==
    ASSUME DataTypes, AnswerInv, PathInv, ReadInv, point = "after" /\ Quiet => SeenAfter,
           ~touched', [Next]_vars, point' = "after", Quiet'
    PROVE  SeenAfter'
<1> USE DEF agent, request, tracker, capture, judged
<1>1. CASE point = "before"
  <2>1. shot'["after"] = Unread /\ at' = "git"
    <3>1. Reject \/ RefuseUnsafe \/ RefuseIncapable \/ ExecutorRaises \/ WriteEvidence
          \/ EvidenceRaises
      BY <1>1 DEF Next, vars, AgentWrites, OutsiderWrites, AgentEnds, MarkStarted, Associate,
         Look, Scan, RecordCapture, Invoke, Launch, Answer, RecordStarted,
         BuildGuard, Judge, Abandoned, Parts
    <3>2. shot' = shot /\ at' = "git"
      BY <3>1 DEF Reject, RefuseUnsafe, RefuseIncapable, Refuse, ExecutorRaises,
         WriteEvidence, EvidenceRaises, CaptureAfter
    <3> QED
      BY <1>1, <3>2 DEF ReadInv
  <2> QED
    BY <2>1 DEF SeenAfter, Seen, Fits, Unread
<1>2. CASE point = "after"
  <2>1. Quiet
    <3>1. UNCHANGED <<refusal, execution>>
      BY <1>2 DEF Next, vars, AgentWrites, OutsiderWrites, AgentEnds, AgentDies, MarkStarted,
         Associate, Look, Scan, RecordCapture, Reject, RefuseUnsafe, RefuseIncapable, Refuse,
         Invoke, Launch, LaunchAgent, Answer, ExecutorRaises, RecordStarted, WriteEvidence,
         EvidenceRaises, BuildGuard, Judge, Abandoned, Parts, PathInv, Invoking
    <3> QED
      BY <3>1 DEF Quiet
  <2>2. SeenAfter
    BY <1>2, <2>1
  <2>3. ~AgentWrites /\ ~OutsiderWrites
    BY <2>1, QuietIsOver DEF AgentWrites, OutsiderWrites, Writes
  <2>4. repo' = repo
    BY <2>3 DEF Next, vars, AgentEnds, MarkStarted, Associate,
       Look, Scan, RecordCapture, Reject, RefuseUnsafe, RefuseIncapable, Refuse, Invoke,
       Launch, Answer, ExecutorRaises, RecordStarted, WriteEvidence, EvidenceRaises,
       BuildGuard, Judge, Abandoned, Parts
  <2>5. CASE UNCHANGED <<at, shot, scan>>
    BY <2>2, <2>4, <2>5 DEF SeenAfter, Seen
  <2>6. CASE \E part \in Parts : Look(part)
    <3>1. PICK part \in Parts : Look(part)
      BY <2>6
    <3>2. Fits(shot'["after"], repo)
      BY <2>2, <3>1, LookSees DEF SeenAfter, Points
    <3> QED
      BY <1>2, <2>4, <3>1, <3>2, AfterLookAt DEF SeenAfter, Seen, Parts
  <2>7. CASE Scan
    <3>1. scan'["after"] \in {repo.env, "error"}
      BY <1>2, <2>7, ScanEffect DEF DataTypes
    <3> QED
      BY <2>2, <2>4, <2>7, <3>1 DEF SeenAfter, Seen, Scan
  <2>8. CASE at \in {"record", "guard", "judge"} /\ UNCHANGED <<shot, scan>>
    BY <2>2, <2>4, <2>8 DEF SeenAfter, Seen
  <2>9. \/ UNCHANGED <<at, shot, scan>> \/ (\E part \in Parts : Look(part)) \/ Scan
        \/ at \in {"record", "guard", "judge"} /\ UNCHANGED <<shot, scan>>
    BY <1>2, <2>3 DEF Next, vars, AgentEnds, MarkStarted, Associate, RecordCapture, Reject,
       RefuseUnsafe, RefuseIncapable, Refuse, Invoke, Launch, Answer, ExecutorRaises,
       RecordStarted, WriteEvidence, EvidenceRaises, BuildGuard, Judge, Abandoned, Parts,
       PathInv, Invoking
  <2> QED
    BY <2>5, <2>6, <2>7, <2>8, <2>9
<1> QED
  BY <1>1, <1>2 DEF DataTypes, Points

\* A step keeps what was seen.
LEMMA NextSeen ==
    DataTypes /\ AnswerInv /\ PathInv /\ OriginInv /\ ReadInv /\ SeenInv /\ [Next]_vars
      => SeenInv'
<1> SUFFICES ASSUME DataTypes, AnswerInv, PathInv, OriginInv, ReadInv, SeenInv, [Next]_vars,
                    ~touched'
             PROVE  SeenBefore' /\ (point' = "after" /\ Quiet' => SeenAfter')
  BY DEF SeenInv, SeenBefore, SeenAfter
<1>1. ~touched
  BY DEF Next, vars, agent, request, AgentWrites, OutsiderWrites, AgentEnds,
     MarkStarted, Associate, Look, Scan, RecordCapture, Reject, RefuseUnsafe, RefuseIncapable,
     Refuse, Invoke, Launch, Answer, ExecutorRaises,
     RecordStarted, WriteEvidence, EvidenceRaises, BuildGuard, Judge, Abandoned
<1>2. SeenBefore /\ (point = "after" /\ Quiet => SeenAfter)
  BY <1>1, SeenIs
<1> QED
  BY <1>1, <1>2, NextSeenBefore, NextSeenAfter

-----------------------------------------------------------------------------
(* The judgement *)

\* Only the judgement gives an outcome, and nothing happens after it.
LEMMA OnlyTheJudgement ==
    ASSUME [Next]_vars
    PROVE  /\ at \in {"returned", "raised"} => UNCHANGED vars
           /\ outcome' # outcome => Judge \/ Abandoned
           /\ at' = "returned" => Judge \/ UNCHANGED vars
<1> USE DEF agent, request, tracker, capture, judged
<1>1. at \in {"returned", "raised"} => UNCHANGED vars
  BY DEF Next, vars, AgentWrites, OutsiderWrites, AgentEnds, MarkStarted, Associate,
     Look, Scan, RecordCapture, Reject, RefuseUnsafe, RefuseIncapable, Refuse, Invoke,
     Launch, Answer, ExecutorRaises, RecordStarted, WriteEvidence, EvidenceRaises,
     BuildGuard, Judge, Abandoned, Parts, Running, Writes
<1>2. outcome' # outcome => Judge \/ Abandoned
  BY DEF Next, vars, AgentWrites, OutsiderWrites, AgentEnds, MarkStarted, Associate,
     Look, Scan, RecordCapture, Reject, RefuseUnsafe, RefuseIncapable, Refuse, Invoke,
     Launch, Answer, ExecutorRaises, RecordStarted, WriteEvidence, EvidenceRaises,
     BuildGuard
<1>3. at # "returned" /\ at' = "returned" => Judge
  BY AfterLookAt, AfterLookIs DEF Next, vars, AgentWrites, OutsiderWrites, AgentEnds,
     MarkStarted, Associate, Scan, RecordCapture, Reject, RefuseUnsafe, RefuseIncapable,
     Refuse, Invoke, Launch, Answer, ExecutorRaises, RecordStarted, WriteEvidence,
     EvidenceRaises, BuildGuard, Abandoned, Parts, CaptureAfter
<1> QED
  BY <1>1, <1>2, <1>3

\* The guard is built from what was read, and never from what was not.
LEMMA NextGuard ==
    FlagTypes /\ RecordInv /\ GuardInv /\ [Next]_vars => GuardInv'
<1> SUFFICES ASSUME FlagTypes, RecordInv, GuardInv, [Next]_vars,
                    at' \in {"judge", "returned"}, ~guard'.human
             PROVE  Inspected' /\ ~NewEnvironment' /\ guard'.persisted
  BY DEF GuardInv
<1> USE DEF agent, request, tracker, capture, judged
<1>1. CASE BuildGuard
  <2>1. PICK compared \in BOOLEAN, written \in BOOLEAN :
           /\ errors' = (errors \/ ~compared \/ (record /\ ~written))
           /\ guard' = [human |-> RequiresHuman(errors'), persisted |-> record /\ written]
    BY <1>1 DEF BuildGuard
  <2>2. ~RequiresHuman(errors')
    BY <2>1
  <2>3. Inspected /\ ~NewEnvironment /\ ~errors'
    BY <2>2 DEF RequiresHuman
  <2>4. record /\ written
    BY <1>1, <2>1, <2>3 DEF RecordInv, BuildGuard
  <2>5. guard'.persisted
    BY <2>1, <2>4
  <2>6. UNCHANGED <<shot, scan>>
    BY <1>1 DEF BuildGuard
  <2> QED
    BY <2>3, <2>5, <2>6 DEF Inspected, NewEnvironment
<1>2. CASE ~BuildGuard
  <2>1. at \in {"judge", "returned"} /\ UNCHANGED <<shot, scan, guard>>
    BY <1>2, AfterLookAt, AfterLookIs DEF Next, vars, AgentWrites, OutsiderWrites, AgentEnds,
       MarkStarted, Associate, Look, Scan, RecordCapture, Reject, RefuseUnsafe,
       RefuseIncapable, Refuse, Invoke, Launch, Answer, ExecutorRaises, RecordStarted,
       WriteEvidence, EvidenceRaises, Judge, Abandoned, Parts, CaptureAfter
  <2> QED
    BY <2>1 DEF GuardInv, Inspected, NewEnvironment
<1> QED
  BY <1>1, <1>2

\* What an outcome says of the invocation it judges.
LEMMA Judgement ==
    ASSUME FlagTypes, DataTypes, AnswerInv, PathInv, Judge
    PROVE  /\ audit'.start # "none"
           /\ outcome' \in CleanFailures \cup {"Succeeded"} =>
                 ~guard.human /\ ~audit'.violations /\ ~PostViolation
           /\ outcome' = "Succeeded" =>
                 /\ refusal = "none" /\ execution \in Executions
                 /\ execution.status = "SUCCESS" /\ audit'.start = "STARTED"
           /\ outcome' = "RejectedBeforeStart" =>
                 ~launched /\ audit'.start = "NOT_STARTED" /\ execution.status # "SUCCESS"
           /\ outcome' = "FailedUnchanged" =>
                 /\ execution \in Executions /\ execution.status = "FAILED"
                 /\ execution.category \notin UntrustedCompletion
                 /\ audit'.start \in {"STARTED", "UNKNOWN"} /\ audit'.unchanged /\ Unchanged
           /\ outcome' = "SafetyStopped" => audit'.violations \/ guard.human
<1>1. PICK diffed \in BOOLEAN :
         audit' = [violations |-> refusal = "violations" \/ PostViolation \/ ~diffed,
                   start |-> InvocationStart, unchanged |-> Unchanged]
  BY DEF Judge
<1>2. /\ audit'.violations = (refusal = "violations" \/ PostViolation \/ ~diffed)
      /\ audit'.start = InvocationStart /\ audit'.unchanged = Unchanged
  BY <1>1
<1>3. at = "judge" /\ point = "after" /\ outcome' = Classify(audit')
  BY DEF Judge, PathInv
<1>4. refusal = "none" => execution \in Executions \cup {Raised}
  BY <1>3 DEF PathInv, DataTypes, Answers
<1>5. /\ execution \in Executions =>
            /\ execution.start \in {"STARTED", "NOT_STARTED", "UNKNOWN"}
            /\ execution.status \in {"SUCCESS", "FAILED"}
            /\ execution.status = "SUCCESS" => execution.start = "STARTED"
      /\ Raised.status = "RAISED" /\ NoExecution.status = "none"
  BY DEF Executions, Raised, NoExecution, AnswerInv, ValidExecution
<1>6. InvocationStart = IF refusal # "none" THEN "NOT_STARTED"
                        ELSE IF marked THEN "STARTED"
                        ELSE IF execution.status = "RAISED" THEN "UNKNOWN"
                        ELSE execution.start
  BY DEF InvocationStart, DataTypes, FlagTypes
<1>7. audit'.start \in {"STARTED", "NOT_STARTED", "UNKNOWN"}
  BY <1>2, <1>4, <1>5, <1>6
<1>8. CASE refusal # "none"
  <2>1. outcome' = IF audit'.violations \/ guard.human THEN "SafetyStopped"
                   ELSE "RejectedBeforeStart"
    BY <1>3, <1>8 DEF Classify
  <2>2. ~launched /\ execution = NoExecution
    BY <1>3, <1>8 DEF PathInv
  <2> QED
    BY <1>2, <1>5, <1>6, <1>8, <2>1, <2>2 DEF CleanFailures
<1>9. CASE refusal = "none" /\ failed
  <2>1. outcome' = "FailedUncertain"
    BY <1>3, <1>9 DEF Classify
  <2> QED
    BY <1>7, <2>1 DEF CleanFailures
<1>10. CASE refusal = "none" /\ ~failed
  <2>1. execution \in Executions
    BY <1>3, <1>10 DEF PathInv
  <2>2. CASE execution.status = "SUCCESS"
    <3>1. outcome' = IF audit'.violations \/ guard.human THEN "SafetyStopped" ELSE "Succeeded"
      BY <1>3, <1>10, <2>2 DEF Classify
    <3>2. audit'.start = "STARTED"
      BY <1>2, <1>5, <1>6, <1>10, <2>1, <2>2
    <3> QED
      BY <1>2, <1>10, <2>1, <2>2, <3>1, <3>2 DEF CleanFailures
  <2>3. CASE execution.status # "SUCCESS"
    <3>1. outcome' = IF ~audit'.unchanged \/ audit'.violations \/ guard.human
                     THEN "FailedUncertain"
                     ELSE IF audit'.start = "NOT_STARTED" THEN "RejectedBeforeStart"
                     ELSE IF execution.category \notin UntrustedCompletion
                     THEN "FailedUnchanged" ELSE "FailedUncertain"
      BY <1>3, <1>10, <2>3 DEF Classify, TrustedFailure
    <3>2. audit'.start = "NOT_STARTED" => ~launched
      BY <1>2, <1>5, <1>6, <1>10, <2>1 DEF AnswerInv
    <3> QED
      BY <1>2, <1>5, <1>7, <2>1, <2>3, <3>1, <3>2 DEF CleanFailures
  <2> QED
    BY <2>2, <2>3
<1> QED
  BY <1>8, <1>9, <1>10 DEF DataTypes, FlagTypes

\* The outcomes of a judgement keep what the properties promise.
LEMMA JudgedOutcome == IInv /\ Judge => OutcomeInv'
<1> SUFFICES ASSUME IInv, Judge PROVE OutcomeInv'
  OBVIOUS
<1> USE DEF agent, request, tracker, capture
<1>1. /\ FlagTypes /\ DataTypes /\ AnswerInv /\ PathInv /\ OriginInv /\ ReadInv /\ SeenInv
      /\ GuardInv
  BY DEF IInv
<1>2. /\ at = "judge" /\ point = "after" /\ at' = "returned"
      /\ UNCHANGED <<alive, launched, execution, repo, touched, origin, shot, scan, guard>>
  BY <1>1 DEF Judge, PathInv
<1> DEFINE out == outcome'  start == audit'.start
<1>3. /\ start # "none"
      /\ out \in CleanFailures \cup {"Succeeded"} =>
            ~guard.human /\ ~audit'.violations /\ ~PostViolation
      /\ out = "Succeeded" =>
            /\ refusal = "none" /\ execution \in Executions
            /\ execution.status = "SUCCESS" /\ start = "STARTED"
      /\ out = "RejectedBeforeStart" =>
            ~launched /\ start = "NOT_STARTED" /\ execution.status # "SUCCESS"
      /\ out = "FailedUnchanged" =>
            /\ execution \in Executions /\ execution.status = "FAILED"
            /\ execution.category \notin UntrustedCompletion
            /\ start \in {"STARTED", "UNKNOWN"} /\ audit'.unchanged /\ Unchanged
      /\ out = "SafetyStopped" => audit'.violations \/ guard.human
  BY <1>1, Judgement
<1>4. out \in CleanFailures \cup {"Succeeded"} =>
         Inspected /\ ~NewEnvironment /\ guard.persisted
  BY <1>1, <1>2, <1>3 DEF GuardInv
<1>5. out = "Succeeded" \/ out = "FailedUnchanged" =>
         execution \in Executions /\ execution.category \notin UntrustedCompletion
  BY <1>1, <1>3 DEF AnswerInv, ValidExecution, UntrustedCompletion
<1>6. ASSUME Inspected, ~touched
      PROVE  /\ shot["before"] = origin /\ scan["before"] = origin.env
             /\ Quiet => shot["after"] = repo /\ scan["after"] = repo.env
  <2>1. /\ shot["before"] # Incomplete /\ shot["after"] # Incomplete
        /\ scan["before"] # "error" /\ scan["after"] # "error"
    BY <1>6 DEF Inspected, Taken
  <2>2. /\ HasGit("before") /\ HasTree("before") /\ HasEnv("before")
        /\ HasGit("after") /\ HasTree("after") /\ HasEnv("after")
    BY <1>1, <1>2 DEF ReadInv
  <2>3. /\ Seen("before", origin) /\ scan["before"] \in {origin.env, "error"}
        /\ Quiet => Seen("after", repo) /\ scan["after"] \in {repo.env, "error"}
    BY <1>1, <1>2, <1>6 DEF SeenInv
  <2>4. shot["before"] = origin
    BY <1>1, <2>1, <2>2, <2>3, WholeSnapshot DEF DataTypes, Points
  <2>5. Quiet => shot["after"] = repo
    BY <1>1, <2>1, <2>2, <2>3, WholeSnapshot DEF DataTypes, Points
  <2> QED
    BY <2>1, <2>3, <2>4, <2>5
<1>7. EndedMeansQuiet'
  <2>1. out \in CleanFailures \cup {"Succeeded"} => ~alive
    BY <1>1, <1>3, <1>5 DEF AnswerInv, CleanFailures
  <2> QED
    BY <1>2, <1>3, <2>1 DEF EndedMeansQuiet
<1>8. CleanFailureLeavesRepository'
  <2>1. ASSUME out = "RejectedBeforeStart", ~touched PROVE repo = origin
    BY <1>1, <1>3, <2>1 DEF OriginInv
  <2>2. ASSUME out = "FailedUnchanged", ~touched PROVE repo = origin
    BY <1>3, <1>4, <1>5, <1>6, <2>2 DEF Unchanged, Quiet, CleanFailures
  <2> QED
    BY <1>2, <2>1, <2>2 DEF CleanFailureLeavesRepository, CleanFailures
<1>9. SuccessIsWhatIsThere'
  <2> SUFFICES ASSUME out = "Succeeded", ~touched
               PROVE  /\ repo = shot["after"] /\ repo.git = "base"
                      /\ repo.env = "new" => origin.env = "new"
    BY <1>2 DEF SuccessIsWhatIsThere
  <2>1. /\ scan["before"] = origin.env
        /\ shot["after"] = repo /\ scan["after"] = repo.env
    BY <1>4, <1>5, <1>6 DEF Quiet
  <2>2. repo.git = "base"
    BY <1>3, <2>1 DEF PostViolation
  <2>3. ASSUME repo.env = "new" PROVE origin.env = "new"
    <3>1. scan["before"] # "none"
      BY <1>4, <2>1, <2>3 DEF NewEnvironment
    <3> QED
      BY <1>1, <2>1, <3>1 DEF DataTypes, Repositories
  <2> QED
    BY <2>1, <2>2, <2>3
<1>10. Constructible'
  BY <1>2, <1>3, <1>4 DEF Constructible, Inspected, Taken, CleanFailures
<1> QED
  BY <1>2, <1>3, <1>7, <1>8, <1>9, <1>10 DEF OutcomeInv

\* The outcomes stay what they promise.
LEMMA NextOutcome == IInv /\ [Next]_vars => OutcomeInv'
<1> SUFFICES ASSUME IInv, [Next]_vars PROVE OutcomeInv'
  OBVIOUS
<1>1. CASE Judge
  BY <1>1, JudgedOutcome
<1>2. CASE UNCHANGED vars
  BY <1>2 DEF IInv, OutcomeInv, EndedMeansQuiet, CleanFailureLeavesRepository,
     SuccessIsWhatIsThere, Constructible, vars, agent, request, capture, judged
<1>3. ASSUME ~Judge, ~UNCHANGED vars PROVE OutcomeInv'
  <2>1. at # "returned"
    BY <1>3, OnlyTheJudgement
  <2>2. outcome = "none"
    BY <2>1 DEF IInv, OutcomeInv
  <2>3. outcome' = "none"
    BY <1>3, <2>2, OnlyTheJudgement DEF Abandoned
  <2> QED
    BY <2>3 DEF OutcomeInv, EndedMeansQuiet, CleanFailureLeavesRepository,
       SuccessIsWhatIsThere, Constructible, CleanFailures
<1> QED
  BY <1>1, <1>2, <1>3

-----------------------------------------------------------------------------
(* The theorems *)

\* The invariant holds at first.
LEMMA InitIInv == Init => IInv
<1> SUFFICES ASSUME Init PROVE IInv
  OBVIOUS
<1>1. FlagTypes /\ DataTypes
  BY InitTypes
<1>2. NoExecution \notin Executions
  BY DEF NoExecution, Executions
<1>3. AnswerInv /\ PathInv /\ OriginInv /\ StartInv
  BY <1>2 DEF Init, AgentInit, AnswerInv, PathInv, Invoking, OriginInv, StartInv
<1>4. ReadInv /\ SeenInv
  <2>1. shot["before"] = Unread /\ shot["after"] = Unread
    BY DEF Init, NoShots
  <2> QED
    BY <2>1 DEF Init, ReadInv, SeenInv, Seen, Fits, Unread
<1>5. RecordInv /\ GuardInv
  BY DEF Init, RecordInv, GuardInv
<1>6. OutcomeInv
  BY DEF Init, OutcomeInv, EndedMeansQuiet, CleanFailureLeavesRepository,
     SuccessIsWhatIsThere, Constructible, CleanFailures
<1> QED
  BY <1>1, <1>3, <1>4, <1>5, <1>6 DEF IInv

\* The invariant is inductive.
LEMMA NextIInv == IInv /\ [Next]_vars => IInv'
BY NextFlags, NextData, NextAnswer, NextPath, NextOrigin, NextStart, NextRead, NextSeen,
   NextRecord, NextGuard, NextOutcome DEF IInv

\* The inductive invariant of the guarded operation.
THEOREM GuardedWriteInvariant == Spec => []IInv
BY InitIInv, NextIInv, PTL DEF Spec

\* The repository, the captures and the locals of the operation have their types.
THEOREM GuardedWriteTypes == Spec => []TypeOK
<1>1. IInv => TypeOK
  BY TypesAre DEF IInv, OutcomeInv
<1> QED
  BY <1>1, GuardedWriteInvariant, PTL

\* execute() lets a run fail cleanly or go on only when nobody of the invocation can write
\* any more, and reports "rejected before start" only if no process ever ran.
THEOREM OutcomesComeAfterTheAgent == Spec => []EndedMeansQuiet
<1>1. IInv => EndedMeansQuiet
  BY DEF IInv, OutcomeInv
<1> QED
  BY <1>1, GuardedWriteInvariant, PTL

\* A RejectedBeforeStart or FailedUnchanged outcome leaves the repository as the operation
\* found it, although it compares two captures that are read part by part.
THEOREM CleanFailuresAreClean == Spec => []CleanFailureLeavesRepository
<1>1. IInv => CleanFailureLeavesRepository
  BY DEF IInv, OutcomeInv
<1> QED
  BY <1>1, GuardedWriteInvariant, PTL

\* What a Succeeded outcome is judged by is what the agent left, on the baseline commit and
\* without a new environment.
THEOREM SuccessesAreThere == Spec => []SuccessIsWhatIsThere
<1>1. IInv => SuccessIsWhatIsThere
  BY DEF IInv, OutcomeInv
<1> QED
  BY <1>1, GuardedWriteInvariant, PTL

\* The executor is called from the authorised workspace only (_starting_violations).
THEOREM AgentsStartAuthorised == Spec => []StartsAuthorised
<1>1. IInv => StartsAuthorised
  BY DEF IInv, StartInv, StartsAuthorised, Authorised
<1> QED
  BY <1>1, GuardedWriteInvariant, PTL

\* The classification never asks for an outcome whose __post_init__ would refuse it.
THEOREM OutcomesAreConstructible == Spec => []Constructible
<1>1. IInv => Constructible
  BY DEF IInv, OutcomeInv
<1> QED
  BY <1>1, GuardedWriteInvariant, PTL
================================================================================
