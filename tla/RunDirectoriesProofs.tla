-------------------------- MODULE RunDirectoriesProofs --------------------------
(***************************************************************************)
(* Theorems about run directories, for any number of controllers that      *)
(* create runs or resume them, of repositories and of identifiers.         *)
(***************************************************************************)
EXTENDS RunDirectories, TLAPS

-----------------------------------------------------------------------------
(* The inductive invariant, part by part *)

\* Where a controller is whose directory does not exist yet, and where a creator holds the
\* lock of its repository without a directory.
Early(c) == at[c] \in {"start", "ticket", "preflight", "baseline", "reserve", "refused"}
Unmade(p) == IF p \in Creators THEN Early(p) ELSE at[p] # "done"
Preparing(c) == at[c] \in {"ticket", "preflight", "baseline", "reserve"}
Erasing(c) == at[c] \in {"unlink-ticket", "unlink-baseline", "rmdir"}
Ending(p) == at[p] \in {"driving", "mark", "write"}

\* Nobody has heard of a directory that does not exist yet.
UnmadeInv ==
    \A p \in Controllers : Unmade(p) =>
        /\ dir[p] = EmptyDirectory /\ away # p
        /\ \A id \in Ids : disk[id] # p
        /\ \A q \in Controllers : mem[q].token # p

\* A creator has its identifier to itself, and there is a directory at its path.
Placed(c) == Creating(c) \/ Ending(c)
PlacedInv ==
    \A c \in Creators : Placed(c) =>
        /\ mem[c].id \in Ids /\ disk[mem[c].id] # None
        /\ \A d \in Creators : Placed(d) /\ mem[d].id = mem[c].id => d = c

\* A resumer that has started has its identifier and its token.
BoundInv ==
    \A r \in Resumers : at[r] # "start" => mem[r].id \in Ids /\ mem[r].token \in Makers

\* What a creator knows.
HasText == {"preflight", "baseline", "reserve", "bind", "record", "write-record", "copy",
            "write-ticket", "sync", "save", "write-baseline", "made", "driving"}
HasBaseline == HasText \ {"preflight", "baseline"}
HasRecord == HasBaseline \ {"reserve", "bind", "record", "write-record"}
HasTicket == HasRecord \ {"copy", "write-ticket"}
MemoryInv ==
    \A c \in Creators :
        /\ at[c] \in HasText => mem[c].text # None
        /\ at[c] \in HasBaseline => mem[c].baseline # None /\ mem[c].baseline.text = mem[c].text
        /\ at[c] \in HasRecord => mem[c].record = FirstRecord(c)
        /\ at[c] \in HasTicket => mem[c].ticket = [by |-> c, text |-> mem[c].text]
        /\ mem[c].baseline # None => mem[c].baseline.by = c /\ mem[c].baseline.base # "dirty"

\* What a resumer has read.
AfterRecord == {"after-record", "lock", "state", "baseline", "read-baseline", "after-baseline",
                "ticket", "read-ticket", "after-ticket", "judge", "driving"}
AfterBaseline == {"after-baseline", "ticket", "read-ticket", "after-ticket", "judge", "driving"}
AfterTicket == {"after-ticket", "judge", "driving"}
KnownInv ==
    /\ \A r \in Resumers :
        /\ at[r] \in AfterRecord => mem[r].record # None
        /\ at[r] \in AfterBaseline => mem[r].baseline # None /\ mem[r].baseline.base # "dirty"
        /\ at[r] \in AfterTicket => mem[r].ticket # None
    /\ \A p \in Controllers : at[p] = "write" => mem[p].record # None
    /\ \A m \in Makers : dir[m].baseline # None => dir[m].baseline.base # "dirty"
    /\ DrivenRunIsWhole

\* An act hits the directory that was looked at, unless one came late.
LookInv ==
    /\ \A c \in Creators :
        /\ at[c] = "bind" => AtPath(c) \in {c} \cup late
        /\ Placed(c) /\ at[c] # "bind" => mem[c].token \in {c} \cup late
    /\ \A p \in Controllers : at[p] \in Acting \ {"bind"} =>
        AtPath(p) \in {mem[p].token, None} \cup late

\* The files of a directory that never came late were written by its maker.
PureInv ==
    /\ \A m \in Makers \ late :
        /\ dir[m].record # None => dir[m].record.by = m
        /\ dir[m].ticket # None => dir[m].ticket.by = m
        /\ dir[m].baseline # None => dir[m].baseline.by = m
    /\ \A p \in Controllers : at[p] = "write" /\ mem[p].token \notin late =>
        mem[p].record.by = mem[p].token

IInv ==
    /\ TypeOK
    /\ UnmadeInv /\ PlacedInv /\ BoundInv /\ MemoryInv /\ KnownInv /\ LookInv /\ PureInv

-----------------------------------------------------------------------------
(* Without restoration *)

\* Where a resumer holds the lock of the run that it read.
Past(r) == at[r] \in (AfterRecord \ {"after-record", "lock"}) \cup {"mark", "write"}

\* A token that names the other directory is of no use once the directory is gone.
GoneInv ==
    (\E q \in Controllers : mem[q].token = "other") /\ (\A id \in Ids : disk[id] # "other") =>
        dir["other"] = EmptyDirectory

\* A directory that is at a path has never been anywhere else.
HomeInv ==
    \A c \in Creators, id \in Ids : disk[id] = c =>
        /\ mem[c].id = id
        /\ Creating(c) /\ at[c] # "bind" => mem[c].token = c
        /\ c \notin late /\ (Erasing(c) \/ at[c] = "failed") => dir[c].record = None

\* Whoever got past the lock is not after a directory that may still be removed.
LockInv ==
    /\ \A c \in Creators : Creating(c) \/ Preparing(c) => lock[RepositoryOf[c]] = c
    /\ \A c \in Creators \ late :
        /\ Creating(c) /\ dir[c].record # None => dir[c].record.repository = RepositoryOf[c]
        /\ at[c] = "bind" => dir[c].record = None
        /\ \A r \in Resumers : mem[r].token = c =>
            /\ Creating(c) /\ (at[r] = "lock" \/ (at[r] = "after-record" /\ Owned(r))) =>
                  mem[r].record.repository = RepositoryOf[c]
            /\ Past(r) => ~Creating(c)
            /\ at[r] = "write" => dir[c].record # None

\* What was read between two looks that agree was read from the run's own directory.
OwnInv ==
    \A r \in Resumers : mem[r].token \notin late =>
        /\ (at[r] \in AfterRecord \ {"after-record"} \/ (at[r] = "after-record" /\ Owned(r))) =>
              mem[r].record.by = mem[r].token
        /\ (at[r] \in AfterBaseline \ {"after-baseline"} \/ (at[r] = "after-baseline" /\ Owned(r))) =>
              mem[r].baseline.by = mem[r].token
        /\ (at[r] \in AfterTicket \ {"after-ticket"} \/ (at[r] = "after-ticket" /\ Owned(r))) =>
              mem[r].ticket.by = mem[r].token

NotRestored == IInv /\ GoneInv /\ HomeInv /\ LockInv /\ OwnInv

-----------------------------------------------------------------------------
(* Types *)

LEMMA Names ==
    /\ Controllers \subseteq Makers
    /\ Creators \subseteq Makers /\ Creators \subseteq Controllers /\ Resumers \subseteq Controllers
    /\ None \notin Makers /\ None \notin Controllers /\ 0 \notin Ids
    /\ "old" \in Makers /\ "other" \in Makers
    /\ "old" \notin Controllers /\ "other" \notin Controllers
    /\ \A c \in Creators : RepositoryOf[c] \in Repositories /\ c \notin Resumers
BY RunsAssumption DEF Makers, Controllers

LEMMA InitTypes == Init => TypeOK
<1> SUFFICES ASSUME Init PROVE TypeOK
  OBVIOUS
<1>1. PICK r \in Repositories :
        dir = [m \in Makers |-> IF m \in Controllers THEN EmptyDirectory ELSE Complete(m, r)]
  BY DEF Init
<1>2. EmptyDirectory \in Directories /\ \A m \in Makers : Complete(m, r) \in Directories
  BY DEF EmptyDirectory, Directories, Complete, RunRecords, Tickets, Baselines, Workspaces, Texts
<1>3. dir \in [Makers -> Directories]
  BY <1>1, <1>2
<1>4. Knows \in Knowledge
  BY DEF Knows, Knowledge
<1>5. ticket \in Texts /\ workspace \in [Repositories -> Workspaces]
  BY DEF Init, Texts, Workspaces
<1>6. /\ disk \in [Ids -> Makers \cup {None}]
      /\ \A i, j \in Ids : disk[i] = disk[j] /\ disk[i] # None => i = j
  BY Names DEF Init
<1>7. /\ lock \in [Repositories -> Controllers \cup {None}]
      /\ at \in [Controllers -> Steps] /\ mem \in [Controllers -> Knowledge]
  BY <1>4 DEF Init, Steps
<1>8. restored \in BOOLEAN /\ late \subseteq Makers /\ away = None
  BY DEF Init
<1> QED
  BY <1>3, <1>5, <1>6, <1>7, <1>8 DEF TypeOK

LEMMA GotoType ==
    ASSUME TypeOK, NEW p \in Controllers, NEW s \in Steps, Goto(p, s)
    PROVE  at' \in [Controllers -> Steps]
BY DEF TypeOK, Goto

LEMMA FreeType ==
    ASSUME TypeOK, NEW p \in Controllers, Free(p)
    PROVE  lock' \in [Repositories -> Controllers \cup {None}]
BY DEF TypeOK, Free

LEMMA WriteType ==
    ASSUME TypeOK, NEW m \in Makers,
           \/ \E v \in RunRecords \cup {None} : Write(m, "record", v)
           \/ \E v \in Tickets \cup {None} : Write(m, "ticket", v)
           \/ \E v \in Baselines \cup {None} : Write(m, "baseline", v)
    PROVE  dir' \in [Makers -> Directories]
BY DEF TypeOK, Write, Directories

LEMMA LearnType ==
    ASSUME TypeOK, NEW p \in Controllers,
           \/ \E v \in Ids : Learn(p, "id", v)
           \/ \E v \in Makers \cup {None} : Learn(p, "token", v)
           \/ \E v \in Texts \cup {None} : Learn(p, "text", v)
           \/ \E v \in RunRecords \cup {None} : Learn(p, "record", v)
           \/ \E v \in Tickets \cup {None} : Learn(p, "ticket", v)
           \/ \E v \in Baselines \cup {None} : Learn(p, "baseline", v)
    PROVE  mem' \in [Controllers -> Knowledge]
BY DEF TypeOK, Learn, Knowledge

LEMMA ArrivesType ==
    ASSUME TypeOK, NEW m \in Makers, NEW id, Arrives(m, id)
    PROVE  late' \subseteq Makers
BY DEF TypeOK, Arrives

LEMMA Fields ==
    ASSUME TypeOK
    PROVE  /\ \A m \in Makers : /\ dir[m].record \in RunRecords \cup {None}
                                /\ dir[m].ticket \in Tickets \cup {None}
                                /\ dir[m].baseline \in Baselines \cup {None}
           /\ \A p \in Controllers : /\ mem[p].id \in Ids \cup {0}
                                     /\ mem[p].token \in Makers \cup {None}
                                     /\ mem[p].text \in Texts \cup {None}
                                     /\ mem[p].record \in RunRecords \cup {None}
                                     /\ mem[p].ticket \in Tickets \cup {None}
                                     /\ mem[p].baseline \in Baselines \cup {None}
           /\ \A id \in Ids : disk[id] \in Makers \cup {None}
BY DEF TypeOK, Directories, Knowledge

LEMMA NoneIsNothing ==
    None \notin RunRecords /\ None \notin Tickets /\ None \notin Baselines /\ None \notin Texts
BY NoneAssumption

\* A controller learns two things at once.
Places(p, id, m) == mem' = [mem EXCEPT ![p].id = id, ![p].token = m]
LEMMA LearnPlace ==
    ASSUME TypeOK, NEW p \in Controllers, NEW id \in Ids, NEW m \in Makers, Places(p, id, m)
    PROVE  /\ mem' \in [Controllers -> Knowledge]
           /\ mem'[p].id = id /\ mem'[p].token = m
           /\ mem'[p].text = mem[p].text /\ mem'[p].record = mem[p].record
           /\ mem'[p].ticket = mem[p].ticket /\ mem'[p].baseline = mem[p].baseline
           /\ \A q \in Controllers \ {p} : mem'[q] = mem[q]
<1> DEFINE known == [[mem[p] EXCEPT !.id = id] EXCEPT !.token = m]
<1>1. [mem[p] EXCEPT !.id = id] \in Knowledge
  BY DEF TypeOK, Knowledge
<1>2. known \in Knowledge /\ known.id = id /\ known.token = m
  BY <1>1 DEF Knowledge
<1>3. mem[p] \in Knowledge /\ mem \in [Controllers -> Knowledge]
  BY DEF TypeOK
<1>4. /\ known.text = mem[p].text /\ known.record = mem[p].record
      /\ known.ticket = mem[p].ticket /\ known.baseline = mem[p].baseline
  BY <1>3 DEF Knowledge
<1>5. mem' = [mem EXCEPT ![p] = known]
  BY <1>3 DEF Places
<1> HIDE DEF known
<1> QED
  BY <1>2, <1>3, <1>4, <1>5

LEMMA LearnFields ==
    ASSUME TypeOK, NEW p \in Controllers, NEW v
    PROVE  /\ Learn(p, "id", v) =>
                /\ mem'[p].id = v /\ mem'[p].token = mem[p].token /\ mem'[p].text = mem[p].text
                /\ mem'[p].record = mem[p].record /\ mem'[p].ticket = mem[p].ticket
                /\ mem'[p].baseline = mem[p].baseline
           /\ Learn(p, "token", v) =>
                /\ mem'[p].token = v /\ mem'[p].id = mem[p].id /\ mem'[p].text = mem[p].text
                /\ mem'[p].record = mem[p].record /\ mem'[p].ticket = mem[p].ticket
                /\ mem'[p].baseline = mem[p].baseline
           /\ Learn(p, "text", v) =>
                /\ mem'[p].text = v /\ mem'[p].id = mem[p].id /\ mem'[p].token = mem[p].token
                /\ mem'[p].record = mem[p].record /\ mem'[p].ticket = mem[p].ticket
                /\ mem'[p].baseline = mem[p].baseline
           /\ Learn(p, "record", v) =>
                /\ mem'[p].record = v /\ mem'[p].id = mem[p].id /\ mem'[p].token = mem[p].token
                /\ mem'[p].text = mem[p].text /\ mem'[p].ticket = mem[p].ticket
                /\ mem'[p].baseline = mem[p].baseline
           /\ Learn(p, "ticket", v) =>
                /\ mem'[p].ticket = v /\ mem'[p].id = mem[p].id /\ mem'[p].token = mem[p].token
                /\ mem'[p].text = mem[p].text /\ mem'[p].record = mem[p].record
                /\ mem'[p].baseline = mem[p].baseline
           /\ Learn(p, "baseline", v) =>
                /\ mem'[p].baseline = v /\ mem'[p].id = mem[p].id /\ mem'[p].token = mem[p].token
                /\ mem'[p].text = mem[p].text /\ mem'[p].record = mem[p].record
                /\ mem'[p].ticket = mem[p].ticket
<1>0. mem[p] \in Knowledge /\ mem \in [Controllers -> Knowledge]
  BY DEF TypeOK
<1>1. ASSUME NEW field, Learn(p, field, v)
      PROVE  mem'[p] = [mem[p] EXCEPT ![field] = v]
  BY <1>0, <1>1 DEF Learn
<1>2. ASSUME Learn(p, "id", v)
      PROVE
             /\ mem'[p].id = v
             /\ mem'[p].token = mem[p].token
             /\ mem'[p].text = mem[p].text
             /\ mem'[p].record = mem[p].record
             /\ mem'[p].ticket = mem[p].ticket
             /\ mem'[p].baseline = mem[p].baseline
  <2>1. mem'[p] = [mem[p] EXCEPT !["id"] = v]
    BY <1>1, <1>2
  <2> QED
    BY <1>0, <2>1 DEF Knowledge
<1>3. ASSUME Learn(p, "token", v)
      PROVE
             /\ mem'[p].id = mem[p].id
             /\ mem'[p].token = v
             /\ mem'[p].text = mem[p].text
             /\ mem'[p].record = mem[p].record
             /\ mem'[p].ticket = mem[p].ticket
             /\ mem'[p].baseline = mem[p].baseline
  <2>1. mem'[p] = [mem[p] EXCEPT !["token"] = v]
    BY <1>1, <1>3
  <2> QED
    BY <1>0, <2>1 DEF Knowledge
<1>4. ASSUME Learn(p, "text", v)
      PROVE
             /\ mem'[p].id = mem[p].id
             /\ mem'[p].token = mem[p].token
             /\ mem'[p].text = v
             /\ mem'[p].record = mem[p].record
             /\ mem'[p].ticket = mem[p].ticket
             /\ mem'[p].baseline = mem[p].baseline
  <2>1. mem'[p] = [mem[p] EXCEPT !["text"] = v]
    BY <1>1, <1>4
  <2> QED
    BY <1>0, <2>1 DEF Knowledge
<1>5. ASSUME Learn(p, "record", v)
      PROVE
             /\ mem'[p].id = mem[p].id
             /\ mem'[p].token = mem[p].token
             /\ mem'[p].text = mem[p].text
             /\ mem'[p].record = v
             /\ mem'[p].ticket = mem[p].ticket
             /\ mem'[p].baseline = mem[p].baseline
  <2>1. mem'[p] = [mem[p] EXCEPT !["record"] = v]
    BY <1>1, <1>5
  <2> QED
    BY <1>0, <2>1 DEF Knowledge
<1>6. ASSUME Learn(p, "ticket", v)
      PROVE
             /\ mem'[p].id = mem[p].id
             /\ mem'[p].token = mem[p].token
             /\ mem'[p].text = mem[p].text
             /\ mem'[p].record = mem[p].record
             /\ mem'[p].ticket = v
             /\ mem'[p].baseline = mem[p].baseline
  <2>1. mem'[p] = [mem[p] EXCEPT !["ticket"] = v]
    BY <1>1, <1>6
  <2> QED
    BY <1>0, <2>1 DEF Knowledge
<1>7. ASSUME Learn(p, "baseline", v)
      PROVE
             /\ mem'[p].id = mem[p].id
             /\ mem'[p].token = mem[p].token
             /\ mem'[p].text = mem[p].text
             /\ mem'[p].record = mem[p].record
             /\ mem'[p].ticket = mem[p].ticket
             /\ mem'[p].baseline = v
  <2>1. mem'[p] = [mem[p] EXCEPT !["baseline"] = v]
    BY <1>1, <1>7
  <2> QED
    BY <1>0, <2>1 DEF Knowledge
<1> QED
  BY <1>2, <1>3, <1>4, <1>5, <1>6, <1>7

LEMMA WriteFields ==
    ASSUME TypeOK, NEW m \in Makers, NEW v
    PROVE  /\ Write(m, "record", v) => /\ dir'[m].record = v /\ dir'[m].ticket = dir[m].ticket
                                       /\ dir'[m].baseline = dir[m].baseline
           /\ Write(m, "ticket", v) => /\ dir'[m].ticket = v /\ dir'[m].record = dir[m].record
                                       /\ dir'[m].baseline = dir[m].baseline
           /\ Write(m, "baseline", v) => /\ dir'[m].baseline = v /\ dir'[m].record = dir[m].record
                                         /\ dir'[m].ticket = dir[m].ticket
BY DEF TypeOK, Directories, Write

LEMMA PlacedPath ==
    ASSUME IInv, NEW c \in Creators, Placed(c)
    PROVE  mem[c].id \in Ids /\ AtPath(c) \in Makers
BY Fields DEF IInv, PlacedInv, AtPath

LEMMA EndingId ==
    ASSUME IInv, NEW p \in Controllers, Ending(p)
    PROVE  mem[p].id \in Ids /\ AtPath(p) \in Makers \cup {None}
<1>1. CASE p \in Creators
  BY <1>1, PlacedPath DEF Placed
<1>2. CASE p \in Resumers
  BY <1>2, Fields DEF IInv, BoundInv, Ending, AtPath
<1> QED
  BY <1>1, <1>2 DEF Controllers

LEMMA FirstRecordType ==
    ASSUME TypeOK, NEW c \in Creators, mem[c].baseline # None
    PROVE  FirstRecord(c) \in RunRecords
<1>1. mem[c].baseline \in Baselines /\ c \in Makers /\ RepositoryOf[c] \in Repositories
  BY Fields, Names
<1> QED
  BY <1>1 DEF FirstRecord, RunRecords, Baselines

LEMMA CreateTypes ==
    ASSUME IInv, NEW c \in Creators, Create(c)
    PROVE  TypeOK'
<1>0. /\ TypeOK /\ UnmadeInv /\ PlacedInv /\ MemoryInv
      /\ c \in Controllers /\ c \in Makers /\ RepositoryOf[c] \in Repositories
  BY Names DEF IInv
<1> USE <1>0
<1>1. CASE Start(c) \/ NothingCreated(c) \/ Preflight(c) \/ CreationRaises(c) \/ RollBackFails(c)
           \/ SyncTicket(c) \/ Made(c) \/ BeforeWrite(c)
  <2>1. at' \in [Controllers -> Steps]
    BY <1>1, GotoType
       DEF Start, NothingCreated, Preflight, CreationRaises, RollBackFails, SyncTicket, Made,
           BeforeWrite, Look, Steps
  <2>2. lock' \in [Repositories -> Controllers \cup {None}]
    BY <1>1, FreeType
       DEF TypeOK, Start, NothingCreated, Preflight, CreationRaises, RollBackFails, SyncTicket,
           Made, BeforeWrite, Look
  <2>3. UNCHANGED <<outside, disk, dir, mem, late>>
    BY <1>1 DEF Start, NothingCreated, Preflight, CreationRaises, RollBackFails, SyncTicket,
           Made, BeforeWrite, Look
  <2> QED
    BY <2>1, <2>2, <2>3 DEF TypeOK, outside
<1>2. CASE ReadTicket(c)
  <2>1. mem' \in [Controllers -> Knowledge]
    BY <1>2, LearnType DEF ReadTicket, TypeOK
  <2> QED
    BY <1>2, <2>1, GotoType DEF ReadTicket, Steps, TypeOK, outside
<1>3. CASE CaptureBaseline(c)
  <2>0. at[c] \in HasText
    BY <1>3 DEF CaptureBaseline, HasText
  <2>1. [by |-> c, base |-> workspace[RepositoryOf[c]], text |-> mem[c].text] \in Baselines
    BY <2>0, Fields DEF TypeOK, Baselines, MemoryInv
  <2>2. mem' \in [Controllers -> Knowledge]
    BY <1>3, <2>1, LearnType DEF CaptureBaseline
  <2> QED
    BY <1>3, <2>2, GotoType DEF CaptureBaseline, Steps, TypeOK, outside
<1>4. ASSUME NEW id \in Ids, Reserve(c, id) PROVE TypeOK'
  <2>1. mem' \in [Controllers -> Knowledge]
    BY <1>4, LearnType DEF Reserve
  <2>2. (\A i \in Ids : disk[i] # c) /\ away # c
    BY <1>4 DEF Reserve, UnmadeInv, Unmade, Early
  <2>3. /\ disk' \in [Ids -> Makers \cup {None}]
        /\ \A i, j \in Ids : disk'[i] = disk'[j] /\ disk'[i] # None => i = j
        /\ \A i \in Ids : disk'[i] = away => away = None
    BY <1>4, <2>2 DEF Reserve, TypeOK
  <2>4. late' \subseteq Makers
    BY <1>4, ArrivesType DEF Reserve
  <2> QED
    BY <1>4, <2>1, <2>3, <2>4, GotoType DEF Reserve, Steps, TypeOK, outside
<1>5. CASE Bind(c)
  <2>1. AtPath(c) \in Makers
    BY <1>5, PlacedPath DEF Bind, Placed, Creating
  <2>2. mem' \in [Controllers -> Knowledge]
    BY <1>5, <2>1, LearnType DEF Bind
  <2> QED
    BY <1>5, <2>2, GotoType DEF Bind, Steps, TypeOK, outside
<1>6. CASE ReserveFails(c) \/ RemoveDirectory(c)
  <2>1. /\ disk' \in [Ids -> Makers \cup {None}]
        /\ \A i, j \in Ids : disk'[i] = disk'[j] /\ disk'[i] # None => i = j
        /\ \A i \in Ids : disk'[i] = away => away = None
    BY <1>6 DEF ReserveFails, RemoveDirectory, TypeOK
  <2> QED
    BY <1>6, <2>1, GotoType, FreeType DEF ReserveFails, RemoveDirectory, Steps, TypeOK, outside
<1>7. CASE SaveRecord(c)
  <2>1. AtPath(c) \in Makers /\ mem[c].baseline # None
    BY <1>7, PlacedPath DEF SaveRecord, Placed, Creating, MemoryInv, HasBaseline, HasText
  <2>2. dir' \in [Makers -> Directories]
    BY <1>7, <2>1, FirstRecordType, WriteType DEF SaveRecord
  <2>3. mem' \in [Controllers -> Knowledge]
    BY <1>7, <2>1, FirstRecordType, LearnType DEF SaveRecord
  <2> QED
    BY <1>7, <2>2, <2>3, GotoType DEF SaveRecord, Steps, TypeOK, outside
<1>8. CASE CopyTicket(c)
  <2>1. AtPath(c) \in Makers /\ mem[c].text \in Texts
    BY <1>8, PlacedPath, Fields DEF CopyTicket, Placed, Creating, MemoryInv, HasText
  <2>2. [by |-> c, text |-> mem[c].text] \in Tickets
    BY <2>1 DEF Tickets
  <2>3. dir' \in [Makers -> Directories]
    BY <1>8, <2>1, <2>2, WriteType DEF CopyTicket
  <2>4. mem' \in [Controllers -> Knowledge]
    BY <1>8, <2>2, LearnType DEF CopyTicket
  <2> QED
    BY <1>8, <2>3, <2>4, GotoType DEF CopyTicket, Steps, TypeOK, outside
<1>9. CASE SaveBaseline(c)
  <2>1. AtPath(c) \in Makers
    BY <1>9, PlacedPath DEF SaveBaseline, Placed, Creating
  <2>2. dir' \in [Makers -> Directories]
    BY <1>9, <2>1, Fields, WriteType DEF SaveBaseline
  <2> QED
    BY <1>9, <2>2, GotoType DEF SaveBaseline, Steps, TypeOK, outside
<1>10. CASE RollBack(c) \/ UndoTicket(c)
  <2>1. AtPath(c) \in Makers
    BY <1>10, PlacedPath DEF RollBack, UndoTicket, Unlink, Placed, Creating
  <2>2. dir' \in [Makers -> Directories]
    BY <1>10, <2>1, WriteType DEF RollBack, UndoTicket, Unlink
  <2>3. at' \in [Controllers -> Steps]
    BY <1>10, GotoType DEF RollBack, UndoTicket, Unlink, Steps
  <2> QED
    BY <1>10, <2>2, <2>3 DEF RollBack, UndoTicket, Unlink, TypeOK, outside
<1> QED
  BY <1>1, <1>2, <1>3, <1>4, <1>5, <1>6, <1>7, <1>8, <1>9, <1>10 DEF Create

LEMMA ResumeTypes ==
    ASSUME IInv, NEW r \in Resumers, Resume(r)
    PROVE  TypeOK'
<1>0. TypeOK /\ BoundInv /\ r \in Controllers
  BY Names DEF IInv
<1> USE <1>0
<1>1. ASSUME NEW id \in Ids, Acquire(r, id) PROVE TypeOK'
  <2>1. disk[id] \in Makers /\ Places(r, id, disk[id])
    BY <1>1, Fields DEF Acquire, Places
  <2>2. mem' \in [Controllers -> Knowledge]
    BY <2>1, LearnPlace
  <2> QED
    BY <1>1, <2>2, GotoType DEF Acquire, Steps, TypeOK, outside
<1>2. CASE BeforeRead(r) \/ AfterRead(r) \/ ResumeFails(r) \/ TakeLock(r) \/ JudgeState(r) \/ Judge(r)
  <2>1. at' \in [Controllers -> Steps]
    <3>1. CASE BeforeRead(r)
      BY <3>1, GotoType DEF BeforeRead, Reads, Steps
    <3>2. CASE AfterRead(r)
      BY <3>2, GotoType DEF AfterRead, Steps
    <3>3. CASE ResumeFails(r) \/ TakeLock(r) \/ JudgeState(r) \/ Judge(r)
      BY <3>3, GotoType DEF ResumeFails, TakeLock, JudgeState, Judge, Steps
    <3> QED
      BY <1>2, <3>1, <3>2, <3>3
  <2>2. lock' \in [Repositories -> Controllers \cup {None}]
    <3>1. CASE TakeLock(r)
      BY <3>1 DEF TakeLock, TypeOK
    <3>2. CASE ~TakeLock(r)
      BY <1>2, <3>2, FreeType DEF BeforeRead, AfterRead, ResumeFails, JudgeState, Judge, TypeOK
    <3> QED
      BY <3>1, <3>2
  <2> QED
    BY <1>2, <2>1, <2>2
       DEF BeforeRead, AfterRead, ResumeFails, TakeLock, JudgeState, Judge, TypeOK, outside
<1>3. CASE \/ Read(r, "record", "read-record") \/ Read(r, "baseline", "read-baseline")
           \/ Read(r, "ticket", "read-ticket")
  <2>1. AtPath(r) \in Makers
    BY <1>3, Fields DEF Read, BoundInv, AtPath
  <2>2. mem' \in [Controllers -> Knowledge]
    BY <1>3, <2>1, Fields, LearnType DEF Read
  <2>3. at' \in [Controllers -> Steps]
    BY <1>3, GotoType DEF Read, Steps
  <2> QED
    BY <1>3, <2>2, <2>3 DEF Read, TypeOK, outside
<1> QED
  BY <1>1, <1>2, <1>3 DEF Resume

Ends(p) == EndDrive(p) \/ ValidateMark(p) \/ WriteMark(p) \/ MarkFails(p) \/ Crash(p)

\* What a mark does to the directory that it is written into.
Target(p) == IF AtPath(p) = None THEN p ELSE AtPath(p)
LEMMA MarkFrame ==
    ASSUME IInv, NEW p \in Controllers, WriteMark(p)
    PROVE  /\ mem[p].id \in Ids /\ Target(p) \in Makers
           /\ mem[p].record \in RunRecords
           /\ Write(Target(p), "record", [mem[p].record EXCEPT !.terminal = TRUE])
           /\ [mem[p].record EXCEPT !.terminal = TRUE] \in RunRecords
           /\ [mem[p].record EXCEPT !.terminal = TRUE].by = mem[p].record.by
           /\ AtPath(p) = None =>
                /\ Unmade(p) /\ p \notin Creators /\ (\A i \in Ids : disk[i] # p) /\ away # p
                /\ dir[p] = EmptyDirectory /\ \A q \in Controllers : mem[q].token # p
<1>0. TypeOK /\ PlacedInv /\ KnownInv /\ UnmadeInv /\ p \in Makers /\ at[p] = "write"
  BY Names DEF IInv, WriteMark
<1>1. mem[p].id \in Ids /\ AtPath(p) \in Makers \cup {None}
  BY <1>0, EndingId DEF Ending
<1>2. mem[p].record \in RunRecords
  BY <1>0, Fields DEF KnownInv
<1>3. /\ [mem[p].record EXCEPT !.terminal = TRUE] \in RunRecords
      /\ [mem[p].record EXCEPT !.terminal = TRUE].by = mem[p].record.by
  BY <1>2 DEF RunRecords
<1>4. AtPath(p) = None => p \notin Creators
  BY <1>0 DEF PlacedInv, Placed, Ending, AtPath
<1>5. AtPath(p) = None => Unmade(p)
  BY <1>0, <1>4 DEF Unmade
<1> QED
  BY <1>0, <1>1, <1>2, <1>3, <1>4, <1>5 DEF WriteMark, Target, UnmadeInv

LEMMA EndTypes ==
    ASSUME IInv, NEW p \in Controllers, Ends(p)
    PROVE  TypeOK'
<1>0. TypeOK /\ p \in Makers
  BY Names DEF IInv
<1> USE <1>0
<1>1. CASE EndDrive(p) \/ MarkFails(p) \/ Crash(p)
  BY <1>1, GotoType, FreeType DEF EndDrive, MarkFails, Crash, Steps, TypeOK, outside
<1>2. CASE ValidateMark(p)
  <2>1. AtPath(p) \in Makers \cup {None} /\ mem[p].token = AtPath(p)
    BY <1>2, EndingId DEF ValidateMark, Ending, Owned
  <2>2. mem' \in [Controllers -> Knowledge]
    <3>1. CASE mem[p].token \in Makers
      BY <1>2, <3>1, Fields, LearnType DEF ValidateMark
    <3>2. CASE mem[p].token = None
      <4>1. p \in Resumers
        BY <1>2, <2>1, <3>2, PlacedPath, Names DEF ValidateMark, Placed, Ending, Controllers
      <4>2. mem[p].token \in Makers
        BY <1>2, <4>1 DEF IInv, BoundInv, ValidateMark
      <4> QED
        BY <3>2, <4>2, Names
    <3> QED
      BY <2>1, <3>1, <3>2
  <2> QED
    BY <1>2, <2>2, GotoType DEF ValidateMark, Steps, TypeOK, outside
<1>3. CASE WriteMark(p)
  <2>1. dir' \in [Makers -> Directories]
    BY <1>3, MarkFrame, WriteType
  <2>2. /\ disk' \in [Ids -> Makers \cup {None}]
        /\ \A i, j \in Ids : disk'[i] = disk'[j] /\ disk'[i] # None => i = j
        /\ \A i \in Ids : disk'[i] = away => away = None
    <3>1. disk' = [disk EXCEPT ![mem[p].id] = Target(p)]
      BY <1>3 DEF WriteMark, Target
    <3>2. CASE AtPath(p) = None
      BY <1>3, <3>1, <3>2, MarkFrame DEF Target, TypeOK
    <3>3. CASE AtPath(p) # None
      BY <1>3, <3>1, <3>3, MarkFrame DEF Target, TypeOK, AtPath
    <3> QED
      BY <3>2, <3>3
  <2>3. late' \subseteq Makers
    BY <1>3 DEF WriteMark, TypeOK
  <2> QED
    BY <1>3, <2>1, <2>2, <2>3, GotoType, FreeType DEF WriteMark, Steps, TypeOK, outside
<1> QED
  BY <1>1, <1>2, <1>3 DEF Ends

Outsiders ==
    \/ EditTicket \/ \E r \in Repositories : EditRepository(r)
    \/ \E id \in Ids : Replace(id) \/ PutBack(id)

LEMMA OutsideTypes == IInv /\ Outsiders => TypeOK'
<1> SUFFICES ASSUME IInv, Outsiders PROVE TypeOK'
  OBVIOUS
<1>0. TypeOK
  BY DEF IInv
<1>1. CASE EditTicket
  BY <1>0, <1>1 DEF EditTicket, TypeOK, Texts
<1>2. ASSUME NEW r \in Repositories, EditRepository(r) PROVE TypeOK'
  BY <1>0, <1>2 DEF EditRepository, TypeOK
<1>3. ASSUME NEW id \in Ids, Replace(id) PROVE TypeOK'
  <2>1. /\ disk' \in [Ids -> Makers \cup {None}] /\ away' \in Makers
        /\ \A i, j \in Ids : disk'[i] = disk'[j] /\ disk'[i] # None => i = j
        /\ \A i \in Ids : disk'[i] = away' => away' = None
    BY <1>0, <1>3, Names DEF Replace, TypeOK
  <2>2. late' \subseteq Makers
    BY <1>0, <1>3, ArrivesType, Names DEF Replace
  <2> QED
    BY <1>0, <1>3, <2>1, <2>2 DEF Replace, TypeOK
<1>4. ASSUME NEW id \in Ids, PutBack(id) PROVE TypeOK'
  <2>1. /\ disk' \in [Ids -> Makers \cup {None}] /\ away \in Makers /\ away' = None
        /\ \A i, j \in Ids : disk'[i] = disk'[j] /\ disk'[i] # None => i = j
    BY <1>0, <1>4, Names DEF PutBack, TypeOK
  <2>2. late' \subseteq Makers
    BY <1>0, <1>4, <2>1, ArrivesType DEF PutBack
  <2>3. \A i \in Ids : disk'[i] = away' => away' = None
    BY <2>1
  <2> QED
    BY <1>0, <1>4, <2>1, <2>2, <2>3 DEF PutBack, TypeOK
<1> QED
  BY <1>1, <1>2, <1>3, <1>4 DEF Outsiders

LEMMA Actors ==
    ASSUME [Next]_vars
    PROVE  \/ UNCHANGED vars \/ Outsiders
           \/ \E c \in Creators : Create(c)
           \/ \E r \in Resumers : Resume(r)
           \/ \E p \in Controllers : Ends(p)
BY DEF Next, Outsiders, Ends

LEMMA NextTypes == IInv /\ [Next]_vars => TypeOK'
<1>1. IInv /\ UNCHANGED vars => TypeOK'
  BY DEF IInv, TypeOK, vars, outside
<1> QED
  BY <1>1, Actors, OutsideTypes, CreateTypes, ResumeTypes, EndTypes

-----------------------------------------------------------------------------
(* What one step may do to one controller, path, directory or lock *)

Acts(p) == (p \in Creators /\ Create(p)) \/ (p \in Resumers /\ Resume(p)) \/ Ends(p)

LEMMA Alone ==
    ASSUME TypeOK, NEW p \in Controllers, Acts(p)
    PROVE  /\ \A q \in Controllers : q # p => at'[q] = at[q] /\ mem'[q] = mem[q]
           /\ UNCHANGED outside
<1> USE DEF TypeOK, Goto, Learn
<1>1. CASE p \in Creators /\ Create(p)
  <2>1. CASE Start(p) \/ ReadTicket(p) \/ Preflight(p) \/ CaptureBaseline(p) \/ NothingCreated(p)
             \/ (\E id \in Ids : Reserve(p, id)) \/ Bind(p) \/ ReserveFails(p)
    BY <2>1 DEF Start, ReadTicket, Preflight, CaptureBaseline, NothingCreated, Reserve, Bind,
                ReserveFails
  <2>2. CASE BeforeWrite(p) \/ SaveRecord(p) \/ CopyTicket(p) \/ SyncTicket(p) \/ UndoTicket(p)
             \/ SaveBaseline(p) \/ Made(p)
    BY <2>2 DEF BeforeWrite, Look, SaveRecord, CopyTicket, SyncTicket, UndoTicket, Unlink,
                SaveBaseline, Made
  <2>3. CASE CreationRaises(p) \/ RollBack(p) \/ RemoveDirectory(p) \/ RollBackFails(p)
    BY <2>3 DEF CreationRaises, RollBack, Unlink, RemoveDirectory, RollBackFails
  <2> QED
    BY <1>1, <2>1, <2>2, <2>3 DEF Create
<1>2. CASE p \in Resumers /\ Resume(p)
  BY <1>2 DEF Resume, Acquire, BeforeRead, Read, AfterRead, TakeLock, JudgeState, Judge,
              ResumeFails
<1>3. CASE Ends(p)
  BY <1>3 DEF Ends, EndDrive, ValidateMark, WriteMark, MarkFails, Crash
<1> QED
  BY <1>1, <1>2, <1>3 DEF Acts

LEMMA OutsideFrame ==
    ASSUME Outsiders \/ UNCHANGED vars
    PROVE  UNCHANGED <<dir, lock, at, mem>>
BY DEF Outsiders, EditTicket, EditRepository, Replace, PutBack, vars, outside

LEMMA Mover ==
    ASSUME IInv, [Next]_vars, NEW p \in Controllers
    PROVE  Acts(p) \/ UNCHANGED <<at[p], mem[p]>>
<1>0. TypeOK
  BY DEF IInv
<1>1. CASE UNCHANGED vars \/ Outsiders
  BY <1>1, OutsideFrame
<1>2. CASE \E q \in Controllers : Acts(q)
  BY <1>0, <1>2, Alone
<1> QED
  BY <1>1, <1>2, Actors, Names DEF Acts

LEMMA LateGrows ==
    ASSUME [Next]_vars
    PROVE  late \subseteq late'
<1>1. CASE UNCHANGED vars \/ Outsiders
  BY <1>1 DEF Outsiders, EditTicket, EditRepository, Replace, PutBack, Arrives, vars
<1>2. ASSUME NEW c \in Creators, Create(c) PROVE late \subseteq late'
  BY <1>2 DEF Create, Start, ReadTicket, Preflight, CaptureBaseline, NothingCreated, Reserve,
              Arrives, Bind, ReserveFails, BeforeWrite, Look, SaveRecord, CopyTicket, SyncTicket,
              UndoTicket, Unlink, SaveBaseline, Made, CreationRaises, RollBack, RemoveDirectory,
              RollBackFails
<1>3. ASSUME NEW r \in Resumers, Resume(r) PROVE late \subseteq late'
  BY <1>3 DEF Resume, Acquire, BeforeRead, Read, AfterRead, TakeLock, JudgeState, Judge,
              ResumeFails
<1>4. ASSUME NEW p \in Controllers, Ends(p) PROVE late \subseteq late'
  BY <1>4 DEF Ends, EndDrive, ValidateMark, WriteMark, MarkFails, Crash
<1> QED
  BY <1>1, <1>2, <1>3, <1>4, Actors

Finished(p) == at[p] \in {"failed", "stuck", "failed-later", "done", "crashed"}

\* A lock is given back by its holder only, which is at its end then.
LEMMA LockStep ==
    ASSUME IInv, [Next]_vars, NEW r \in Repositories, NEW p \in Controllers, lock[r] = p,
           ~Finished(p)'
    PROVE  lock'[r] = p
<1>0. TypeOK
  BY DEF IInv
<1>1. CASE UNCHANGED vars \/ Outsiders
  BY <1>1, OutsideFrame
<1>2. ASSUME NEW q \in Controllers, Acts(q) PROVE lock'[r] = p
  <2> USE <1>0, Names DEF TypeOK
  <2>1. CASE Free(q) /\ Finished(q)'
    BY <2>1 DEF Free
  <2>2. CASE UNCHANGED lock
    BY <2>2
  <2>3. CASE \E s \in Repositories : lock[s] = None /\ lock' = [lock EXCEPT ![s] = q]
    BY <2>3
  <2>4. \/ Free(q) /\ Finished(q)'
        \/ UNCHANGED lock
        \/ \E s \in Repositories : lock[s] = None /\ lock' = [lock EXCEPT ![s] = q]
    <3> USE DEF Finished, Goto
    <3>1. CASE q \in Creators /\ Create(q)
      BY <3>1 DEF Create, Start, ReadTicket, Preflight, CaptureBaseline, NothingCreated, Reserve,
                  Bind, ReserveFails, BeforeWrite, Look, SaveRecord, CopyTicket, SyncTicket,
                  UndoTicket, Unlink, SaveBaseline, Made, CreationRaises, RollBack,
                  RemoveDirectory, RollBackFails
    <3>2. CASE q \in Resumers /\ TakeLock(q)
      <4>1. mem[q].record \in RunRecords
        BY <3>2, Fields DEF IInv, KnownInv, TakeLock, AfterRecord
      <4>2. mem[q].record.repository \in Repositories
        BY <4>1 DEF RunRecords
      <4> QED
        BY <3>2, <4>2 DEF TakeLock
    <3>3. CASE q \in Resumers /\ Resume(q) /\ ~TakeLock(q)
      BY <3>3 DEF Resume, Acquire, BeforeRead, Read, AfterRead, JudgeState, Judge, ResumeFails
    <3>4. CASE Ends(q)
      BY <3>4 DEF Ends, EndDrive, ValidateMark, WriteMark, MarkFails, Crash
    <3> QED
      BY <1>2, <3>1, <3>2, <3>3, <3>4 DEF Acts
  <2> QED
    BY <2>1, <2>2, <2>3, <2>4
<1> QED
  BY <1>1, <1>2, Actors, Names DEF Acts

\* What a controller comes to know.
LEMMA CreatorLearns ==
    ASSUME IInv, [Next]_vars, NEW c \in Creators
    PROVE  /\ \/ mem'[c].id = mem[c].id
              \/ \E id \in Ids : Reserve(c, id) /\ mem'[c].id = id
           /\ mem'[c].token = mem[c].token \/ (Bind(c) /\ mem'[c].token = AtPath(c))
           /\ mem'[c].text = mem[c].text \/ (ReadTicket(c) /\ mem'[c].text = ticket)
           /\ \/ mem'[c].record = mem[c].record
              \/ SaveRecord(c) /\ mem'[c].record = FirstRecord(c)
              \/ ValidateMark(c) /\ mem'[c].record = dir[mem[c].token].record
           /\ \/ mem'[c].ticket = mem[c].ticket
              \/ CopyTicket(c) /\ mem'[c].ticket = [by |-> c, text |-> mem[c].text]
           /\ \/ mem'[c].baseline = mem[c].baseline
              \/ CaptureBaseline(c) /\ mem'[c].baseline =
                    [by |-> c, base |-> workspace[RepositoryOf[c]], text |-> mem[c].text]
<1>0. TypeOK /\ c \in Controllers /\ c \notin Resumers
  BY Names DEF IInv
<1>1. CASE UNCHANGED <<at[c], mem[c]>>
  BY <1>1
<1>2. ASSUME NEW id \in Ids, Reserve(c, id)
      PROVE  /\ mem'[c].id = id /\ mem'[c].token = mem[c].token /\ mem'[c].text = mem[c].text
             /\ mem'[c].record = mem[c].record /\ mem'[c].ticket = mem[c].ticket
             /\ mem'[c].baseline = mem[c].baseline
  BY <1>0, <1>2, LearnFields DEF Reserve
<1>3. CASE Bind(c)
  BY <1>0, <1>3, LearnFields DEF Bind
<1>4. CASE ReadTicket(c)
  BY <1>0, <1>4, LearnFields DEF ReadTicket
<1>5. CASE SaveRecord(c)
  BY <1>0, <1>5, LearnFields DEF SaveRecord
<1>6. CASE ValidateMark(c)
  BY <1>0, <1>6, LearnFields DEF ValidateMark
<1>7. CASE CopyTicket(c)
  BY <1>0, <1>7, LearnFields DEF CopyTicket
<1>8. CASE CaptureBaseline(c)
  BY <1>0, <1>8, LearnFields DEF CaptureBaseline
<1>9. CASE UNCHANGED mem
  BY <1>9
<1> QED
  BY <1>0, <1>1, <1>2, <1>3, <1>4, <1>5, <1>6, <1>7, <1>8, <1>9, Mover
     DEF Acts, Create, Start, Preflight, NothingCreated, ReserveFails, BeforeWrite, Look,
         SyncTicket, UndoTicket, Unlink, SaveBaseline, Made, CreationRaises, RollBack,
         RemoveDirectory, RollBackFails, Ends, EndDrive, WriteMark, MarkFails, Crash

LEMMA ResumerLearns ==
    ASSUME IInv, [Next]_vars, NEW r \in Resumers
    PROVE  /\ \/ mem'[r].id = mem[r].id /\ mem'[r].token = mem[r].token
              \/ \E id \in Ids : /\ Acquire(r, id) /\ mem'[r].id = id
                                 /\ mem'[r].token = disk[id] /\ disk[id] \in Makers
           /\ \/ mem'[r].record = mem[r].record
              \/ Read(r, "record", "read-record") /\ mem'[r].record = dir[AtPath(r)].record
              \/ ValidateMark(r) /\ mem'[r].record = dir[mem[r].token].record
           /\ \/ mem'[r].ticket = mem[r].ticket
              \/ Read(r, "ticket", "read-ticket") /\ mem'[r].ticket = dir[AtPath(r)].ticket
           /\ \/ mem'[r].baseline = mem[r].baseline
              \/ /\ Read(r, "baseline", "read-baseline")
                 /\ mem'[r].baseline = dir[AtPath(r)].baseline
<1>0. TypeOK /\ r \in Controllers /\ r \notin Creators
  BY Names DEF IInv
<1>1. CASE UNCHANGED <<at[r], mem[r]>>
  BY <1>1
<1>2. ASSUME NEW id \in Ids, Acquire(r, id)
      PROVE  /\ mem'[r].id = id /\ mem'[r].token = disk[id] /\ disk[id] \in Makers
             /\ mem'[r].record = mem[r].record /\ mem'[r].ticket = mem[r].ticket
             /\ mem'[r].baseline = mem[r].baseline
  <2>1. disk[id] \in Makers /\ Places(r, id, disk[id])
    BY <1>0, <1>2, Fields DEF Acquire, Places
  <2> QED
    BY <1>0, <2>1, LearnPlace
<1>3. CASE Read(r, "record", "read-record")
  <2>1. Learn(r, "record", dir[AtPath(r)].record)
    BY <1>3 DEF Read
  <2> QED
    BY <1>0, <1>3, <2>1, LearnFields
<1>4. CASE Read(r, "ticket", "read-ticket")
  <2>1. Learn(r, "ticket", dir[AtPath(r)].ticket)
    BY <1>4 DEF Read
  <2> QED
    BY <1>0, <1>4, <2>1, LearnFields
<1>5. CASE Read(r, "baseline", "read-baseline")
  <2>1. Learn(r, "baseline", dir[AtPath(r)].baseline)
    BY <1>5 DEF Read
  <2> QED
    BY <1>0, <1>5, <2>1, LearnFields
<1>6. CASE ValidateMark(r)
  BY <1>0, <1>6, LearnFields DEF ValidateMark
<1>7. CASE UNCHANGED mem
  BY <1>7
<1> QED
  BY <1>0, <1>1, <1>2, <1>3, <1>4, <1>5, <1>6, <1>7, Mover
     DEF Acts, Resume, BeforeRead, AfterRead, TakeLock, JudgeState, Judge, ResumeFails, Ends,
         EndDrive, WriteMark, MarkFails, Crash

\* How what is at a path changes.
LEMMA DiskStep ==
    ASSUME IInv, [Next]_vars, NEW id \in Ids, disk'[id] # disk[id]
    PROVE  \/ \E c \in Creators : Reserve(c, id) /\ disk[id] = None /\ disk'[id] = c
           \/ \E c \in Creators : /\ ReserveFails(c) \/ RemoveDirectory(c)
                                  /\ id = mem[c].id /\ disk'[id] = None
                                  /\ disk[id] \in Makers => dir[disk[id]] = EmptyDirectory
           \/ Replace(id) /\ disk'[id] = "other"
           \/ PutBack(id) /\ disk'[id] = away /\ away \in Makers /\ restored'
           \/ \E p \in Controllers : /\ WriteMark(p) /\ AtPath(p) = None /\ p \notin Creators
                                     /\ id = mem[p].id /\ disk[id] = None /\ disk'[id] = p
<1>0. TypeOK
  BY DEF IInv
<1>1. ASSUME NEW c \in Creators, NEW i \in Ids, Reserve(c, i)
      PROVE  Reserve(c, id) /\ disk[id] = None /\ disk'[id] = c
  BY <1>0, <1>1 DEF Reserve, TypeOK
<1>2. ASSUME NEW c \in Creators, ReserveFails(c) \/ RemoveDirectory(c)
      PROVE  id = mem[c].id /\ disk'[id] = None /\ (disk[id] \in Makers => dir[disk[id]] = EmptyDirectory)
  BY <1>0, <1>2 DEF ReserveFails, RemoveDirectory, TypeOK, AtPath
<1>3. ASSUME NEW i \in Ids, Replace(i) PROVE Replace(id) /\ disk'[id] = "other"
  BY <1>0, <1>3 DEF Replace, TypeOK
<1>4. ASSUME NEW i \in Ids, PutBack(i)
      PROVE  PutBack(id) /\ disk'[id] = away /\ away \in Makers /\ restored'
  BY <1>0, <1>4, Names DEF PutBack, TypeOK
<1>5. ASSUME NEW p \in Controllers, WriteMark(p)
      PROVE  /\ AtPath(p) = None /\ p \notin Creators
             /\ id = mem[p].id /\ disk[id] = None /\ disk'[id] = p
  <2>1. disk' = [disk EXCEPT ![mem[p].id] = Target(p)]
    BY <1>5 DEF WriteMark, Target
  <2>2. AtPath(p) = None /\ id = mem[p].id
    BY <1>0, <2>1 DEF Target, TypeOK, AtPath
  <2> QED
    BY <1>0, <1>5, <2>1, <2>2, MarkFrame DEF Target, TypeOK, AtPath
<1>6. \/ \E c \in Creators, i \in Ids : Reserve(c, i)
      \/ \E c \in Creators : ReserveFails(c) \/ RemoveDirectory(c)
      \/ \E i \in Ids : Replace(i) \/ PutBack(i)
      \/ \E p \in Controllers : WriteMark(p)
      \/ UNCHANGED disk
  <2>1. CASE UNCHANGED vars \/ Outsiders
    BY <2>1 DEF Outsiders, EditTicket, EditRepository, vars
  <2>2. ASSUME NEW c \in Creators, Create(c)
        PROVE  \/ \E i \in Ids : Reserve(c, i)
               \/ ReserveFails(c) \/ RemoveDirectory(c) \/ UNCHANGED disk
    BY <2>2 DEF Create, Start, ReadTicket, Preflight, CaptureBaseline, NothingCreated, Bind,
                BeforeWrite, Look, SaveRecord, CopyTicket, SyncTicket, UndoTicket, Unlink,
                SaveBaseline, Made, CreationRaises, RollBack, RollBackFails
  <2>3. ASSUME NEW r \in Resumers, Resume(r) PROVE UNCHANGED disk
    BY <2>3 DEF Resume, Acquire, BeforeRead, Read, AfterRead, TakeLock, JudgeState, Judge,
                ResumeFails
  <2>4. ASSUME NEW p \in Controllers, Ends(p) PROVE WriteMark(p) \/ UNCHANGED disk
    BY <2>4 DEF Ends, EndDrive, ValidateMark, MarkFails, Crash
  <2> QED
    BY <2>1, <2>2, <2>3, <2>4, Actors
<1> QED
  BY <1>1, <1>2, <1>3, <1>4, <1>5, <1>6

\* A directory that comes to the path of somebody who is about to act is known to be late.
LEMMA LateStep ==
    ASSUME IInv, [Next]_vars, NEW id \in Ids, disk'[id] # disk[id], disk'[id] # None,
           NEW p \in Controllers, mem[p].id = id, at[p] \in Acting
    PROVE  disk'[id] \in late'
<1>1. ASSUME NEW m, Arrives(m, id) PROVE m \in late'
  BY <1>1 DEF Arrives
<1>2. ASSUME NEW c \in Creators, Reserve(c, id), disk'[id] = c PROVE disk'[id] \in late'
  BY <1>1, <1>2 DEF Reserve
<1>3. CASE Replace(id) /\ disk'[id] = "other"
  BY <1>1, <1>3 DEF Replace
<1>4. CASE PutBack(id) /\ disk'[id] = away
  BY <1>1, <1>4 DEF PutBack
<1>5. ASSUME NEW q \in Controllers, WriteMark(q), AtPath(q) = None, disk'[id] = q
      PROVE  disk'[id] \in late'
  BY <1>5 DEF WriteMark
<1> QED
  BY <1>2, <1>3, <1>4, <1>5, DiskStep

\* How a directory changes.
Fills(c) == SaveRecord(c) \/ CopyTicket(c) \/ SaveBaseline(c) \/ RollBack(c) \/ UndoTicket(c)
LEMMA DirStep ==
    ASSUME IInv, [Next]_vars, NEW m \in Makers, dir'[m] # dir[m]
    PROVE  \/ \E c \in Creators : Fills(c) /\ AtPath(c) = m
           \/ \E p \in Controllers : WriteMark(p) /\ Target(p) = m
<1>0. TypeOK
  BY DEF IInv
<1>1. CASE UNCHANGED vars \/ Outsiders
  BY <1>1, OutsideFrame
<1>2. ASSUME NEW c \in Creators, Create(c) PROVE Fills(c) /\ AtPath(c) = m
  <2>1. Fills(c)
    BY <1>2 DEF Fills, Create, Start, ReadTicket, Preflight, CaptureBaseline, NothingCreated,
                Reserve, Bind, ReserveFails, BeforeWrite, Look, SyncTicket, Made, CreationRaises,
                RemoveDirectory, RollBackFails
  <2>2. AtPath(c) = m
    BY <1>0, <2>1 DEF Fills, SaveRecord, CopyTicket, SaveBaseline, RollBack, UndoTicket, Unlink,
                      Write, TypeOK
  <2> QED
    BY <2>1, <2>2
<1>3. ASSUME NEW r \in Resumers, Resume(r) PROVE FALSE
  BY <1>3 DEF Resume, Acquire, BeforeRead, Read, AfterRead, TakeLock, JudgeState, Judge,
              ResumeFails
<1>4. ASSUME NEW p \in Controllers, Ends(p) PROVE WriteMark(p) /\ Target(p) = m
  BY <1>0, <1>4 DEF Ends, EndDrive, ValidateMark, WriteMark, MarkFails, Crash, Write, TypeOK,
                    Target
<1> QED
  BY <1>1, <1>2, <1>3, <1>4, Actors

\* Who writes what into it.
LEMMA Writes ==
    ASSUME IInv, [Next]_vars, NEW m \in Makers
    PROVE  /\ \/ dir'[m].record = dir[m].record
              \/ \E c \in Creators : /\ SaveRecord(c) /\ AtPath(c) = m
                                     /\ dir'[m].record = FirstRecord(c)
              \/ \E c \in Creators : RollBack(c) /\ AtPath(c) = m /\ dir'[m].record = None
              \/ \E p \in Controllers :
                    /\ WriteMark(p) /\ Target(p) = m /\ dir'[m].record \in RunRecords
                    /\ dir'[m].record.by = mem[p].record.by
           /\ \/ dir'[m].ticket = dir[m].ticket
              \/ \E c \in Creators : /\ CopyTicket(c) /\ AtPath(c) = m
                                     /\ dir'[m].ticket = [by |-> c, text |-> mem[c].text]
              \/ \E c \in Creators : /\ RollBack(c) \/ UndoTicket(c)
                                     /\ AtPath(c) = m /\ dir'[m].ticket = None
           /\ \/ dir'[m].baseline = dir[m].baseline
              \/ \E c \in Creators : /\ SaveBaseline(c) /\ AtPath(c) = m
                                     /\ dir'[m].baseline = mem[c].baseline
              \/ \E c \in Creators : RollBack(c) /\ AtPath(c) = m /\ dir'[m].baseline = None
<1>0. TypeOK
  BY DEF IInv
<1>1. CASE dir'[m] = dir[m]
  BY <1>1
<1>2. ASSUME NEW c \in Creators, Fills(c), AtPath(c) = m
      PROVE  /\ \/ dir'[m].record = dir[m].record
                \/ SaveRecord(c) /\ dir'[m].record = FirstRecord(c)
                \/ RollBack(c) /\ dir'[m].record = None
             /\ \/ dir'[m].ticket = dir[m].ticket
                \/ CopyTicket(c) /\ dir'[m].ticket = [by |-> c, text |-> mem[c].text]
                \/ (RollBack(c) \/ UndoTicket(c)) /\ dir'[m].ticket = None
             /\ \/ dir'[m].baseline = dir[m].baseline
                \/ SaveBaseline(c) /\ dir'[m].baseline = mem[c].baseline
                \/ RollBack(c) /\ dir'[m].baseline = None
  <2>1. CASE SaveRecord(c)
    BY <1>0, <1>2, <2>1, WriteFields DEF SaveRecord
  <2>2. CASE CopyTicket(c)
    BY <1>0, <1>2, <2>2, WriteFields DEF CopyTicket
  <2>3. CASE SaveBaseline(c)
    BY <1>0, <1>2, <2>3, WriteFields DEF SaveBaseline
  <2>4. CASE UndoTicket(c)
    BY <1>0, <1>2, <2>4, WriteFields DEF UndoTicket, Unlink
  <2>5. CASE RollBack(c)
    <3>1. Write(m, "record", None) \/ Write(m, "ticket", None) \/ Write(m, "baseline", None)
      BY <1>2, <2>5 DEF RollBack, Unlink
    <3> QED
      BY <1>0, <2>5, <3>1, WriteFields
  <2> QED
    BY <1>2, <2>1, <2>2, <2>3, <2>4, <2>5 DEF Fills
<1>3. ASSUME NEW p \in Controllers, WriteMark(p), Target(p) = m
      PROVE  /\ dir'[m].ticket = dir[m].ticket /\ dir'[m].baseline = dir[m].baseline
             /\ dir'[m].record \in RunRecords /\ dir'[m].record.by = mem[p].record.by
  <2> DEFINE mark == [mem[p].record EXCEPT !.terminal = TRUE]
  <2>1. Write(m, "record", mark) /\ mark \in RunRecords /\ mark.by = mem[p].record.by
    BY <1>3, MarkFrame
  <2>2. ASSUME NEW v, Write(m, "record", v)
        PROVE  /\ dir'[m].ticket = dir[m].ticket /\ dir'[m].baseline = dir[m].baseline
               /\ dir'[m].record = v
    BY <1>0, <2>2, WriteFields
  <2> HIDE DEF mark
  <2> QED
    BY <2>1, <2>2
<1> QED
  BY <1>1, <1>2, <1>3, DirStep

\* Where the step before was.
LEMMA CreatorPairs ==
    ASSUME at \in [Controllers -> Steps], NEW c \in Creators, c \in Controllers, c \notin Resumers,
           Create(c) \/ Ends(c)
    PROVE  \/ at[c] = "start" /\ at'[c] \in {"ticket", "refused"}
           \/ at[c] = "ticket" /\ at'[c] = "preflight" /\ ReadTicket(c)
           \/ at[c] = "preflight" /\ at'[c] = "baseline"
           \/ at[c] = "baseline" /\ at'[c] = "reserve" /\ CaptureBaseline(c)
           \/ at[c] \in {"ticket", "preflight", "baseline", "reserve"} /\ at'[c] = "failed"
           \/ at[c] = "reserve" /\ at'[c] = "bind" /\ \E id \in Ids : Reserve(c, id)
           \/ at[c] = "bind" /\ at'[c] = "record" /\ Bind(c)
           \/ at[c] = "bind" /\ at'[c] = "failed" /\ ReserveFails(c)
           \/ at[c] = "record" /\ at'[c] = "write-record" /\ Owned(c) /\ UNCHANGED disk
           \/ at[c] = "copy" /\ at'[c] = "write-ticket" /\ Owned(c) /\ UNCHANGED disk
           \/ at[c] = "save" /\ at'[c] = "write-baseline" /\ Owned(c) /\ UNCHANGED disk
           \/ at[c] = "write-record" /\ at'[c] = "copy" /\ SaveRecord(c)
           \/ at[c] = "write-ticket" /\ at'[c] = "sync" /\ CopyTicket(c)
           \/ at[c] = "sync" /\ at'[c] = "save" /\ SyncTicket(c)
           \/ at[c] = "sync" /\ at'[c] = "raised" /\ UndoTicket(c)
           \/ at[c] = "write-baseline" /\ at'[c] = "made" /\ SaveBaseline(c)
           \/ at[c] = "made" /\ at'[c] = "driving"
           \/ /\ at[c] \in {"record", "write-record", "copy", "write-ticket", "sync", "raised",
                            "save", "write-baseline", "made"}
              /\ \/ at'[c] = "unlink-record" /\ Owned(c) /\ UNCHANGED disk
                 \/ at'[c] = "failed" /\ ~Owned(c)
           \/ at[c] = "unlink-record" /\ at'[c] = "unlink-ticket" /\ RollBack(c)
           \/ at[c] = "unlink-record" /\ at'[c] = "stuck"
           \/ at[c] = "unlink-ticket" /\ at'[c] = "unlink-baseline" /\ RollBack(c)
           \/ at[c] = "unlink-baseline" /\ at'[c] = "rmdir" /\ RollBack(c)
           \/ at[c] = "rmdir" /\ at'[c] = "failed" /\ RemoveDirectory(c)
           \/ at[c] \in {"unlink-ticket", "unlink-baseline", "rmdir"} /\ at'[c] = "failed"
                 /\ RollBackFails(c)
           \/ at[c] = "driving" /\ at'[c] = "mark"
           \/ at[c] = "mark" /\ at'[c] = "write" /\ ValidateMark(c)
           \/ at[c] = "write" /\ at'[c] = "done"
           \/ at[c] \in {"driving", "mark", "write"} /\ at'[c] = "failed-later"
           \/ at[c] \notin {"start", "refused", "failed", "stuck", "crashed", "failed-later", "done"}
                 /\ at'[c] = "crashed"
<1> USE DEF Goto
<1>1. CASE Start(c) \/ ReadTicket(c) \/ Preflight(c) \/ CaptureBaseline(c) \/ NothingCreated(c)
  BY <1>1 DEF Start, ReadTicket, Preflight, CaptureBaseline, NothingCreated
<1>2. CASE (\E id \in Ids : Reserve(c, id)) \/ Bind(c) \/ ReserveFails(c) \/ Made(c)
  BY <1>2 DEF Reserve, Bind, ReserveFails, Made
<1>3. CASE BeforeWrite(c)
  BY <1>3 DEF BeforeWrite, Look
<1>4. CASE SaveRecord(c) \/ CopyTicket(c) \/ SyncTicket(c) \/ UndoTicket(c) \/ SaveBaseline(c)
  BY <1>4 DEF SaveRecord, CopyTicket, SyncTicket, UndoTicket, Unlink, SaveBaseline
<1>5. CASE CreationRaises(c)
  BY <1>5 DEF CreationRaises
<1>6. CASE RollBack(c) \/ RemoveDirectory(c) \/ RollBackFails(c)
  BY <1>6 DEF RollBack, Unlink, RemoveDirectory, RollBackFails
<1>7. CASE Ends(c)
  BY <1>7 DEF Ends, EndDrive, ValidateMark, WriteMark, MarkFails, Crash
<1> QED
  BY <1>1, <1>2, <1>3, <1>4, <1>5, <1>6, <1>7 DEF Create

LEMMA CreatorMoves ==
    ASSUME IInv, [Next]_vars, NEW c \in Creators
    PROVE  /\ Early(c)' => Early(c)
           /\ Creating(c)' => Creating(c) \/ (at[c] = "reserve" /\ at'[c] = "bind")
           /\ Preparing(c)' => Preparing(c) \/ (at[c] = "start" /\ at'[c] # "start")
           /\ Placed(c)' => Placed(c) \/ (at[c] = "reserve" /\ at'[c] = "bind")
           /\ Placed(c)' /\ at'[c] # "bind" => Placed(c) /\ (at[c] # "bind" \/ Bind(c))
           /\ at'[c] = "bind" => at[c] = "bind" \/ \E id \in Ids : Reserve(c, id)
           /\ at[c] = "failed" => at'[c] = "failed"
           /\ at[c] = "stuck" => at'[c] = "stuck"
<1>0. at \in [Controllers -> Steps] /\ c \in Controllers /\ c \notin Resumers
  BY Names DEF IInv, TypeOK
<1>1. CASE UNCHANGED <<at[c], mem[c]>>
  BY <1>0, <1>1 DEF Early, Creating, Preparing, Placed, Ending
<1>2. CASE Create(c) \/ Ends(c)
  <2>1. Early(c)' => Early(c)
    BY <1>0, <1>2, CreatorPairs DEF Early
  <2>2. Creating(c)' => Creating(c) \/ (at[c] = "reserve" /\ at'[c] = "bind")
    BY <1>0, <1>2, CreatorPairs DEF Creating
  <2>3. Preparing(c)' => Preparing(c) \/ (at[c] = "start" /\ at'[c] # "start")
    BY <1>0, <1>2, CreatorPairs DEF Preparing
  <2>4. Placed(c)' => Placed(c) \/ (at[c] = "reserve" /\ at'[c] = "bind")
    BY <1>0, <1>2, CreatorPairs DEF Placed, Creating, Ending
  <2>5. Placed(c)' /\ at'[c] # "bind" => Placed(c) /\ (at[c] # "bind" \/ Bind(c))
    BY <1>0, <1>2, CreatorPairs DEF Placed, Creating, Ending
  <2>6. /\ at'[c] = "bind" => at[c] = "bind" \/ \E id \in Ids : Reserve(c, id)
        /\ at[c] = "failed" => at'[c] = "failed"
        /\ at[c] = "stuck" => at'[c] = "stuck"
    BY <1>0, <1>2, CreatorPairs
  <2> QED
    BY <2>1, <2>2, <2>3, <2>4, <2>5, <2>6
<1> QED
  BY <1>0, <1>1, <1>2, Mover DEF Acts

LEMMA ResumerPairs ==
    ASSUME at \in [Controllers -> Steps], NEW r \in Resumers, r \in Controllers, r \notin Creators,
           Resume(r) \/ Ends(r)
    PROVE  \/ at[r] = "start" /\ at'[r] = "record" /\ \E id \in Ids : Acquire(r, id)
           \/ at[r] = "record" /\ at'[r] = "read-record"
           \/ at[r] = "baseline" /\ at'[r] = "read-baseline"
           \/ at[r] = "ticket" /\ at'[r] = "read-ticket"
           \/ at[r] = "read-record" /\ at'[r] = "after-record" /\ Read(r, "record", "read-record")
           \/ at[r] = "read-baseline" /\ at'[r] = "after-baseline"
                 /\ Read(r, "baseline", "read-baseline")
           \/ at[r] = "read-ticket" /\ at'[r] = "after-ticket" /\ Read(r, "ticket", "read-ticket")
           \/ at[r] = "after-record" /\ at'[r] = "lock" /\ Owned(r)
           \/ at[r] = "after-baseline" /\ at'[r] = "ticket" /\ Owned(r)
           \/ at[r] = "after-ticket" /\ at'[r] = "judge" /\ Owned(r)
           \/ at[r] = "lock" /\ at'[r] \in {"state", "refused"} /\ TakeLock(r)
           \/ at[r] = "state" /\ at'[r] \in {"baseline", "done"}
           \/ at[r] = "judge" /\ at'[r] \in {"driving", "mark"} /\ Judge(r)
           \/ at[r] \in {"read-baseline", "read-ticket"} /\ at'[r] = "mark" /\ Judge(r)
           \/ at[r] = "driving" /\ at'[r] = "mark"
           \/ at[r] = "mark" /\ at'[r] = "write" /\ ValidateMark(r)
           \/ at[r] = "write" /\ at'[r] = "done"
           \/ at[r] \notin {"start", "done", "crashed"} /\ at'[r] \in {"crashed", "failed-later"}
<1> USE DEF Goto
<1>1. CASE (\E id \in Ids : Acquire(r, id)) \/ ResumeFails(r)
  BY <1>1 DEF Acquire, Reads, ResumeFails
<1>2. CASE BeforeRead(r)
  <2>1. CASE at[r] = "record"
    BY <1>2, <2>1 DEF BeforeRead
  <2>2. CASE at[r] = "baseline"
    BY <1>2, <2>2 DEF BeforeRead
  <2>3. CASE at[r] = "ticket"
    BY <1>2, <2>3 DEF BeforeRead
  <2> QED
    BY <1>2, <2>1, <2>2, <2>3 DEF BeforeRead, Reads
<1>3. CASE \/ Read(r, "record", "read-record") \/ Read(r, "baseline", "read-baseline")
           \/ Read(r, "ticket", "read-ticket")
  BY <1>3 DEF Read
<1>4. CASE AfterRead(r)
  BY <1>4 DEF AfterRead
<1>5. CASE TakeLock(r) \/ JudgeState(r) \/ Judge(r)
  BY <1>5 DEF TakeLock, JudgeState, Judge
<1>6. CASE Ends(r)
  BY <1>6 DEF Ends, EndDrive, ValidateMark, WriteMark, MarkFails, Crash
<1> QED
  BY <1>1, <1>2, <1>3, <1>4, <1>5, <1>6 DEF Resume

LEMMA ResumerMoves ==
    ASSUME IInv, [Next]_vars, NEW r \in Resumers
    PROVE  UNCHANGED <<at[r], mem[r]>> \/ Resume(r) \/ Ends(r)
BY Mover, Names DEF Acts

LEMMA UnmadeMoves ==
    ASSUME IInv, [Next]_vars, NEW p \in Controllers, Unmade(p)'
    PROVE  Unmade(p)
<1>1. CASE p \in Creators
  BY <1>1, CreatorMoves DEF Unmade
<1>2. CASE p \in Resumers
  <2>1. at \in [Controllers -> Steps] /\ p \notin Creators
    BY <1>2, Names DEF IInv, TypeOK
  <2> QED
    BY <1>2, <2>1, ResumerMoves, ResumerPairs DEF Unmade
<1> QED
  BY <1>1, <1>2 DEF Controllers

-----------------------------------------------------------------------------
(* Every part of the invariant is kept *)

LEMMA FillsPlace ==
    ASSUME NEW c \in Creators, Fills(c)
    PROVE  Creating(c) /\ at[c] \in Acting \ {"bind", "rmdir"}
BY DEF Fills, SaveRecord, CopyTicket, SaveBaseline, RollBack, UndoTicket, Unlink, Creating, Acting

LEMMA UnmadeStep == IInv /\ [Next]_vars => UnmadeInv'
<1> SUFFICES ASSUME IInv, [Next]_vars, NEW p \in Controllers, Unmade(p)'
             PROVE  /\ dir'[p] = EmptyDirectory /\ away' # p
                    /\ \A id \in Ids : disk'[id] # p
                    /\ \A q \in Controllers : mem'[q].token # p
  BY DEF UnmadeInv
<1>0. TypeOK /\ Unmade(p) /\ p \in Makers /\ p # None /\ p # "other"
  BY UnmadeMoves, Names DEF IInv
<1>1. /\ dir[p] = EmptyDirectory /\ away # p /\ \A id \in Ids : disk[id] # p
      /\ \A q \in Controllers : mem[q].token # p
  BY <1>0 DEF IInv, UnmadeInv
<1>2. ~WriteMark(p) \/ p \in Creators
  <2>1. WriteMark(p) => at'[p] = "done"
    BY <1>0 DEF WriteMark, Goto, TypeOK
  <2> QED
    BY <2>1 DEF Unmade
<1>3. dir'[p] = dir[p]
  <2>1. ASSUME NEW c \in Creators, Fills(c), AtPath(c) = p PROVE FALSE
    <3>1. mem[c].id \in Ids
      BY <2>1, FillsPlace, PlacedPath DEF Placed
    <3> QED
      BY <1>1, <2>1, <3>1 DEF AtPath
  <2>2. ASSUME NEW q \in Controllers, WriteMark(q), Target(q) = p PROVE FALSE
    <3>1. mem[q].id \in Ids /\ (AtPath(q) = None => q \notin Creators)
      BY <2>2, MarkFrame
    <3> QED
      BY <1>1, <1>2, <2>2, <3>1 DEF AtPath, Target
  <2> QED
    BY <1>0, <2>1, <2>2, DirStep
<1>4. ASSUME NEW id \in Ids PROVE disk'[id] # p
  <2>1. ~Reserve(p, id) \/ p \notin Creators
    <3>1. Reserve(p, id) => at'[p] = "bind"
      BY <1>0 DEF Reserve, Goto, TypeOK
    <3> QED
      BY <3>1 DEF Unmade, Early
  <2> QED
    BY <1>0, <1>1, <1>2, <2>1, DiskStep
<1>5. away' # p
  <2>1. CASE UNCHANGED vars \/ Outsiders
    BY <1>0, <1>1, <2>1 DEF Outsiders, EditTicket, EditRepository, Replace, PutBack, vars, outside
  <2>2. CASE \E q \in Controllers : Acts(q)
    BY <1>0, <1>1, <2>2, Alone DEF outside
  <2> QED
    BY <2>1, <2>2, Actors, Names DEF Acts
<1>6. ASSUME NEW q \in Controllers PROVE mem'[q].token # p
  <2>1. CASE q \in Creators
    <3>1. Bind(q) => AtPath(q) # p
      BY <1>1, <2>1, PlacedPath DEF Bind, Placed, Creating, AtPath
    <3> QED
      BY <1>1, <2>1, <3>1, CreatorLearns
  <2>2. CASE q \in Resumers
    BY <1>1, <2>2, ResumerLearns
  <2> QED
    BY <2>1, <2>2 DEF Controllers
<1> QED
  BY <1>1, <1>3, <1>4, <1>5, <1>6

\* The identifier of a directory is settled.
LEMMA Settled ==
    ASSUME IInv, [Next]_vars, NEW c \in Creators, at[c] # "reserve"
    PROVE  mem'[c].id = mem[c].id
BY CreatorLearns DEF Reserve

LEMMA PlacedStep == IInv /\ [Next]_vars => PlacedInv'
<1> SUFFICES ASSUME IInv, [Next]_vars, NEW c \in Creators, Placed(c)'
             PROVE  /\ mem'[c].id \in Ids /\ disk'[mem'[c].id] # None
                    /\ \A d \in Creators : Placed(d)' /\ mem'[d].id = mem'[c].id => d = c
  BY DEF PlacedInv
<1>0. TypeOK /\ PlacedInv /\ c \in Controllers /\ c # None
  BY Names DEF IInv
<1>1. ASSUME NEW d \in Creators, Placed(d)'
      PROVE  \/ Placed(d) /\ mem'[d].id = mem[d].id
             \/ \E id \in Ids : Reserve(d, id) /\ mem'[d].id = id /\ disk[id] = None
  <2>1. CASE Placed(d)
    BY <2>1, Settled DEF Placed, Creating, Ending
  <2>2. CASE ~Placed(d)
    <3>1. at[d] = "reserve" /\ at'[d] = "bind"
      BY <1>1, <2>2, CreatorMoves
    <3>2. PICK id \in Ids : Reserve(d, id)
      BY <3>1, CreatorMoves
    <3>3. mem'[d].id = id
      BY <1>0, <3>2, LearnFields, Names DEF Reserve
    <3> QED
      BY <3>2, <3>3 DEF Reserve
  <2> QED
    BY <2>1, <2>2
<1>2. ASSUME NEW d \in Creators, Placed(d)', Placed(d)
      PROVE  mem[d].id \in Ids /\ disk[mem[d].id] # None /\ disk'[mem[d].id] # None
  <2>1. mem[d].id \in Ids /\ disk[mem[d].id] # None
    BY <1>0, <1>2 DEF PlacedInv
  <2>2. ASSUME NEW e \in Creators, ReserveFails(e) \/ RemoveDirectory(e), mem[e].id = mem[d].id
        PROVE  FALSE
    <3>1. Placed(e)
      BY <2>2 DEF ReserveFails, RemoveDirectory, Placed, Creating
    <3>2. e = d
      BY <1>0, <1>2, <2>2, <3>1 DEF PlacedInv
    <3>3. at'[d] = "failed"
      BY <1>0, <2>2, <3>2, Names DEF ReserveFails, RemoveDirectory, Goto, TypeOK
    <3> QED
      BY <1>2, <3>3 DEF Placed, Creating, Ending
  <2> QED
    BY <2>1, <2>2, DiskStep, Names
<1>3. ASSUME NEW d \in Creators, NEW id \in Ids, Reserve(d, id), disk[id] = None
      PROVE  /\ disk'[id] = d
             /\ \A e \in Creators : e # d => at'[e] = at[e] /\ mem'[e] = mem[e]
  <2>1. Acts(d)
    BY <1>3 DEF Acts, Create
  <2> QED
    BY <1>0, <1>3, <2>1, Alone, Names DEF Reserve, TypeOK
<1>4. mem'[c].id \in Ids /\ disk'[mem'[c].id] # None
  BY <1>0, <1>1, <1>2, <1>3
<1>5. ASSUME NEW d \in Creators, Placed(d)', mem'[d].id = mem'[c].id PROVE d = c
  <2>1. CASE Placed(c) /\ Placed(d) /\ mem'[c].id = mem[c].id /\ mem'[d].id = mem[d].id
    BY <1>0, <1>5, <2>1 DEF PlacedInv
  <2>2. ASSUME NEW e \in Creators, NEW f \in Creators, Placed(e)', Placed(f)', e # f,
               mem'[e].id = mem'[f].id,
               \E id \in Ids : Reserve(e, id) /\ mem'[e].id = id /\ disk[id] = None
        PROVE  FALSE
    <3>1. PICK id \in Ids : Reserve(e, id) /\ mem'[e].id = id /\ disk[id] = None
      BY <2>2
    <3>2. mem'[f].id = mem[f].id /\ at'[f] = at[f]
      BY <1>3, <2>2, <3>1
    <3>3. Placed(f)
      BY <2>2, <3>2 DEF Placed, Creating, Ending
    <3> QED
      BY <1>2, <2>2, <3>1, <3>2, <3>3
  <2> QED
    BY <1>1, <1>5, <2>1, <2>2
<1> QED
  BY <1>4, <1>5

LEMMA BoundStep == IInv /\ [Next]_vars => BoundInv'
<1> SUFFICES ASSUME IInv, [Next]_vars, NEW r \in Resumers, at'[r] # "start"
             PROVE  mem'[r].id \in Ids /\ mem'[r].token \in Makers
  BY DEF BoundInv
<1>1. CASE at[r] # "start"
  BY <1>1, ResumerLearns DEF IInv, BoundInv
<1>2. CASE at[r] = "start"
  <2>1. at \in [Controllers -> Steps] /\ r \in Controllers /\ r \notin Creators
    BY Names DEF IInv, TypeOK
  <2>2. PICK id \in Ids : Acquire(r, id)
    BY <1>2, <2>1, ResumerMoves, ResumerPairs
  <2>3. disk[id] \in Makers /\ Places(r, id, disk[id])
    BY <2>2, Fields DEF Acquire, Places, IInv
  <2> QED
    BY <2>1, <2>3, LearnPlace DEF IInv
<1> QED
  BY <1>1, <1>2

LEMMA MemoryStep == IInv /\ [Next]_vars => MemoryInv'
<1> SUFFICES ASSUME IInv, [Next]_vars, NEW c \in Creators
             PROVE  /\ at'[c] \in HasText => mem'[c].text # None
                    /\ at'[c] \in HasBaseline =>
                          mem'[c].baseline # None /\ mem'[c].baseline.text = mem'[c].text
                    /\ at'[c] \in HasRecord => mem'[c].record = FirstRecord(c)'
                    /\ at'[c] \in HasTicket =>
                          mem'[c].ticket = [by |-> c, text |-> mem'[c].text]
                    /\ mem'[c].baseline # None =>
                          mem'[c].baseline.by = c /\ mem'[c].baseline.base # "dirty"
  BY DEF MemoryInv
<1>0. /\ TypeOK /\ c \in Controllers /\ c \notin Resumers /\ at \in [Controllers -> Steps]
      /\ at[c] \in HasText => mem[c].text # None
      /\ at[c] \in HasBaseline => mem[c].baseline # None /\ mem[c].baseline.text = mem[c].text
      /\ at[c] \in HasRecord => mem[c].record = FirstRecord(c)
      /\ at[c] \in HasTicket => mem[c].ticket = [by |-> c, text |-> mem[c].text]
      /\ mem[c].baseline # None => mem[c].baseline.by = c /\ mem[c].baseline.base # "dirty"
  BY Names DEF IInv, TypeOK, MemoryInv
<1>1. UNCHANGED <<at[c], mem[c]>> \/ Create(c) \/ Ends(c)
  BY <1>0, Mover DEF Acts
<1>2. /\ mem'[c].text # mem[c].text => at[c] = "ticket" /\ mem'[c].text = ticket
      /\ mem'[c].baseline # mem[c].baseline =>
            /\ at[c] = "baseline" /\ workspace[RepositoryOf[c]] # "dirty"
            /\ mem'[c].baseline =
                  [by |-> c, base |-> workspace[RepositoryOf[c]], text |-> mem[c].text]
      /\ mem'[c].record # mem[c].record => at[c] \in {"write-record", "mark"}
      /\ mem'[c].ticket # mem[c].ticket => at[c] = "write-ticket"
  BY CreatorLearns DEF ReadTicket, CaptureBaseline, SaveRecord, ValidateMark, CopyTicket
<1>3. ticket # None
  BY <1>0, NoneIsNothing DEF TypeOK
<1>4. at'[c] \in HasText => mem'[c].text # None
  <2>1. at'[c] \in HasText => at[c] \in HasText \/ (at[c] = "ticket" /\ ReadTicket(c))
    BY <1>0, <1>1, CreatorPairs DEF HasText
  <2>2. ReadTicket(c) => mem'[c].text = ticket
    BY <1>0, LearnFields DEF ReadTicket
  <2> QED
    BY <1>0, <1>2, <1>3, <2>1, <2>2
<1>5. mem'[c].baseline # None => mem'[c].baseline.by = c /\ mem'[c].baseline.base # "dirty"
  BY <1>0, <1>2
<1>6. at'[c] \in HasBaseline =>
        mem'[c].baseline # None /\ mem'[c].baseline.text = mem'[c].text
  <2>1. at'[c] \in HasBaseline => at[c] \in HasBaseline \/ (at[c] = "baseline" /\ CaptureBaseline(c))
    BY <1>0, <1>1, CreatorPairs DEF HasBaseline, HasText
  <2>2. at[c] \in HasBaseline => mem'[c].text = mem[c].text /\ mem'[c].baseline = mem[c].baseline
    BY <1>2 DEF HasBaseline, HasText
  <2>3. ASSUME at[c] = "baseline", CaptureBaseline(c)
        PROVE  mem'[c].baseline # None /\ mem'[c].baseline.text = mem'[c].text
    <3>1. /\ mem'[c].baseline =
                [by |-> c, base |-> workspace[RepositoryOf[c]], text |-> mem[c].text]
          /\ mem'[c].text = mem[c].text
      BY <1>0, <2>3, LearnFields DEF CaptureBaseline
    <3>2. mem[c].text \in Texts
      BY <1>0, <2>3, Fields DEF HasText
    <3>3. mem'[c].baseline \in Baselines
      BY <1>0, <3>1, <3>2, Names DEF TypeOK, Baselines
    <3> QED
      BY <3>1, <3>3, NoneIsNothing
  <2> QED
    BY <1>0, <2>1, <2>2, <2>3
<1>7. at'[c] \in HasRecord => mem'[c].record = FirstRecord(c)'
  <2>1. at'[c] \in HasRecord => at[c] \in HasRecord \/ (at[c] = "write-record" /\ SaveRecord(c))
    BY <1>0, <1>1, CreatorPairs DEF HasRecord, HasBaseline, HasText
  <2>2. at[c] \in HasRecord => mem'[c].record = mem[c].record /\ mem'[c].baseline = mem[c].baseline
    BY <1>2 DEF HasRecord, HasBaseline, HasText
  <2>3. at[c] = "write-record" /\ SaveRecord(c) =>
           mem'[c].record = FirstRecord(c) /\ mem'[c].baseline = mem[c].baseline
    BY <1>0, LearnFields DEF SaveRecord
  <2> QED
    BY <1>0, <2>1, <2>2, <2>3 DEF FirstRecord
<1>8. at'[c] \in HasTicket => mem'[c].ticket = [by |-> c, text |-> mem'[c].text]
  <2>1. at'[c] \in HasTicket => at[c] \in HasTicket \/ (at[c] = "write-ticket" /\ CopyTicket(c))
    BY <1>0, <1>1, CreatorPairs DEF HasTicket, HasRecord, HasBaseline, HasText
  <2>2. at[c] \in HasTicket => mem'[c].ticket = mem[c].ticket /\ mem'[c].text = mem[c].text
    BY <1>2 DEF HasTicket, HasRecord, HasBaseline, HasText
  <2>3. at[c] = "write-ticket" /\ CopyTicket(c) =>
           mem'[c].ticket = [by |-> c, text |-> mem[c].text] /\ mem'[c].text = mem[c].text
    BY <1>0, LearnFields DEF CopyTicket
  <2> QED
    BY <1>0, <2>1, <2>2, <2>3
<1> QED
  BY <1>4, <1>5, <1>6, <1>7, <1>8

LEMMA CleanStep ==
    ASSUME IInv, [Next]_vars, NEW m \in Makers, dir'[m].baseline # None
    PROVE  dir'[m].baseline.base # "dirty"
<1>1. ASSUME NEW c \in Creators, SaveBaseline(c) PROVE mem[c].baseline.base # "dirty"
  BY <1>1 DEF SaveBaseline, IInv, MemoryInv, HasBaseline, HasText
<1> QED
  BY <1>1, Writes DEF IInv, KnownInv

Fits(m) ==
    /\ m.record # None /\ m.ticket # None /\ m.baseline # None
    /\ m.ticket.text = m.baseline.text /\ m.record.base = m.baseline.base
    /\ m.baseline.base # "dirty"

LEMMA CreatorFits == IInv /\ [Next]_vars => \A c \in Creators : at'[c] = "driving" => Fits(mem'[c])
<1> SUFFICES ASSUME IInv, [Next]_vars, NEW c \in Creators, at'[c] = "driving" PROVE Fits(mem'[c])
  OBVIOUS
<1>1. MemoryInv' /\ TypeOK'
  BY MemoryStep, NextTypes
<1>2. /\ mem'[c].text # None
      /\ mem'[c].baseline # None /\ mem'[c].baseline.text = mem'[c].text
      /\ mem'[c].baseline.base # "dirty"
      /\ mem'[c].record = FirstRecord(c)'
      /\ mem'[c].ticket = [by |-> c, text |-> mem'[c].text]
  BY <1>1 DEF MemoryInv, HasTicket, HasRecord, HasBaseline, HasText
<1>3. mem'[c] \in Knowledge /\ c \in Makers /\ RepositoryOf[c] \in Repositories
  BY <1>1, Names DEF TypeOK
<1>4. mem'[c].text \in Texts /\ mem'[c].baseline \in Baselines
  BY <1>2, <1>3 DEF Knowledge
<1>5. mem'[c].record \in RunRecords /\ mem'[c].record.base = mem'[c].baseline.base
  BY <1>2, <1>3, <1>4 DEF FirstRecord, RunRecords, Baselines
<1>6. mem'[c].ticket \in Tickets /\ mem'[c].ticket.text = mem'[c].text
  BY <1>2, <1>3, <1>4 DEF Tickets
<1> QED
  BY <1>2, <1>5, <1>6, NoneIsNothing DEF Fits

LEMMA KnownStep == IInv /\ [Next]_vars => KnownInv'
<1> SUFFICES ASSUME IInv, [Next]_vars PROVE KnownInv'
  OBVIOUS
<1>0. TypeOK /\ KnownInv /\ at \in [Controllers -> Steps]
  BY DEF IInv, TypeOK
<1>1. ASSUME NEW r \in Resumers
      PROVE  /\ at'[r] \in AfterRecord => mem'[r].record # None
             /\ at'[r] \in AfterBaseline =>
                   mem'[r].baseline # None /\ mem'[r].baseline.base # "dirty"
             /\ at'[r] \in AfterTicket => mem'[r].ticket # None
             /\ at'[r] = "driving" => Fits(mem'[r])
  <2>0. r \in Controllers /\ r \notin Creators
    BY Names
  <2>1. /\ at[r] \in AfterRecord => mem[r].record # None
        /\ at[r] \in AfterBaseline => mem[r].baseline # None /\ mem[r].baseline.base # "dirty"
        /\ at[r] \in AfterTicket => mem[r].ticket # None
        /\ at[r] = "driving" => Fits(mem[r])
    BY <1>0, <2>0 DEF KnownInv, DrivenRunIsWhole, Fits
  <2>2. UNCHANGED <<at[r], mem[r]>> \/ Resume(r) \/ Ends(r)
    BY ResumerMoves
  <2>3. /\ mem'[r].record # mem[r].record => at[r] \in {"read-record", "mark"}
        /\ mem'[r].ticket # mem[r].ticket => at[r] = "read-ticket"
        /\ mem'[r].baseline # mem[r].baseline => at[r] = "read-baseline"
    BY ResumerLearns DEF Read, ValidateMark
  <2>4. Read(r, "record", "read-record") => mem'[r].record = dir[AtPath(r)].record
                                             /\ dir[AtPath(r)].record # None
    <3>1. Read(r, "record", "read-record") =>
            Learn(r, "record", dir[AtPath(r)].record) /\ dir[AtPath(r)].record # None
      BY DEF Read
    <3> QED
      BY <1>0, <2>0, <3>1, LearnFields
  <2>5. Read(r, "ticket", "read-ticket") => mem'[r].ticket = dir[AtPath(r)].ticket
                                             /\ dir[AtPath(r)].ticket # None
    <3>1. Read(r, "ticket", "read-ticket") =>
            Learn(r, "ticket", dir[AtPath(r)].ticket) /\ dir[AtPath(r)].ticket # None
      BY DEF Read
    <3> QED
      BY <1>0, <2>0, <3>1, LearnFields
  <2>6. Read(r, "baseline", "read-baseline") =>
            mem'[r].baseline # None /\ mem'[r].baseline.base # "dirty"
    <3>1. Read(r, "baseline", "read-baseline") =>
            /\ Learn(r, "baseline", dir[AtPath(r)].baseline) /\ dir[AtPath(r)].baseline # None
            /\ at[r] = "read-baseline" /\ AtPath(r) # None
      BY DEF Read
    <3>2. Read(r, "baseline", "read-baseline") => AtPath(r) \in Makers
      BY <1>0, <2>0, <3>1, Fields DEF IInv, BoundInv, AtPath
    <3> QED
      BY <1>0, <2>0, <3>1, <3>2, LearnFields DEF KnownInv
  <2>7. at'[r] \in AfterRecord => mem'[r].record # None
    <3>1. at'[r] \in AfterRecord => at[r] \in AfterRecord \/ Read(r, "record", "read-record")
      BY <1>0, <2>0, <2>2, ResumerPairs DEF AfterRecord
    <3> QED
      BY <2>1, <2>3, <2>4, <3>1 DEF AfterRecord
  <2>8. at'[r] \in AfterBaseline => mem'[r].baseline # None /\ mem'[r].baseline.base # "dirty"
    <3>1. at'[r] \in AfterBaseline => at[r] \in AfterBaseline \/ Read(r, "baseline", "read-baseline")
      BY <1>0, <2>0, <2>2, ResumerPairs DEF AfterBaseline
    <3> QED
      BY <2>1, <2>3, <2>6, <3>1 DEF AfterBaseline
  <2>9. at'[r] \in AfterTicket => mem'[r].ticket # None
    <3>1. at'[r] \in AfterTicket => at[r] \in AfterTicket \/ Read(r, "ticket", "read-ticket")
      BY <1>0, <2>0, <2>2, ResumerPairs DEF AfterTicket
    <3> QED
      BY <2>1, <2>3, <2>5, <3>1 DEF AfterTicket
  <2>10. ASSUME at'[r] = "driving" PROVE Fits(mem'[r])
    <3>1. at[r] = "driving" \/ (at[r] = "judge" /\ Judge(r))
      BY <1>0, <2>0, <2>2, <2>10, ResumerPairs
    <3>2. CASE at[r] = "driving"
      BY <2>1, <2>3, <3>2 DEF Fits
    <3>3. CASE at[r] = "judge" /\ Judge(r)
      <4>1. MayBeDriven(mem[r], workspace[mem[r].record.repository]) /\ mem' = mem
        BY <1>0, <2>0, <2>10, <3>3 DEF Judge, Goto
      <4> QED
        BY <2>1, <3>3, <4>1 DEF MayBeDriven, Fits, AfterRecord, AfterBaseline, AfterTicket
    <3> QED
      BY <3>1, <3>2, <3>3
  <2> QED
    BY <2>7, <2>8, <2>9, <2>10
<1>2. ASSUME NEW p \in Controllers, at'[p] = "write" PROVE mem'[p].record # None
  <2>1. CASE ValidateMark(p)
    BY <1>0, <2>1, LearnFields DEF ValidateMark
  <2>2. CASE at[p] = "write" /\ mem'[p].record = mem[p].record
    BY <1>0, <1>2, <2>2 DEF KnownInv
  <2>3. CASE p \in Creators
    <3>1. UNCHANGED <<at[p], mem[p]>> \/ Create(p) \/ Ends(p)
      BY <2>3, Mover, Names DEF Acts
    <3>2. at[p] = "write" \/ ValidateMark(p)
      BY <1>0, <1>2, <2>3, <3>1, CreatorPairs, Names
    <3> QED
      BY <1>0, <1>2, <2>1, <2>2, <2>3, <3>2, CreatorLearns DEF SaveRecord, ValidateMark
  <2>4. CASE p \in Resumers
    <3>1. at[p] = "write" \/ ValidateMark(p)
      BY <1>0, <1>2, <2>4, ResumerMoves, ResumerPairs, Names
    <3> QED
      BY <1>0, <1>2, <2>1, <2>2, <2>4, <3>1, ResumerLearns DEF Read, ValidateMark
  <2> QED
    BY <2>3, <2>4 DEF Controllers
<1>3. DrivenRunIsWhole'
  BY <1>1, CreatorFits DEF DrivenRunIsWhole, Fits, Controllers
<1> QED
  BY <1>1, <1>2, <1>3, CleanStep DEF KnownInv

LEMMA LookStep == IInv /\ [Next]_vars => LookInv'
<1> SUFFICES ASSUME IInv, [Next]_vars PROVE LookInv'
  OBVIOUS
<1>0. TypeOK /\ LookInv /\ at \in [Controllers -> Steps] /\ late \subseteq late'
  BY LateGrows DEF IInv, TypeOK
<1>1. ASSUME NEW c \in Creators, at'[c] = "bind" PROVE AtPath(c)' \in {c} \cup late'
  <2>1. ASSUME NEW id \in Ids, Reserve(c, id) PROVE AtPath(c)' \in {c} \cup late'
    <3>1. mem'[c].id = id /\ disk'[id] = c
      BY <1>0, <2>1, LearnFields, Names DEF Reserve, TypeOK
    <3> QED
      BY <3>1 DEF AtPath
  <2>2. CASE at[c] = "bind"
    <3>1. mem'[c].id = mem[c].id /\ mem[c].id \in Ids
      BY <2>2, Settled, PlacedPath DEF Placed, Creating
    <3>2. disk[mem[c].id] \in {c} \cup late
      BY <1>0, <2>2 DEF LookInv, AtPath
    <3>3. disk'[mem[c].id] # None
      BY <1>1, <3>1, PlacedStep DEF PlacedInv, Placed, Creating
    <3>4. disk'[mem[c].id] # disk[mem[c].id] => disk'[mem[c].id] \in late'
      BY <2>2, <3>1, <3>3, LateStep, Names DEF Acting
    <3> QED
      BY <1>0, <3>1, <3>2, <3>4 DEF AtPath
  <2> QED
    BY <1>1, <2>1, <2>2, CreatorMoves
<1>2. ASSUME NEW c \in Creators, Placed(c)', at'[c] # "bind" PROVE mem'[c].token \in {c} \cup late'
  <2>1. Placed(c) /\ (at[c] # "bind" \/ Bind(c))
    BY <1>2, CreatorMoves
  <2>2. CASE Bind(c)
    <3>1. mem'[c].token = AtPath(c) /\ at[c] = "bind"
      BY <1>0, <2>2, LearnFields, Names DEF Bind
    <3> QED
      BY <1>0, <3>1 DEF LookInv
  <2>3. CASE at[c] # "bind"
    <3>1. mem'[c].token = mem[c].token
      BY <2>3, CreatorLearns DEF Bind
    <3> QED
      BY <1>0, <2>1, <2>3, <3>1 DEF LookInv
  <2> QED
    BY <2>1, <2>2, <2>3
<1>3. ASSUME NEW p \in Controllers, at'[p] \in Acting \ {"bind"}
      PROVE  AtPath(p)' \in {mem'[p].token, None} \cup late'
  <2>1. \/ at[p] \in Acting \ {"bind"}
        \/ Owned(p) /\ UNCHANGED disk /\ at[p] \notin {"start", "reserve", "bind"}
    <3>1. CASE p \in Creators
      <4>1. UNCHANGED <<at[p], mem[p]>> \/ Create(p) \/ Ends(p)
        BY <3>1, Mover, Names DEF Acts
      <4>2. ValidateMark(p) => Owned(p) /\ UNCHANGED disk
        BY DEF ValidateMark
      <4> QED
        BY <1>0, <1>3, <3>1, <4>1, <4>2, CreatorPairs, Names DEF Acting
    <3>2. CASE p \in Resumers
      <4>1. ValidateMark(p) => Owned(p) /\ UNCHANGED disk
        BY DEF ValidateMark
      <4> QED
        BY <1>0, <1>3, <3>2, <4>1, ResumerMoves, ResumerPairs, Names DEF Acting
    <3> QED
      BY <3>1, <3>2 DEF Controllers
  <2>2. at[p] \notin {"start", "reserve", "bind"}
    BY <2>1 DEF Acting
  <2>3. mem'[p].id = mem[p].id /\ mem'[p].token = mem[p].token
    <3>1. CASE p \in Creators
      BY <2>2, <3>1, CreatorLearns DEF Reserve, Bind
    <3>2. CASE p \in Resumers
      BY <2>2, <3>2, ResumerLearns DEF Acquire
    <3> QED
      BY <3>1, <3>2 DEF Controllers
  <2>4. CASE at[p] \in Acting \ {"bind"}
    <3>1. mem[p].id \in Ids
      <4>1. CASE p \in Creators
        BY <2>4, <4>1, PlacedPath DEF Acting, Placed, Creating, Ending
      <4>2. CASE p \in Resumers
        BY <2>2, <4>2 DEF IInv, BoundInv
      <4> QED
        BY <4>1, <4>2 DEF Controllers
    <3>2. disk[mem[p].id] \in {mem[p].token, None} \cup late
      BY <1>0, <2>4 DEF LookInv, AtPath
    <3>3. disk'[mem[p].id] \in {disk[mem[p].id], None} \cup late'
      BY <2>4, <3>1, LateStep
    <3> QED
      BY <1>0, <2>3, <3>2, <3>3 DEF AtPath
  <2>5. CASE Owned(p) /\ UNCHANGED disk
    BY <2>3, <2>5 DEF Owned, AtPath
  <2> QED
    BY <2>1, <2>4, <2>5
<1> QED
  BY <1>1, <1>2, <1>3 DEF LookInv

\* Whoever fills a directory that did not come late fills its own.
LEMMA FillsOwn ==
    ASSUME IInv, NEW c \in Creators, Fills(c), NEW m \in Makers, AtPath(c) = m, m \notin late
    PROVE  m = c /\ mem[c].token = c
<1>1. Placed(c) /\ at[c] # "bind" /\ at[c] \in Acting \ {"bind"} /\ c \in Controllers
  BY FillsPlace, Names DEF Placed
<1>2. AtPath(c) \in {mem[c].token, None} \cup late /\ mem[c].token \in {c} \cup late
  BY <1>1 DEF IInv, LookInv
<1> QED
  BY <1>2, Names

\* A mark goes to the directory that was looked at, to one that came late or to a new one.
LEMMA MarksOwn ==
    ASSUME IInv, NEW p \in Controllers, WriteMark(p), NEW m \in Makers, Target(p) = m, m \notin late,
           AtPath(p) # None
    PROVE  m = mem[p].token /\ (p \in Creators => m = p)
<1>1. at[p] = "write" /\ AtPath(p) = m
  BY DEF WriteMark, Target
<1>2. m = mem[p].token
  BY <1>1, Names DEF IInv, LookInv, Acting
<1>3. p \in Creators => mem[p].token \in {p} \cup late
  BY <1>1 DEF IInv, LookInv, Placed, Ending
<1> QED
  BY <1>2, <1>3

LEMMA PureStep == IInv /\ [Next]_vars => PureInv'
<1> SUFFICES ASSUME IInv, [Next]_vars PROVE PureInv'
  OBVIOUS
<1>0. TypeOK /\ PureInv /\ MemoryInv /\ at \in [Controllers -> Steps] /\ late \subseteq late'
  BY LateGrows DEF IInv, TypeOK
<1>1. ASSUME NEW m \in Makers \ late'
      PROVE  /\ dir'[m].record # None => dir'[m].record.by = m
             /\ dir'[m].ticket # None => dir'[m].ticket.by = m
             /\ dir'[m].baseline # None => dir'[m].baseline.by = m
  <2>0. /\ dir[m].record # None => dir[m].record.by = m
        /\ dir[m].ticket # None => dir[m].ticket.by = m
        /\ dir[m].baseline # None => dir[m].baseline.by = m
        /\ m \in Makers /\ m \notin late
    BY <1>0, <1>1 DEF PureInv
  <2>1. ASSUME NEW c \in Creators, SaveRecord(c), AtPath(c) = m PROVE FirstRecord(c).by = m
    BY <2>0, <2>1, FillsOwn DEF Fills, FirstRecord
  <2>2. ASSUME NEW c \in Creators, CopyTicket(c), AtPath(c) = m
        PROVE  [by |-> c, text |-> mem[c].text].by = m
    BY <2>0, <2>2, FillsOwn DEF Fills
  <2>3. ASSUME NEW c \in Creators, SaveBaseline(c), AtPath(c) = m PROVE mem[c].baseline.by = m
    <3>1. c = m /\ mem[c].baseline # None
      BY <1>0, <2>0, <2>3, FillsOwn DEF Fills, MemoryInv, SaveBaseline, HasBaseline, HasText
    <3> QED
      BY <1>0, <2>3, <3>1 DEF MemoryInv
  <2>4. ASSUME NEW p \in Controllers, WriteMark(p), Target(p) = m PROVE mem[p].record.by = m
    <3>1. AtPath(p) # None
      BY <1>1, <2>4 DEF WriteMark, Target
    <3>2. m = mem[p].token /\ at[p] = "write"
      BY <2>0, <2>4, <3>1, MarksOwn DEF WriteMark
    <3> QED
      BY <1>0, <2>0, <2>4, <3>2 DEF PureInv
  <2>5. dir'[m].record # None => dir'[m].record.by = m
    BY <2>0, <2>1, <2>4, Writes
  <2>6. dir'[m].ticket # None => dir'[m].ticket.by = m
    BY <2>0, <2>2, Writes
  <2>7. dir'[m].baseline # None => dir'[m].baseline.by = m
    BY <2>0, <2>3, Writes
  <2> QED
    BY <2>5, <2>6, <2>7
<1>2. ASSUME NEW p \in Controllers, at'[p] = "write", mem'[p].token \notin late'
      PROVE  mem'[p].record.by = mem'[p].token
  <2>1. CASE ValidateMark(p)
    <3>1. /\ mem'[p].record = dir[mem[p].token].record /\ mem'[p].token = mem[p].token
          /\ dir[mem[p].token].record # None /\ at[p] = "mark" /\ Owned(p)
      BY <1>0, <2>1, LearnFields DEF ValidateMark
    <3>2. mem[p].token \in Makers
      <4>1. CASE p \in Creators
        BY <3>1, <4>1, PlacedPath DEF Placed, Ending, Owned
      <4>2. CASE p \in Resumers
        BY <3>1, <4>2 DEF IInv, BoundInv
      <4> QED
        BY <4>1, <4>2 DEF Controllers
    <3> QED
      BY <1>0, <1>2, <3>1, <3>2 DEF PureInv
  <2>2. CASE at[p] = "write" /\ mem'[p].record = mem[p].record /\ mem'[p].token = mem[p].token
    BY <1>0, <1>2, <2>2 DEF PureInv
  <2>3. CASE p \in Creators
    <3>1. UNCHANGED <<at[p], mem[p]>> \/ Create(p) \/ Ends(p)
      BY <2>3, Mover, Names DEF Acts
    <3>2. at[p] = "write" \/ ValidateMark(p)
      BY <1>0, <1>2, <2>3, <3>1, CreatorPairs, Names
    <3> QED
      BY <1>0, <1>2, <2>1, <2>2, <2>3, <3>2, CreatorLearns DEF SaveRecord, ValidateMark, Bind
  <2>4. CASE p \in Resumers
    <3>1. at[p] = "write" \/ ValidateMark(p)
      BY <1>0, <1>2, <2>4, ResumerMoves, ResumerPairs, Names
    <3> QED
      BY <1>0, <1>2, <2>1, <2>2, <2>4, <3>1, ResumerLearns DEF Read, ValidateMark, Acquire
  <2> QED
    BY <2>3, <2>4 DEF Controllers
<1> QED
  BY <1>1, <1>2 DEF PureInv

-----------------------------------------------------------------------------
(* Theorems *)

LEMMA InitIInv == Init => IInv
<1> SUFFICES ASSUME Init PROVE IInv
  OBVIOUS
<1>1. TypeOK
  BY InitTypes
<1>2. PICK r \in Repositories :
        dir = [m \in Makers |-> IF m \in Controllers THEN EmptyDirectory ELSE Complete(m, r)]
  BY DEF Init
<1>3. /\ \A p \in Controllers : at[p] = "start" /\ mem[p] = Knows
      /\ \A m \in Makers :
            dir[m] = IF m \in Controllers THEN EmptyDirectory ELSE Complete(m, r)
      /\ \A id \in Ids : disk[id] \in {None, "old"}
      /\ away = None
  BY <1>2 DEF Init
<1>4. UnmadeInv
  BY <1>3, Names DEF UnmadeInv, Knows
<1>5. PlacedInv /\ BoundInv
  BY <1>3, Names DEF PlacedInv, Placed, Creating, Ending, BoundInv
<1>6. MemoryInv
  BY <1>3, Names DEF MemoryInv, HasTicket, HasRecord, HasBaseline, HasText, Knows
<1>7. ASSUME NEW m \in Makers
      PROVE  /\ dir[m].baseline # None => dir[m].baseline.base # "dirty"
             /\ dir[m].record # None => dir[m].record.by = m
             /\ dir[m].ticket # None => dir[m].ticket.by = m
             /\ dir[m].baseline # None => dir[m].baseline.by = m
  <2>1. CASE dir[m] = EmptyDirectory
    BY <2>1 DEF EmptyDirectory
  <2>2. CASE dir[m] = Complete(m, r)
    BY <2>2 DEF Complete
  <2> QED
    BY <1>3, <2>1, <2>2
<1>8. KnownInv
  BY <1>3, <1>7, Names
     DEF KnownInv, AfterRecord, AfterBaseline, AfterTicket, DrivenRunIsWhole
<1>9. LookInv
  BY <1>3, Names DEF LookInv, Placed, Creating, Ending, Acting
<1>10. PureInv
  BY <1>3, <1>7 DEF PureInv
<1> QED
  BY <1>1, <1>4, <1>5, <1>6, <1>8, <1>9, <1>10 DEF IInv

LEMMA NextIInv == IInv /\ [Next]_vars => IInv'
BY NextTypes, UnmadeStep, PlacedStep, BoundStep, MemoryStep, KnownStep, LookStep, PureStep DEF IInv

LEMMA RunsInvariant == Spec => []IInv
BY InitIInv, NextIInv, PTL DEF Spec

\* What the controllers know and what is in the directories stays well-typed, and no
\* directory is at two paths.
THEOREM RunsTypeCorrect == Spec => []TypeOK
<1>1. IInv => TypeOK
  BY DEF IInv
<1> QED
  BY <1>1, RunsInvariant, PTL

\* A run is driven only with all of its files, and they fit: create_run_snapshot,
\* resume_preflight_problem and resume_problem.
THEOREM DrivenRunsAreWhole == Spec => []DrivenRunIsWhole
<1>1. IInv => DrivenRunIsWhole
  BY DEF IInv, KnownInv
<1> QED
  BY <1>1, RunsInvariant, PTL

LEMMA KeptStep ==
    ASSUME IInv, [Next]_vars, NEW m \in Makers, Whole(m), m \notin late,
           m \in Creators => ~Creating(m)
    PROVE  Whole(m)' /\ dir'[m].ticket = dir[m].ticket /\ dir'[m].baseline = dir[m].baseline
<1>1. ASSUME NEW c \in Creators, Fills(c), AtPath(c) = m PROVE FALSE
  BY <1>1, FillsOwn, FillsPlace
<1>2. ASSUME NEW p \in Controllers, WriteMark(p), Target(p) = m
      PROVE  mem[p].record.by = m
  <2>1. AtPath(p) # None
    <3>1. AtPath(p) = None => dir[m] = EmptyDirectory
      BY <1>2, MarkFrame DEF Target
    <3>2. dir[m].record # None
      BY DEF Whole
    <3> QED
      BY <3>1, <3>2 DEF EmptyDirectory
  <2>2. m = mem[p].token /\ at[p] = "write"
    BY <1>2, <2>1, MarksOwn DEF WriteMark
  <2> QED
    BY <1>2, <2>2 DEF IInv, PureInv
<1>3. dir'[m].ticket = dir[m].ticket /\ dir'[m].baseline = dir[m].baseline
  BY <1>1, Writes DEF Fills
<1>4. dir'[m].record # None /\ dir'[m].record.by = m
  <2>1. CASE dir'[m].record = dir[m].record
    BY <2>1 DEF Whole
  <2>2. CASE dir'[m].record # dir[m].record
    <3>1. PICK p \in Controllers : /\ WriteMark(p) /\ Target(p) = m
                                   /\ dir'[m].record \in RunRecords
                                   /\ dir'[m].record.by = mem[p].record.by
      BY <1>1, <2>2, Writes DEF Fills
    <3> QED
      BY <1>2, <3>1, NoneIsNothing
  <2> QED
    BY <2>1, <2>2
<1> QED
  BY <1>3, <1>4 DEF Whole

\* No creation, rollback or mark takes a complete run apart or writes another's record into
\* it, other than in a directory that came to a path between a look and the act on it
\* (runs.py: _remove_incomplete_run_directory, save_record; run_ownership.py: validate).
THEOREM CompleteRunsAreKept == Spec => CompleteRunIsKept
<1>1. IInv /\ [Next]_vars =>
        [\A m \in Makers : Whole(m) /\ m \notin late /\ (m \in Creators => ~Creating(m)) =>
            Whole(m)' /\ dir'[m].ticket = dir[m].ticket /\ dir'[m].baseline = dir[m].baseline]_vars
  BY KeptStep
<1> QED
  BY <1>1, RunsInvariant, PTL DEF Spec, CompleteRunIsKept

-----------------------------------------------------------------------------
(* As long as no directory was put back *)

LEMMA RestoredStays == IInv /\ [Next]_vars /\ ~restored' => ~restored
<1> SUFFICES ASSUME IInv, [Next]_vars, restored PROVE restored'
  OBVIOUS
<1>0. TypeOK
  BY DEF IInv
<1>1. CASE UNCHANGED vars \/ Outsiders
  BY <1>1 DEF Outsiders, EditTicket, EditRepository, Replace, PutBack, vars, outside
<1>2. CASE \E q \in Controllers : Acts(q)
  BY <1>0, <1>2, Alone DEF outside
<1> QED
  BY <1>1, <1>2, Actors, Names DEF Acts

\* A path can come to hold a directory that it did not hold only by Reserve or, for the other
\* directory, by Replace.
LEMMA Comes ==
    ASSUME NotRestored, [Next]_vars, ~restored', NEW id \in Ids, disk'[id] # disk[id],
           disk'[id] # None
    PROVE  \/ \E c \in Creators : Reserve(c, id) /\ disk'[id] = c
           \/ disk'[id] = "other" /\ dir["other"] # EmptyDirectory
                 /\ "other" \notin {disk[i] : i \in Ids}
           \/ disk'[id] \in Controllers \ Creators /\ Unmade(disk'[id])
<1>1. ASSUME NEW p \in Controllers, WriteMark(p), AtPath(p) = None, p \notin Creators
      PROVE  Unmade(p)
  BY <1>1, MarkFrame DEF NotRestored
<1> QED
  BY <1>1, DiskStep DEF NotRestored, Replace

LEMMA OwnedStays ==
    ASSUME NotRestored, [Next]_vars, ~restored', NEW r \in Resumers, at[r] # "start", Owned(r)'
    PROVE  Owned(r) /\ mem'[r].token = mem[r].token /\ mem'[r].id = mem[r].id
<1>0. IInv /\ GoneInv /\ r \in Controllers
  BY Names DEF NotRestored
<1>1. mem'[r].token = mem[r].token /\ mem'[r].id = mem[r].id
  BY <1>0, ResumerLearns DEF Acquire
<1>2. mem[r].id \in Ids /\ mem[r].token \in Makers
  BY <1>0 DEF IInv, BoundInv
<1>3. disk'[mem[r].id] = mem[r].token
  BY <1>1 DEF Owned, AtPath
<1>4. CASE disk'[mem[r].id] # disk[mem[r].id]
  <2>1. ASSUME NEW c \in Creators, Reserve(c, mem[r].id), mem[r].token = c PROVE FALSE
    <3>1. Unmade(c) /\ c \in Controllers
      BY <2>1, Names DEF Reserve, Unmade, Early
    <3> QED
      BY <1>0, <2>1, <3>1 DEF IInv, UnmadeInv
  <2>2. CASE /\ mem[r].token = "other" /\ dir["other"] # EmptyDirectory
             /\ "other" \notin {disk[i] : i \in Ids}
    BY <1>0, <2>2 DEF GoneInv
  <2>3. CASE mem[r].token \in Controllers \ Creators /\ Unmade(mem[r].token)
    BY <1>0, <2>3 DEF IInv, UnmadeInv
  <2> QED
    BY <1>2, <1>3, <1>4, <2>1, <2>2, <2>3, Comes, Names
<1>5. CASE disk'[mem[r].id] = disk[mem[r].id]
  BY <1>1, <1>3, <1>5 DEF Owned, AtPath
<1> QED
  BY <1>4, <1>5

LEMMA GoneStep == NotRestored /\ [Next]_vars /\ ~restored' => GoneInv'
<1> SUFFICES ASSUME NotRestored, [Next]_vars, ~restored',
                    NEW q \in Controllers, mem'[q].token = "other",
                    \A id \in Ids : disk'[id] # "other"
             PROVE  dir'["other"] = EmptyDirectory
  BY DEF GoneInv
<1>0. /\ IInv /\ GoneInv /\ TypeOK /\ "other" \in Makers /\ "other" # None
      /\ "other" \notin Controllers
  BY Names DEF NotRestored, IInv
<1>1. dir["other"] = EmptyDirectory
  <2>1. CASE \E id \in Ids : disk[id] = "other"
    <3>1. PICK id \in Ids : disk[id] = "other" /\ disk'[id] # "other"
      BY <2>1
    <3>2. ~Replace(id)
      BY <3>1 DEF Replace
    <3> QED
      BY <1>0, <3>1, <3>2, DiskStep
  <2>2. CASE \A id \in Ids : disk[id] # "other"
    <3>1. mem[q].token = "other"
      <4>1. CASE q \in Creators
        <5>1. Bind(q) => AtPath(q) # "other"
          BY <1>0, <2>2, <4>1, PlacedPath DEF Bind, Placed, Creating, AtPath
        <5> QED
          BY <1>0, <4>1, <5>1, CreatorLearns
      <4>2. CASE q \in Resumers
        BY <1>0, <2>2, <4>2, ResumerLearns
      <4> QED
        BY <4>1, <4>2 DEF Controllers
    <3> QED
      BY <1>0, <2>2, <3>1 DEF GoneInv
  <2> QED
    BY <2>1, <2>2
<1>2. dir'["other"] = dir["other"]
  <2>1. ASSUME NEW c \in Creators, Fills(c), AtPath(c) = "other" PROVE dir'["other"] = dir["other"]
    <3>1. disk[mem[c].id] = "other" /\ mem[c].id \in Ids
      BY <1>0, <2>1, FillsPlace, PlacedPath DEF Placed, AtPath
    <3>2. UNCHANGED disk
      BY <2>1 DEF Fills, SaveRecord, CopyTicket, SaveBaseline, RollBack, UndoTicket, Unlink
    <3> QED
      BY <3>1, <3>2
  <2>2. ASSUME NEW p \in Controllers, WriteMark(p), Target(p) = "other"
        PROVE  dir'["other"] = dir["other"]
    <3>1. mem[p].id \in Ids /\ disk' = [disk EXCEPT ![mem[p].id] = Target(p)]
      BY <1>0, <2>2, MarkFrame DEF WriteMark, Target
    <3>2. disk'[mem[p].id] = "other"
      BY <1>0, <2>2, <3>1 DEF TypeOK
    <3> QED
      BY <3>1, <3>2
  <2> QED
    BY <1>0, <2>1, <2>2, DirStep
<1> QED
  BY <1>1, <1>2

\* A mark into a creator's directory that did not come late is the creator's own or that of a
\* resumer who has a token of it.
LEMMA MarkedBy ==
    ASSUME IInv, NEW p \in Controllers, WriteMark(p), NEW c \in Creators, Target(p) = c, c \notin late
    PROVE  at[p] = "write" /\ (p = c \/ (p \in Resumers /\ mem[p].token = c))
<1>1. AtPath(p) # None
  BY MarkFrame DEF Target
<1>2. c \in Makers
  BY Names
<1> QED
  BY <1>1, <1>2, MarksOwn DEF WriteMark, Controllers

LEMMA LockInvStep == NotRestored /\ [Next]_vars /\ ~restored' => LockInv'
<1> SUFFICES ASSUME NotRestored, [Next]_vars, ~restored', NEW c \in Creators
             PROVE  /\ Creating(c)' \/ Preparing(c)' => lock'[RepositoryOf[c]] = c
                    /\ c \notin late' =>
                        /\ Creating(c)' /\ dir'[c].record # None =>
                              dir'[c].record.repository = RepositoryOf[c]
                        /\ at'[c] = "bind" => dir'[c].record = None
                        /\ \A r \in Resumers : mem'[r].token = c =>
                            /\ Creating(c)' /\ (at'[r] = "lock" \/ (at'[r] = "after-record" /\ Owned(r)')) =>
                                  mem'[r].record.repository = RepositoryOf[c]
                            /\ Past(r)' => ~Creating(c)'
                            /\ at'[r] = "write" => dir'[c].record # None
  BY DEF LockInv
<1>0. /\ IInv /\ LockInv /\ TypeOK /\ c \in Controllers /\ c \in Makers /\ c # None
      /\ c \notin Resumers /\ RepositoryOf[c] \in Repositories
      /\ at \in [Controllers -> Steps] /\ late \subseteq late'
  BY Names, LateGrows DEF NotRestored, IInv, TypeOK
<1>1. ASSUME Creating(c)' \/ Preparing(c)' PROVE lock'[RepositoryOf[c]] = c
  <2>1. CASE Creating(c) \/ Preparing(c)
    <3>1. lock[RepositoryOf[c]] = c
      BY <1>0, <2>1 DEF LockInv
    <3>2. ~Finished(c)'
      BY <1>1 DEF Creating, Preparing, Finished
    <3> QED
      BY <1>0, <3>1, <3>2, LockStep
  <2>2. CASE ~(Creating(c) \/ Preparing(c))
    <3>1. at[c] = "start" /\ at'[c] # "start" /\ at'[c] # "refused"
      BY <1>0, <1>1, <2>2, CreatorMoves DEF Creating, Preparing
    <3>2. Start(c)
      <4>1. Create(c) \/ Ends(c)
        BY <1>0, <3>1, Mover DEF Acts
      <4>2. ~Ends(c)
        BY <3>1 DEF Ends, EndDrive, ValidateMark, WriteMark, MarkFails, Crash
      <4> QED
        BY <3>1, <4>1, <4>2
           DEF Create, ReadTicket, Preflight, CaptureBaseline, NothingCreated, Reserve, Bind,
               ReserveFails, BeforeWrite, Look, SaveRecord, CopyTicket, SyncTicket, UndoTicket,
               Unlink, SaveBaseline, Made, CreationRaises, RollBack, RemoveDirectory,
               RollBackFails
    <3> QED
      BY <1>0, <3>1, <3>2 DEF Start, Goto, TypeOK
  <2> QED
    BY <2>1, <2>2
<1>2. ASSUME c \notin late'
      PROVE  /\ Creating(c)' /\ dir'[c].record # None => dir'[c].record.repository = RepositoryOf[c]
             /\ at'[c] = "bind" => dir'[c].record = None
             /\ \A r \in Resumers : mem'[r].token = c =>
                 /\ Creating(c)' /\ (at'[r] = "lock" \/ (at'[r] = "after-record" /\ Owned(r)')) =>
                       mem'[r].record.repository = RepositoryOf[c]
                 /\ Past(r)' => ~Creating(c)'
                 /\ at'[r] = "write" => dir'[c].record # None
  <2>1. /\ Creating(c) /\ dir[c].record # None => dir[c].record.repository = RepositoryOf[c]
        /\ at[c] = "bind" => dir[c].record = None
        /\ \A r \in Resumers : mem[r].token = c =>
            /\ Creating(c) /\ (at[r] = "lock" \/ (at[r] = "after-record" /\ Owned(r))) =>
                  mem[r].record.repository = RepositoryOf[c]
            /\ Past(r) => ~Creating(c)
            /\ at[r] = "write" => dir[c].record # None
        /\ c \notin late
    BY <1>0, <1>2 DEF LockInv
  <2>2. CASE ~Creating(c) /\ Creating(c)'
    <3>1. Unmade(c)
      BY <2>2, CreatorMoves DEF NotRestored, Unmade, Early
    <3>2. /\ dir[c] = EmptyDirectory /\ \A q \in Controllers : mem[q].token # c
          /\ \A id \in Ids : disk[id] # c
      BY <1>0, <3>1 DEF IInv, UnmadeInv
    <3>3. at[c] = "reserve" /\ at'[c] = "bind"
      BY <1>0, <2>2, CreatorMoves
    <3>4. dir'[c].record = None
      <4>1. PICK id \in Ids : Reserve(c, id)
        BY <1>0, <3>3, CreatorMoves
      <4> QED
        BY <3>2, <4>1 DEF Reserve, EmptyDirectory
    <3>5. ASSUME NEW r \in Resumers PROVE mem'[r].token # c
      BY <1>0, <3>2, <3>5, ResumerLearns, Names
    <3> QED
      BY <3>4, <3>5
  <2>3. CASE Creating(c) \/ ~Creating(c)'
    <3>0. Creating(c)' => Creating(c)
      BY <2>3
    <3>1. ASSUME NEW p \in Controllers, WriteMark(p), Target(p) = c PROVE ~Creating(c)'
      <4>1. at[p] = "write" /\ (p = c \/ (p \in Resumers /\ mem[p].token = c))
        BY <1>0, <2>1, <3>1, MarkedBy
      <4>2. ~Creating(c)
        BY <2>1, <4>1 DEF Creating, Past
      <4> QED
        BY <3>0, <4>2
    <3>2. ASSUME NEW d \in Creators, Fills(d), AtPath(d) = c PROVE d = c
      BY <1>0, <2>1, <3>2, FillsOwn
    <3>3. ASSUME Creating(c)', dir'[c].record # None
          PROVE  dir'[c].record.repository = RepositoryOf[c]
      <4>1. SaveRecord(c) => FirstRecord(c).repository = RepositoryOf[c]
        BY DEF FirstRecord
      <4> QED
        BY <1>0, <2>1, <3>0, <3>1, <3>2, <3>3, <4>1, Writes DEF Fills
    <3>4. ASSUME at'[c] = "bind" PROVE dir'[c].record = None
      <4>1. at[c] = "bind"
        <5>1. Creating(c)
          BY <3>0, <3>4 DEF Creating
        <5> QED
          BY <1>0, <3>4, <5>1, CreatorMoves DEF Creating, Reserve
      <4>2. Creating(c)' /\ ~Fills(c)
        BY <3>4, <4>1, FillsPlace DEF Creating
      <4> QED
        BY <1>0, <2>1, <3>1, <3>2, <4>1, <4>2, DirStep
    <3>5. ASSUME NEW r \in Resumers, mem'[r].token = c
          PROVE  /\ Creating(c)' /\ (at'[r] = "lock" \/ (at'[r] = "after-record" /\ Owned(r)')) =>
                       mem'[r].record.repository = RepositoryOf[c]
                 /\ Past(r)' => ~Creating(c)'
                 /\ at'[r] = "write" => dir'[c].record # None
      <4>0. r \in Controllers /\ r \notin Creators
        BY Names
      <4>1. UNCHANGED <<at[r], mem[r]>> \/ Resume(r) \/ Ends(r)
        BY <1>0, ResumerMoves
      <4>2. CASE at[r] = "start"
        <5>1. at'[r] \in {"start", "record"}
          BY <1>0, <4>0, <4>1, <4>2, ResumerPairs
        <5> QED
          BY <5>1 DEF Past, AfterRecord
      <4>3. CASE at[r] # "start"
        <5>0. mem[r].token = c
          BY <1>0, <3>5, <4>3, ResumerLearns DEF Acquire
        <5>1. ASSUME Creating(c)', at'[r] = "lock" \/ (at'[r] = "after-record" /\ Owned(r)')
              PROVE  mem'[r].record.repository = RepositoryOf[c]
          <6>1. CASE Read(r, "record", "read-record")
            <7>1. /\ mem'[r].record = dir[AtPath(r)].record /\ dir[AtPath(r)].record # None
                  /\ at'[r] = "after-record"
              <8>1. /\ Learn(r, "record", dir[AtPath(r)].record)
                    /\ dir[AtPath(r)].record # None /\ at'[r] = "after-record"
                BY <1>0, <4>0, <6>1 DEF Read, Goto
              <8> QED
                BY <1>0, <4>0, <8>1, LearnFields
            <7>2. AtPath(r) = c
              BY <4>3, <5>0, <5>1, <7>1, OwnedStays DEF Owned
            <7> QED
              BY <2>1, <3>0, <5>1, <7>1, <7>2
          <6>2. CASE ~Read(r, "record", "read-record")
            <7>1. \/ at[r] = "lock" \/ (at[r] = "after-record" /\ (at'[r] = "lock" => Owned(r)))
              BY <1>0, <4>0, <4>1, <5>1, <6>2, ResumerPairs
            <7>2. at[r] = "lock" \/ (at[r] = "after-record" /\ Owned(r))
              BY <4>3, <5>1, <7>1, OwnedStays
            <7>3. mem'[r].record = mem[r].record
              BY <1>0, <6>2, <7>2, ResumerLearns DEF ValidateMark
            <7> QED
              BY <2>1, <3>0, <5>0, <5>1, <7>2, <7>3
          <6> QED
            BY <6>1, <6>2
        <5>2. ASSUME Past(r)' PROVE ~Creating(c)'
          <6>1. Past(r) \/ (at[r] = "lock" /\ at'[r] = "state" /\ TakeLock(r))
            BY <1>0, <4>0, <4>1, <5>2, ResumerPairs DEF Past, AfterRecord
          <6>2. CASE Past(r)
            BY <2>1, <3>0, <5>0, <6>2
          <6>3. CASE at[r] = "lock" /\ at'[r] = "state" /\ TakeLock(r)
            <7>1. lock[mem[r].record.repository] = None
              BY <1>0, <4>0, <6>3 DEF TakeLock, Goto
            <7>2. Creating(c) => lock[RepositoryOf[c]] = c /\ mem[r].record.repository = RepositoryOf[c]
              BY <1>0, <2>1, <5>0, <6>3 DEF LockInv
            <7> QED
              BY <1>0, <3>0, <7>1, <7>2
          <6> QED
            BY <6>1, <6>2, <6>3
        <5>3. ASSUME at'[r] = "write" PROVE dir'[c].record # None
          <6>1. dir[c].record # None
            <7>1. at[r] = "write" \/ ValidateMark(r)
              BY <1>0, <4>0, <4>1, <5>3, ResumerPairs
            <7> QED
              BY <2>1, <5>0, <7>1 DEF ValidateMark
          <6>2. Past(r) \/ ValidateMark(r)
            BY <1>0, <4>0, <4>1, <5>3, ResumerPairs DEF Past
          <6>3. at[r] \in {"mark", "write"}
            BY <1>0, <4>0, <4>1, <5>3, ResumerPairs DEF ValidateMark
          <6>4. ~Creating(c)
            BY <2>1, <5>0, <6>3 DEF Past
          <6>5. ~Fills(c)
            BY <6>4, FillsPlace
          <6> QED
            BY <1>0, <3>2, <6>1, <6>5, Writes, NoneIsNothing DEF Fills
        <5> QED
          BY <5>1, <5>2, <5>3
      <4> QED
        BY <4>2, <4>3
    <3> QED
      BY <3>3, <3>4, <3>5
  <2> QED
    BY <2>2, <2>3
<1> QED
  BY <1>1, <1>2

LEMMA HomeStep == NotRestored /\ [Next]_vars /\ ~restored' => HomeInv'
<1> SUFFICES ASSUME NotRestored, [Next]_vars, ~restored', NEW c \in Creators, NEW id \in Ids,
                    disk'[id] = c
             PROVE  /\ mem'[c].id = id
                    /\ Creating(c)' /\ at'[c] # "bind" => mem'[c].token = c
                    /\ c \notin late' /\ (Erasing(c)' \/ at'[c] = "failed") => dir'[c].record = None
  BY DEF HomeInv
<1>0. /\ IInv /\ LockInv /\ HomeInv /\ TypeOK /\ c \in Controllers /\ c \in Makers /\ c # None
      /\ c \notin Resumers /\ c # "other" /\ at \in [Controllers -> Steps] /\ late \subseteq late'
  BY Names, LateGrows DEF NotRestored, IInv, TypeOK
<1>1. CASE disk[id] # c
  <2>1. Reserve(c, id)
    BY <1>0, <1>1, Comes, Names
  <2>2. mem'[c].id = id /\ at'[c] = "bind"
    BY <1>0, <2>1, LearnFields DEF Reserve, Goto
  <2> QED
    BY <2>2 DEF Erasing
<1>2. CASE disk[id] = c
  <2>0. /\ mem[c].id = id
        /\ Creating(c) /\ at[c] # "bind" => mem[c].token = c
        /\ c \notin late /\ (Erasing(c) \/ at[c] = "failed") => dir[c].record = None
    BY <1>0, <1>2 DEF HomeInv
  <2>1. ~Unmade(c) /\ ~Early(c)
    BY <1>0, <1>2 DEF IInv, UnmadeInv, Unmade
  <2>2. mem'[c].id = id
    BY <1>0, <2>0, <2>1, Settled DEF Early
  <2>3. ASSUME Creating(c)', at'[c] # "bind" PROVE mem'[c].token = c
    <3>1. Placed(c)'
      BY <2>3 DEF Placed
    <3>2. Placed(c) /\ (at[c] # "bind" \/ Bind(c))
      BY <1>0, <2>3, <3>1, CreatorMoves
    <3>3. CASE Bind(c)
      BY <1>0, <1>2, <2>0, <3>3, LearnFields DEF Bind, AtPath
    <3>4. CASE at[c] # "bind"
      <4>1. Creating(c)
        BY <1>0, <2>1, <2>3, CreatorMoves DEF Early
      <4> QED
        BY <1>0, <2>0, <3>4, <4>1, CreatorLearns DEF Bind
    <3> QED
      BY <3>2, <3>3, <3>4
  <2>4. ASSUME c \notin late', Erasing(c)' \/ at'[c] = "failed" PROVE dir'[c].record = None
    <3>0. c \notin late
      BY <1>0, <2>4
    <3>1. ASSUME NEW d \in Creators, Fills(d), AtPath(d) = c PROVE d = c
      BY <1>0, <3>0, <3>1, FillsOwn
    <3>2. ASSUME NEW p \in Controllers, WriteMark(p), Target(p) = c
          PROVE  /\ p # c => p \in Resumers /\ mem[p].token = c /\ at[p] = "write"
                 /\ p = c => at[c] = "write" /\ at'[c] = "done"
      <4>1. at[p] = "write" /\ (p = c \/ (p \in Resumers /\ mem[p].token = c))
        BY <1>0, <3>0, <3>2, MarkedBy
      <4> QED
        BY <1>0, <3>2, <4>1 DEF WriteMark, Goto
    <3>3. CASE dir[c].record = None /\ ~SaveRecord(c)
      <4>1. ASSUME NEW p \in Controllers, WriteMark(p), Target(p) = c PROVE FALSE
        <5>1. p # c
          BY <2>4, <3>2, <4>1 DEF Erasing
        <5> QED
          BY <1>0, <3>0, <3>2, <3>3, <4>1, <5>1 DEF LockInv
      <4> QED
        BY <1>0, <3>1, <3>3, <4>1, Writes DEF Fills
    <3>4. UNCHANGED <<at[c], mem[c]>> \/ Create(c) \/ Ends(c)
      BY <1>0, Mover DEF Acts
    <3>5. ~SaveRecord(c)
      <4>1. SaveRecord(c) => at'[c] = "copy"
        BY <1>0 DEF SaveRecord, Goto
      <4> QED
        BY <2>4, <4>1 DEF Erasing
    <3>6. \/ Erasing(c) \/ at[c] = "failed"
          \/ at[c] = "unlink-record" /\ RollBack(c)
          \/ at[c] = "bind"
          \/ Creating(c) /\ at[c] # "bind" /\ ~Owned(c)
      BY <1>0, <2>1, <2>4, <3>4, CreatorPairs DEF Erasing, Early, Creating
    <3>7. CASE Erasing(c) \/ at[c] = "failed"
      BY <2>0, <3>0, <3>3, <3>5, <3>7
    <3>8. CASE at[c] = "unlink-record" /\ RollBack(c)
      <4>1. AtPath(c) = c
        BY <1>2, <2>0 DEF AtPath
      <4>2. Write(c, "record", None)
        BY <3>8, <4>1 DEF RollBack, Unlink
      <4> QED
        BY <1>0, <4>2, WriteFields
    <3>9. CASE at[c] = "bind"
      BY <1>0, <3>0, <3>3, <3>5, <3>9 DEF LockInv
    <3>10. CASE Creating(c) /\ at[c] # "bind" /\ ~Owned(c)
      BY <1>2, <2>0, <3>10 DEF Owned, AtPath
    <3> QED
      BY <3>6, <3>7, <3>8, <3>9, <3>10
  <2> QED
    BY <2>2, <2>3, <2>4
<1> QED
  BY <1>1, <1>2

LEMMA OwnStep == NotRestored /\ [Next]_vars /\ ~restored' => OwnInv'
<1> SUFFICES ASSUME NotRestored, [Next]_vars, ~restored', NEW r \in Resumers,
                    mem'[r].token \notin late'
             PROVE  /\ (at'[r] \in AfterRecord \ {"after-record"}
                           \/ (at'[r] = "after-record" /\ Owned(r)')) =>
                          mem'[r].record.by = mem'[r].token
                    /\ (at'[r] \in AfterBaseline \ {"after-baseline"}
                           \/ (at'[r] = "after-baseline" /\ Owned(r)')) =>
                          mem'[r].baseline.by = mem'[r].token
                    /\ (at'[r] \in AfterTicket \ {"after-ticket"}
                           \/ (at'[r] = "after-ticket" /\ Owned(r)')) =>
                          mem'[r].ticket.by = mem'[r].token
  BY DEF OwnInv
<1>0. /\ IInv /\ PureInv /\ OwnInv /\ TypeOK /\ at \in [Controllers -> Steps]
      /\ r \in Controllers /\ r \notin Creators /\ late \subseteq late'
  BY Names, LateGrows DEF NotRestored, IInv, TypeOK
<1>1. UNCHANGED <<at[r], mem[r]>> \/ Resume(r) \/ Ends(r)
  BY <1>0, ResumerMoves
<1>2. CASE at[r] = "start"
  <2>1. at'[r] \in {"start", "record"}
    BY <1>0, <1>1, <1>2, ResumerPairs
  <2> QED
    BY <2>1 DEF AfterRecord, AfterBaseline, AfterTicket
<1>3. CASE at[r] # "start"
  <2>0. mem'[r].token = mem[r].token /\ mem'[r].id = mem[r].id /\ mem[r].token \notin late
        /\ mem[r].token \in Makers
    BY <1>0, <1>3, ResumerLearns DEF Acquire, IInv, BoundInv
  <2>1. Owned(r)' => Owned(r)
    BY <1>3, OwnedStays
  <2>2. /\ (at[r] \in AfterRecord \ {"after-record"} \/ (at[r] = "after-record" /\ Owned(r))) =>
              mem[r].record.by = mem[r].token
        /\ (at[r] \in AfterBaseline \ {"after-baseline"} \/ (at[r] = "after-baseline" /\ Owned(r))) =>
              mem[r].baseline.by = mem[r].token
        /\ (at[r] \in AfterTicket \ {"after-ticket"} \/ (at[r] = "after-ticket" /\ Owned(r))) =>
              mem[r].ticket.by = mem[r].token
    BY <1>0, <2>0 DEF OwnInv
  <2>3. /\ Owned(r) /\ dir[AtPath(r)].record # None => dir[AtPath(r)].record.by = mem[r].token
        /\ Owned(r) /\ dir[AtPath(r)].ticket # None => dir[AtPath(r)].ticket.by = mem[r].token
        /\ Owned(r) /\ dir[AtPath(r)].baseline # None => dir[AtPath(r)].baseline.by = mem[r].token
    BY <1>0, <2>0 DEF PureInv, Owned
  <2>4. /\ mem'[r].record # mem[r].record => at[r] \in {"read-record", "mark"}
        /\ mem'[r].ticket # mem[r].ticket => at[r] = "read-ticket"
        /\ mem'[r].baseline # mem[r].baseline => at[r] = "read-baseline"
    BY <1>0, ResumerLearns DEF Read, ValidateMark
  <2>5. ASSUME NEW step, Read(r, "record", step)
        PROVE  mem'[r].record = dir[AtPath(r)].record /\ dir[AtPath(r)].record # None
    <3>1. Learn(r, "record", dir[AtPath(r)].record) /\ dir[AtPath(r)].record # None
      BY <2>5 DEF Read
    <3> QED
      BY <1>0, <3>1, LearnFields
  <2>6. ASSUME NEW step, Read(r, "ticket", step)
        PROVE  mem'[r].ticket = dir[AtPath(r)].ticket /\ dir[AtPath(r)].ticket # None
    <3>1. Learn(r, "ticket", dir[AtPath(r)].ticket) /\ dir[AtPath(r)].ticket # None
      BY <2>6 DEF Read
    <3> QED
      BY <1>0, <3>1, LearnFields
  <2>7. ASSUME NEW step, Read(r, "baseline", step)
        PROVE  mem'[r].baseline = dir[AtPath(r)].baseline /\ dir[AtPath(r)].baseline # None
    <3>1. Learn(r, "baseline", dir[AtPath(r)].baseline) /\ dir[AtPath(r)].baseline # None
      BY <2>7 DEF Read
    <3> QED
      BY <1>0, <3>1, LearnFields
  <2>8. ASSUME at'[r] \in AfterRecord \ {"after-record"} \/ (at'[r] = "after-record" /\ Owned(r)')
        PROVE  mem'[r].record.by = mem'[r].token
    <3>1. \/ Read(r, "record", "read-record") /\ Owned(r)
          \/ at[r] \in AfterRecord \ {"after-record"}
          \/ at[r] = "after-record" /\ Owned(r)
      BY <1>0, <1>1, <2>1, <2>8, ResumerPairs DEF AfterRecord
    <3> QED
      BY <2>0, <2>2, <2>3, <2>4, <2>5, <3>1 DEF AfterRecord
  <2>9. ASSUME \/ at'[r] \in AfterBaseline \ {"after-baseline"}
               \/ at'[r] = "after-baseline" /\ Owned(r)'
        PROVE  mem'[r].baseline.by = mem'[r].token
    <3>1. \/ Read(r, "baseline", "read-baseline") /\ Owned(r)
          \/ at[r] \in AfterBaseline \ {"after-baseline"}
          \/ at[r] = "after-baseline" /\ Owned(r)
      BY <1>0, <1>1, <2>1, <2>9, ResumerPairs DEF AfterBaseline
    <3> QED
      BY <2>0, <2>2, <2>3, <2>4, <2>7, <3>1 DEF AfterBaseline
  <2>10. ASSUME at'[r] \in AfterTicket \ {"after-ticket"} \/ (at'[r] = "after-ticket" /\ Owned(r)')
        PROVE  mem'[r].ticket.by = mem'[r].token
    <3>1. \/ Read(r, "ticket", "read-ticket") /\ Owned(r)
          \/ at[r] \in AfterTicket \ {"after-ticket"}
          \/ at[r] = "after-ticket" /\ Owned(r)
      BY <1>0, <1>1, <2>1, <2>10, ResumerPairs DEF AfterTicket
    <3> QED
      BY <2>0, <2>2, <2>3, <2>4, <2>6, <3>1 DEF AfterTicket
  <2> QED
    BY <2>8, <2>9, <2>10
<1> QED
  BY <1>2, <1>3

LEMMA InitNotRestored == Init => NotRestored
<1> SUFFICES ASSUME Init PROVE NotRestored
  OBVIOUS
<1>1. IInv
  BY InitIInv
<1>2. /\ \A p \in Controllers : at[p] = "start" /\ mem[p].token = None
      /\ \A id \in Ids : disk[id] \in {None, "old"}
  BY DEF Init, Knows
<1>3. GoneInv /\ HomeInv
  BY <1>2, Names DEF GoneInv, HomeInv
<1>4. LockInv /\ OwnInv
  BY <1>2, Names
     DEF LockInv, OwnInv, Creating, Preparing, AfterRecord, AfterBaseline, AfterTicket
<1> QED
  BY <1>1, <1>3, <1>4 DEF NotRestored

LEMMA NotRestoredInvariant == Spec => [](IInv /\ (~restored => NotRestored))
<1>1. Init => IInv /\ (~restored => NotRestored)
  BY InitIInv, InitNotRestored
<1>2. IInv /\ (~restored => NotRestored) /\ [Next]_vars => (IInv /\ (~restored => NotRestored))'
  BY NextIInv, RestoredStays, GoneStep, HomeStep, LockInvStep, OwnStep DEF NotRestored
<1> QED
  BY <1>1, <1>2, PTL DEF Spec

\* A creation that raised has left no record at its path that status would list
\* (_remove_incomplete_run_directory), unless a directory was put back or a mark that had
\* looked before the creation is written into it.
THEOREM FailedRunsAreNotListed == Spec => []FailedIsNotListed
<1>1. IInv /\ (~restored => NotRestored) => FailedIsNotListed
  BY DEF FailedIsNotListed, NotRestored, HomeInv
<1> QED
  BY <1>1, NotRestoredInvariant, PTL

\* What a run is driven by was read from the directory that its token is bound to
\* (run_ownership.py: read_descendant), also if another one took its place meanwhile.
THEOREM EvidenceIsOwn == Spec => []OwnEvidenceOnly
<1>1. ASSUME IInv, ~restored => NotRestored PROVE OwnEvidenceOnly
  <2> SUFFICES ASSUME ~restored, NEW p \in Controllers, at[p] = "driving", mem[p].token \notin late
               PROVE  {mem[p].record.by, mem[p].ticket.by, mem[p].baseline.by} = {mem[p].token}
    BY DEF OwnEvidenceOnly
  <2>1. CASE p \in Creators
    <3>1. mem[p].token = p
      BY <1>1, <2>1 DEF IInv, LookInv, Placed, Ending
    <3>2. /\ mem[p].record = FirstRecord(p) /\ mem[p].ticket = [by |-> p, text |-> mem[p].text]
          /\ mem[p].baseline.by = p
      BY <1>1, <2>1 DEF IInv, MemoryInv, HasTicket, HasRecord, HasBaseline, HasText
    <3> QED
      BY <3>1, <3>2 DEF FirstRecord
  <2>2. CASE p \in Resumers
    BY <1>1, <2>2 DEF NotRestored, OwnInv, AfterRecord, AfterBaseline, AfterTicket
  <2> QED
    BY <2>1, <2>2 DEF Controllers
<1>2. IInv /\ (~restored => NotRestored) => OwnEvidenceOnly
  BY <1>1
<1> QED
  BY <1>2, NotRestoredInvariant, PTL
=============================================================================
