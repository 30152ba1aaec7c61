----------------------------- MODULE RunDirectories -----------------------------
(***************************************************************************)
(* Run directories: create_run_snapshot (runs.py) with its rollback, the   *)
(* ownership token that is bound to the physical directory                 *)
(* (run_ownership.py), and the reads a resume makes under that token       *)
(* (application/lifecycle/resume.py) until the run is driven or stopped.   *)
(*                                                                         *)
(* Controllers of several repositories share one directory of runs.        *)
(* Meanwhile the ticket file and the repository are edited, and at any     *)
(* moment a directory may be replaced by another run, and put back.        *)
(*                                                                         *)
(* A token is compared with what is at the path, and the file is written   *)
(* or removed by that path afterwards: every write of a creation, of its   *)
(* rollback and of a mark is two steps here, a look and an act.            *)
(***************************************************************************)
EXTENDS Naturals, FiniteSets

CONSTANTS
    Creators,       \* controllers that start a new run
    Resumers,       \* controllers that resume one
    Repositories,
    RepositoryOf,   \* the repository a creator works on
    Ids,            \* the run identifiers one ticket can get in one second, 1..n
    MaxControllers, \* bound: how many controllers take part
    MaxEdits,       \* bound: how often the ticket and the repositories are edited, together
    None

ASSUME RunsAssumption ==
    /\ RepositoryOf \in [Creators -> Repositories]
    /\ Creators \cap Resumers = {}
    /\ {None, "old", "other"} \cap (Creators \cup Resumers) = {}
    /\ None \notin {"old", "other"}
    /\ Ids \subseteq Nat \ {0}

Controllers == Creators \cup Resumers

\* A directory is named by the controller that made it; one is left of an earlier run,
\* another is a run that somebody keeps elsewhere. A resumer makes one if it writes to a
\* path where the directory is gone.
Makers == Controllers \cup {"old", "other"}
Texts == {"first", "edited"}
Workspaces == {"clean", "moved", "protected", "dirty"}

RunRecords == [by: Makers, repository: Repositories, base: Workspaces, terminal: BOOLEAN]
Tickets == [by: Makers, text: Texts]
Baselines == [by: Makers, base: Workspaces, text: Texts]
Directories == [record: RunRecords \cup {None}, ticket: Tickets \cup {None},
                baseline: Baselines \cup {None}]
EmptyDirectory == [record |-> None, ticket |-> None, baseline |-> None]

ASSUME NoneAssumption == None \notin RunRecords \cup Tickets \cup Baselines \cup Texts

VARIABLES
    ticket,     \* the text of the source ticket
    workspace,  \* per repository: a clean commit, another one, on a protected branch, or dirty
    disk,       \* per identifier: the directory at its path
    dir,        \* per directory: its record, ticket and baseline
    lock,       \* per repository: who holds its run lock
    at, mem,    \* per controller: the next step and what it knows
    away,       \* the directory that was replaced, kept elsewhere
    restored,   \* history: a directory that was replaced has been put back
    late        \* history: directories that came to a path between a look and the act on it

outside == <<ticket, workspace, away, restored>>
vars == <<outside, disk, dir, lock, at, mem, late>>

Knowledge == [id: Ids \cup {0}, token: Makers \cup {None}, text: Texts \cup {None},
              record: RunRecords \cup {None}, ticket: Tickets \cup {None},
              baseline: Baselines \cup {None}]
Knows == [id |-> 0, token |-> None, text |-> None, record |-> None, ticket |-> None,
          baseline |-> None]

AtPath(p) == disk[mem[p].id]

\* validate() compares the identity of what is at the path with the token.
\* Mutant: it is only tested that there is a directory.
BugOwned(p) == AtPath(p) # None
Owned(p) == AtPath(p) = mem[p].token

Goto(p, step) == at' = [at EXCEPT ![p] = step]
Learn(p, field, value) == mem' = [mem EXCEPT ![p][field] = value]
Write(directory, field, value) == dir' = [dir EXCEPT ![directory][field] = value]
Free(p) == lock' = [r \in Repositories |-> IF lock[r] = p THEN None ELSE lock[r]]

-----------------------------------------------------------------------------
(* Outside *)

MayEdit ==
    Cardinality({r \in Repositories : workspace[r] # "clean"})
        + Cardinality({t \in {ticket} : t # "first"}) < MaxEdits

EditTicket ==
    /\ MayEdit /\ ticket = "first" /\ ticket' = "edited"
    /\ UNCHANGED <<workspace, away, restored, disk, dir, lock, at, mem, late>>

EditRepository(r) ==
    /\ MayEdit /\ workspace[r] = "clean"
    /\ \E w \in Workspaces \ {"clean"} : workspace' = [workspace EXCEPT ![r] = w]
    /\ UNCHANGED <<ticket, away, restored, disk, dir, lock, at, mem, late>>

\* Steps at which a controller acts on a path that it has looked at, or made, before.
Acting == {"bind", "write-record", "write-ticket", "sync", "write-baseline", "unlink-record",
           "unlink-ticket", "unlink-baseline", "rmdir", "write"}
Arrives(directory, id) ==
    late' = IF \E p \in Controllers : mem[p].id = id /\ at[p] \in Acting
            THEN late \cup {directory} ELSE late

\* Bound: one directory is away at a time, and the same one takes its place each time.
Replace(id) ==
    /\ disk[id] \in Makers \ {"other"} /\ "other" \notin {disk[i] : i \in Ids}
    /\ dir["other"] # EmptyDirectory
    /\ disk' = [disk EXCEPT ![id] = "other"] /\ away' = disk[id]
    /\ Arrives("other", id)
    /\ UNCHANGED <<ticket, workspace, restored, dir, lock, at, mem>>

\* Bound: once.
PutBack(id) ==
    /\ disk[id] = "other" /\ away # None /\ ~restored
    /\ disk' = [disk EXCEPT ![id] = away] /\ away' = None
    /\ Arrives(away, id)
    /\ restored' = TRUE
    /\ UNCHANGED <<ticket, workspace, dir, lock, at, mem>>

-----------------------------------------------------------------------------
(* run_ticket_lifecycle up to the controller *)

\* Bound: only so many controllers take part in one behaviour, whichever they are.
MayTakePart == Cardinality({p \in Controllers : at[p] # "start"}) < MaxControllers

Start(c) ==
    /\ at[c] = "start" /\ MayTakePart
    /\ IF lock[RepositoryOf[c]] = None
       THEN Goto(c, "ticket") /\ lock' = [lock EXCEPT ![RepositoryOf[c]] = c]
       ELSE Goto(c, "refused") /\ UNCHANGED lock
    /\ UNCHANGED <<outside, disk, dir, mem, late>>

\* The bytes that are hashed and copied are read once.
ReadTicket(c) ==
    /\ at[c] = "ticket" /\ Goto(c, "preflight") /\ Learn(c, "text", ticket)
    /\ UNCHANGED <<outside, disk, dir, lock, late>>

Preflight(c) ==
    /\ at[c] = "preflight" /\ workspace[RepositoryOf[c]] \in {"clean", "moved"}
    /\ Goto(c, "baseline")
    /\ UNCHANGED <<outside, disk, dir, lock, mem, late>>

\* A second look at the repository; the branch's name is no longer asked for.
CaptureBaseline(c) ==
    /\ at[c] = "baseline" /\ workspace[RepositoryOf[c]] # "dirty"
    /\ Learn(c, "baseline", [by |-> c, base |-> workspace[RepositoryOf[c]], text |-> mem[c].text])
    /\ Goto(c, "reserve")
    /\ UNCHANGED <<outside, disk, dir, lock, late>>

\* Before the reservation an exception leaves nothing behind.
NothingCreated(c) ==
    /\ at[c] \in {"ticket", "preflight", "baseline", "reserve"}
    /\ Goto(c, "failed") /\ Free(c)
    /\ UNCHANGED <<outside, disk, dir, mem, late>>

\* Mutant: a directory that exists is good enough.
BugReserve(c, id) ==
    /\ at[c] = "reserve" /\ id = 1
    /\ disk' = IF disk[id] = None THEN [disk EXCEPT ![id] = c] ELSE disk
    /\ Learn(c, "id", id) /\ Goto(c, "bind")
    /\ UNCHANGED <<outside, dir, lock, late>>

\* The first identifier that mkdir can still create.
Reserve(c, id) ==
    /\ at[c] = "reserve"
    /\ disk[id] = None /\ \A i \in Ids : i < id => disk[i] # None
    /\ disk' = [disk EXCEPT ![id] = c] /\ Arrives(c, id)
    /\ Learn(c, "id", id) /\ Goto(c, "bind")
    /\ UNCHANGED <<outside, dir, lock>>

\* The token names what stat finds at the path.
Bind(c) ==
    /\ at[c] = "bind"
    /\ Learn(c, "token", AtPath(c)) /\ Goto(c, "record")
    /\ UNCHANGED <<outside, disk, dir, lock, late>>

\* The reservation is taken back by rmdir, which an empty directory allows and which may fail.
ReserveFails(c) ==
    /\ at[c] = "bind"
    /\ \/ UNCHANGED disk
       \/ dir[AtPath(c)] = EmptyDirectory /\ disk' = [disk EXCEPT ![mem[c].id] = None]
    /\ Goto(c, "failed") /\ Free(c)
    /\ UNCHANGED <<outside, dir, mem, late>>

\* Each of the three writes validates first.
Look(c, step, following) ==
    /\ at[c] = step /\ Owned(c) /\ Goto(c, following)
    /\ UNCHANGED <<outside, disk, dir, lock, mem, late>>
BeforeWrite(c) ==
    \/ Look(c, "record", "write-record")
    \/ Look(c, "copy", "write-ticket")
    \/ Look(c, "save", "write-baseline")

FirstRecord(c) == [by |-> c, repository |-> RepositoryOf[c], base |-> mem[c].baseline.base,
                   terminal |-> FALSE]

SaveRecord(c) ==
    /\ at[c] = "write-record"
    /\ Write(AtPath(c), "record", FirstRecord(c)) /\ Learn(c, "record", FirstRecord(c))
    /\ Goto(c, "copy")
    /\ UNCHANGED <<outside, disk, lock, late>>

\* Mutant: the ticket is read a second time.
BugCopyTicket(c) ==
    /\ at[c] = "write-ticket" /\ dir[AtPath(c)].ticket = None
    /\ Write(AtPath(c), "ticket", [by |-> c, text |-> ticket])
    /\ Learn(c, "ticket", [by |-> c, text |-> ticket])
    /\ Goto(c, "sync")
    /\ UNCHANGED <<outside, disk, lock, late>>

\* exclusive_write_bytes fails over a file that exists.
CopyTicket(c) ==
    /\ at[c] = "write-ticket" /\ dir[AtPath(c)].ticket = None
    /\ Write(AtPath(c), "ticket", [by |-> c, text |-> mem[c].text])
    /\ Learn(c, "ticket", [by |-> c, text |-> mem[c].text])
    /\ Goto(c, "sync")
    /\ UNCHANGED <<outside, disk, lock, late>>

SyncTicket(c) ==
    /\ at[c] = "sync" /\ Goto(c, "save")
    /\ UNCHANGED <<outside, disk, dir, lock, mem, late>>

SaveBaseline(c) ==
    /\ at[c] = "write-baseline" /\ Write(AtPath(c), "baseline", mem[c].baseline)
    /\ Goto(c, "made")
    /\ UNCHANGED <<outside, disk, lock, mem, late>>

Made(c) ==
    /\ at[c] = "made" /\ Goto(c, "driving")
    /\ UNCHANGED <<outside, disk, dir, lock, mem, late>>

Unlink(c, field, step, following) ==
    /\ at[c] = step /\ Write(AtPath(c), field, None)
    /\ Goto(c, following)
    /\ UNCHANGED <<outside, disk, lock, mem, late>>

\* A file that exclusive_write_bytes could not write to its end is removed again.
UndoTicket(c) == Unlink(c, "ticket", "sync", "raised")

\* _remove_incomplete_run_directory looks at the path once. A write may have raised before
\* or after it took effect.
CreationRaises(c) ==
    /\ at[c] \in {"record", "write-record", "copy", "write-ticket", "sync", "raised", "save",
                  "write-baseline", "made"}
    /\ Goto(c, IF Owned(c) THEN "unlink-record" ELSE "failed")
    /\ IF Owned(c) THEN UNCHANGED lock ELSE Free(c)
    /\ UNCHANGED <<outside, disk, dir, mem, late>>

\* Mutant: the record goes last.
BugRollBack(c) ==
    \/ Unlink(c, "ticket", "unlink-record", "unlink-ticket")
    \/ Unlink(c, "baseline", "unlink-ticket", "unlink-baseline")
    \/ Unlink(c, "record", "unlink-baseline", "rmdir")

\* The three files go by the path, without another look.
RollBack(c) ==
    \/ Unlink(c, "record", "unlink-record", "unlink-ticket")
    \/ Unlink(c, "ticket", "unlink-ticket", "unlink-baseline")
    \/ Unlink(c, "baseline", "unlink-baseline", "rmdir")

RemoveDirectory(c) ==
    /\ at[c] = "rmdir" /\ dir[AtPath(c)] = EmptyDirectory
    /\ disk' = [disk EXCEPT ![mem[c].id] = None]
    /\ Goto(c, "failed") /\ Free(c)
    /\ UNCHANGED <<outside, dir, mem, late>>

\* Any step of the rollback may fail; what is left is left.
RollBackFails(c) ==
    /\ at[c] \in {"unlink-record", "unlink-ticket", "unlink-baseline", "rmdir"}
    /\ Goto(c, IF at[c] = "unlink-record" THEN "stuck" ELSE "failed") /\ Free(c)
    /\ UNCHANGED <<outside, disk, dir, mem, late>>

-----------------------------------------------------------------------------
(* resume_ticket_lifecycle up to the controller *)

\* RunOwnership.acquire
Acquire(r, id) ==
    /\ at[r] = "start" /\ MayTakePart /\ disk[id] # None
    /\ mem' = [mem EXCEPT ![r].id = id, ![r].token = disk[id]]
    /\ Goto(r, "record")
    /\ UNCHANGED <<outside, disk, dir, lock, late>>

Reads == {"record", "baseline", "ticket"}

\* read_descendant validates, reads what is at the path by then, and validates again.
BeforeRead(r) ==
    /\ at[r] \in Reads /\ Owned(r)
    /\ Goto(r, [record |-> "read-record", baseline |-> "read-baseline",
                ticket |-> "read-ticket"][at[r]])
    /\ UNCHANGED <<outside, disk, dir, lock, mem, late>>

Read(r, field, step) ==
    /\ at[r] = step
    /\ AtPath(r) # None /\ dir[AtPath(r)][field] # None
    /\ Learn(r, field, dir[AtPath(r)][field])
    /\ Goto(r, [record |-> "after-record", baseline |-> "after-baseline",
                ticket |-> "after-ticket"][field])
    /\ UNCHANGED <<outside, disk, dir, lock, late>>

AfterRead(r) ==
    /\ at[r] \in {"after-record", "after-baseline", "after-ticket"} /\ Owned(r)
    /\ Goto(r, CASE at[r] = "after-record" -> "lock"
                 [] at[r] = "after-baseline" -> "ticket"
                 [] at[r] = "after-ticket" -> "judge")
    /\ UNCHANGED <<outside, disk, dir, lock, mem, late>>

TakeLock(r) ==
    /\ at[r] = "lock"
    /\ IF lock[mem[r].record.repository] = None
       THEN Goto(r, "state") /\ lock' = [lock EXCEPT ![mem[r].record.repository] = r]
       ELSE Goto(r, "refused") /\ UNCHANGED lock
    /\ UNCHANGED <<outside, disk, dir, mem, late>>

\* A terminal record needs no resume.
JudgeState(r) ==
    /\ at[r] = "state" /\ Owned(r)
    /\ IF mem[r].record.terminal
       THEN Goto(r, "done") /\ Free(r)
       ELSE Goto(r, "baseline") /\ UNCHANGED lock
    /\ UNCHANGED <<outside, disk, dir, mem, late>>

\* resume_preflight_problem and resume_problem of a run that is still being prepared.
MayBeDriven(m, w) ==
    /\ m.baseline.base = m.record.base /\ w = m.baseline.base
    /\ m.ticket.text = m.baseline.text

\* A missing or unfitting file makes the run stop for a human.
Judge(r) ==
    \/ /\ at[r] = "judge" /\ Owned(r)
       /\ Goto(r, IF MayBeDriven(mem[r], workspace[mem[r].record.repository])
                  THEN "driving" ELSE "mark")
       /\ UNCHANGED <<outside, disk, dir, lock, mem, late>>
    \/ /\ at[r] \in {"read-baseline", "read-ticket"} /\ Owned(r)
       /\ dir[AtPath(r)][IF at[r] = "read-ticket" THEN "ticket" ELSE "baseline"] = None
       /\ Goto(r, "mark")
       /\ UNCHANGED <<outside, disk, dir, lock, mem, late>>

\* RunOwnershipError, RunError or another exception ends the resume without a write.
ResumeFails(r) ==
    /\ at[r] \in Reads \cup {"read-record", "read-baseline", "read-ticket", "after-record",
                             "after-baseline", "after-ticket", "lock", "state", "judge"}
    /\ Goto(r, "failed-later") /\ Free(r)
    /\ UNCHANGED <<outside, disk, dir, mem, late>>

-----------------------------------------------------------------------------
(* Both *)

\* The run comes to its end and is marked: the record is read and validated as owned, and
\* then written by its path.
EndDrive(p) ==
    /\ at[p] = "driving" /\ Goto(p, "mark")
    /\ UNCHANGED <<outside, disk, dir, lock, mem, late>>

ValidateMark(p) ==
    /\ at[p] = "mark"
    /\ Owned(p) /\ dir[mem[p].token].record # None /\ ~dir[mem[p].token].record.terminal
    /\ Learn(p, "record", dir[mem[p].token].record)
    /\ Goto(p, "write")
    /\ UNCHANGED <<outside, disk, dir, lock, late>>

MarkFails(p) ==
    /\ at[p] \in {"driving", "mark", "write"}
    /\ Goto(p, "failed-later") /\ Free(p)
    /\ UNCHANGED <<outside, disk, dir, mem, late>>

\* atomic_write_json makes the directory anew if it is gone.
WriteMark(p) ==
    LET target == IF AtPath(p) = None THEN p ELSE AtPath(p) IN
    /\ at[p] = "write"
    /\ disk' = [disk EXCEPT ![mem[p].id] = target]
    /\ Write(target, "record", [mem[p].record EXCEPT !.terminal = TRUE])
    /\ Goto(p, "done") /\ Free(p)
    /\ late' = IF AtPath(p) = None THEN late \cup {p} ELSE late
    /\ UNCHANGED <<outside, mem>>

\* The process dies, or an interrupt, which no rollback catches, ends it.
Crash(p) ==
    /\ at[p] \notin {"start", "done", "refused", "failed", "failed-later", "stuck", "crashed"}
    /\ Goto(p, "crashed") /\ Free(p)
    /\ UNCHANGED <<outside, disk, dir, mem, late>>

-----------------------------------------------------------------------------

Complete(by, repository) ==
    [record |-> [by |-> by, repository |-> repository, base |-> "clean", terminal |-> FALSE],
     ticket |-> [by |-> by, text |-> "first"],
     baseline |-> [by |-> by, base |-> "clean", text |-> "first"]]

\* One directory of an earlier run may have a name that a new run would take.
Init ==
    /\ ticket = "first" /\ workspace = [r \in Repositories |-> "clean"]
    /\ disk \in [Ids -> {None, "old"}]
    /\ \A i, j \in Ids : disk[i] = "old" /\ disk[j] = "old" => i = j
    /\ \E r \in Repositories :
          dir = [m \in Makers |-> IF m \in Controllers THEN EmptyDirectory ELSE Complete(m, r)]
    /\ lock = [r \in Repositories |-> None]
    /\ at = [p \in Controllers |-> "start"]
    /\ mem = [p \in Controllers |-> Knows]
    /\ away = None /\ restored = FALSE /\ late = {}

Create(c) ==
    \/ Start(c) \/ ReadTicket(c) \/ Preflight(c) \/ CaptureBaseline(c) \/ NothingCreated(c)
    \/ \E id \in Ids : Reserve(c, id)
    \/ Bind(c) \/ ReserveFails(c) \/ BeforeWrite(c)
    \/ SaveRecord(c) \/ CopyTicket(c) \/ SyncTicket(c) \/ UndoTicket(c) \/ SaveBaseline(c)
    \/ Made(c) \/ CreationRaises(c) \/ RollBack(c) \/ RemoveDirectory(c) \/ RollBackFails(c)

Resume(r) ==
    \/ \E id \in Ids : Acquire(r, id)
    \/ BeforeRead(r) \/ AfterRead(r) \/ TakeLock(r) \/ JudgeState(r) \/ Judge(r) \/ ResumeFails(r)
    \/ Read(r, "record", "read-record") \/ Read(r, "baseline", "read-baseline")
    \/ Read(r, "ticket", "read-ticket")

Next ==
    \/ EditTicket \/ \E r \in Repositories : EditRepository(r)
    \/ \E id \in Ids : Replace(id) \/ PutBack(id)
    \/ \E c \in Creators : Create(c)
    \/ \E r \in Resumers : Resume(r)
    \/ \E p \in Controllers : EndDrive(p) \/ ValidateMark(p) \/ WriteMark(p) \/ MarkFails(p)
                               \/ Crash(p)

Spec == Init /\ [][Next]_vars

-----------------------------------------------------------------------------
(* Properties *)

Steps == {"start", "ticket", "preflight", "baseline", "reserve", "bind", "record",
          "write-record", "copy", "write-ticket", "sync", "raised", "save", "write-baseline",
          "made", "unlink-record", "unlink-ticket", "unlink-baseline", "rmdir", "refused",
          "failed", "stuck", "crashed", "read-record", "after-record", "lock", "state",
          "read-baseline", "after-baseline", "read-ticket", "after-ticket", "judge", "driving",
          "mark", "write", "done", "failed-later"}
\* Texts, directories and what the controllers know have their types, and no directory is at
\* two paths, nor away and at a path.
TypeOK ==
    /\ ticket \in Texts /\ workspace \in [Repositories -> Workspaces]
    /\ disk \in [Ids -> Makers \cup {None}] /\ away \in Makers \cup {None}
    /\ \A i, j \in Ids : disk[i] = disk[j] /\ disk[i] # None => i = j
    /\ \A i \in Ids : disk[i] = away => away = None
    /\ dir \in [Makers -> Directories]
    /\ lock \in [Repositories -> Controllers \cup {None}]
    /\ at \in [Controllers -> Steps] /\ mem \in [Controllers -> Knowledge]
    /\ restored \in BOOLEAN /\ late \subseteq Makers

\* A run is only driven, by the controller that made it or by one that resumes it, with
\* all of its files, and the files fit: a creation that died half-way, a ticket edited
\* while it was copied or a repository that moved on does not get past this point.
DrivenRunIsWhole ==
    \A p \in Controllers : at[p] = "driving" =>
        /\ mem[p].record # None /\ mem[p].ticket # None /\ mem[p].baseline # None
        /\ mem[p].ticket.text = mem[p].baseline.text
        /\ mem[p].record.base = mem[p].baseline.base
        /\ mem[p].baseline.base # "dirty"

\* architecture.md:87-90, release-notes.md:25: what a controller drives a run by was read from
\* the directory its token is bound to, also if another directory took its place meanwhile.
\* Not so if a directory was put back, which the two looks of read_descendant do not notice,
\* nor in a directory that somebody else wrote to because it came to a path after a look.
OwnEvidenceOnly ==
    ~restored => \A p \in Controllers : at[p] = "driving" /\ mem[p].token \notin late =>
        {mem[p].record.by, mem[p].ticket.by, mem[p].baseline.by} = {mem[p].token}

\* test_snapshot_persistence_failure_does_not_leave_listed_partial_run: a creation that
\* raised has left no record at its path that status would list or resume would load,
\* whatever step of the rollback failed after the first, unless a directory was put back or
\* a mark that had looked before the creation is written into it.
FailedIsNotListed ==
    ~restored => \A c \in Creators \ late, id \in Ids :
        at[c] = "failed" /\ disk[id] = c => dir[c].record = None

Creating(c) == at[c] \in {"bind", "record", "write-record", "copy", "write-ticket", "sync",
                          "raised", "save", "write-baseline", "made", "unlink-record",
                          "unlink-ticket", "unlink-baseline", "rmdir"}
Whole(m) == /\ None \notin {dir[m].record, dir[m].ticket, dir[m].baseline}
            /\ dir[m].record.by = m

\* runs.py:750-751, test_existing_run_directories_are_not_silently_clobbered: no creation,
\* rollback or mark takes a file of a complete run, puts another run's record into it or
\* changes its ticket or baseline, wherever the run is moved. The looks cannot help a run
\* that comes to a path between a look and the act that follows it, and a creation may take
\* its own run apart.
CompleteRunIsKept ==
    [][\A m \in Makers : Whole(m) /\ m \notin late /\ (m \in Creators => ~Creating(m)) =>
          Whole(m)' /\ dir'[m].ticket = dir[m].ticket /\ dir'[m].baseline = dir[m].baseline]_vars
=============================================================================
