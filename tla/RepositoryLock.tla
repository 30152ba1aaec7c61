--------------------------- MODULE RepositoryLock ---------------------------
(***************************************************************************)
(* The lock of one target repository (locking.py): an operating system     *)
(* lock on repository-<digest>.lock, which dies with its process, and the  *)
(* metadata file beside it, which does not.  Runs own the lock; preflight  *)
(* and the status command find out who does by trying to take it.          *)
(***************************************************************************)
EXTENDS Naturals

CONSTANTS
    Processes,     \* processes of the program on this machine
    Nobody,        \* null: the lock is free, no metadata file, nothing read
    MaxCrashes     \* exploration bound: processes that die

ASSUME ProcessesAssumption == Nobody \notin Processes

ASSUME CrashesAssumption == MaxCrashes \in Nat

VARIABLES
    lock,       \* the process holding the operating system lock
    metadata,   \* what repository-<digest>.json says
    pc,         \* where each process is
    read,       \* the metadata a process has last read
    crashes

vars == <<lock, metadata, pc, read, crashes>>

\* RepositoryLockMetadata: PENDING until the owner knows its run.
Metadata    == [owner : Processes, run : {"PENDING", "RUN"}]
NoMetadata  == [owner |-> Nobody, run |-> "PENDING"]

MetadataOf(p, run) == [owner |-> p, run |-> run]

ControlPoints ==
    {"idle", "refused", "documenting", "owning", "unlocking", "listed", "probing"}

\* A run owns the repository from the lock it got until it gives it back.
OwningPoints == {"documenting", "owning", "unlocking"}
LockPoints   == OwningPoints \cup {"probing"}

\* The lock, its metadata and where the processes are have their types.
TypeOK ==
    /\ lock \in Processes \cup {Nobody}
    /\ metadata \in Metadata \cup {NoMetadata}
    /\ pc \in [Processes -> ControlPoints]
    /\ read \in [Processes -> Metadata \cup {NoMetadata}]
    /\ crashes \in Nat

Init ==
    /\ lock = Nobody
    /\ metadata = NoMetadata
    /\ pc = [p \in Processes |-> "idle"]
    /\ read = [p \in Processes |-> NoMetadata]
    /\ crashes = 0

Goto(p, point) == pc' = [pc EXCEPT ![p] = point]

-----------------------------------------------------------------------------
(* A run: acquire_repository_run_lock, RepositoryRunLock *)

\* Mutant: the operating system lock is not asked for.
BugAcquire(p) ==
    /\ pc[p] = "idle"
    /\ lock' = p
    /\ Goto(p, "documenting")
    /\ UNCHANGED <<metadata, read, crashes>>

\* _try_lock_file succeeds.
Acquire(p) ==
    /\ pc[p] = "idle"
    /\ lock = Nobody
    /\ lock' = p
    /\ Goto(p, "documenting")
    /\ UNCHANGED <<metadata, read, crashes>>

\* _try_lock_file fails: RepositoryLockError will say who owns the repository.
Refuse(p) ==
    /\ pc[p] = "idle"
    /\ lock # Nobody
    /\ Goto(p, "refused")
    /\ UNCHANGED <<lock, metadata, read, crashes>>

FormatLockError(p) ==
    /\ pc[p] = "refused"
    /\ read' = [read EXCEPT ![p] = metadata]
    /\ Goto(p, "idle")
    /\ UNCHANGED <<lock, metadata, crashes>>

\* Mutant: a metadata write that fails leaves the handle open.
BugDocument(p) ==
    /\ pc[p] = "documenting"
    /\ \/ /\ metadata' = MetadataOf(p, "PENDING")
          /\ Goto(p, "owning")
       \/ /\ UNCHANGED metadata
          /\ Goto(p, "idle")
    /\ UNCHANGED <<lock, read, crashes>>

\* The constructor's update.  When the write raises, before or after the file
\* was replaced, closing the handle gives the lock back.
Document(p) ==
    /\ pc[p] = "documenting"
    /\ \/ /\ metadata' = MetadataOf(p, "PENDING")
          /\ Goto(p, "owning")
          /\ UNCHANGED lock
       \/ /\ metadata' \in {metadata, MetadataOf(p, "PENDING")}
          /\ Goto(p, "idle")
          /\ lock' = Nobody
    /\ UNCHANGED <<read, crashes>>

Update(p) ==
    /\ pc[p] = "owning"
    /\ metadata' = MetadataOf(p, "RUN")
    /\ UNCHANGED <<lock, pc, read, crashes>>

\* Mutant: the lock goes first, then the metadata.
BugRelease(p) ==
    \/ /\ pc[p] = "owning"
       /\ lock' = Nobody
       /\ Goto(p, "unlocking")
       /\ UNCHANGED <<metadata, read, crashes>>
    \/ /\ pc[p] = "unlocking"
       /\ metadata' \in {metadata, NoMetadata}
       /\ Goto(p, "idle")
       /\ UNCHANGED <<lock, read, crashes>>

\* release: the metadata goes first, unless it cannot be removed; the lock goes
\* in any case.
Release(p) ==
    \/ /\ pc[p] = "owning"
       /\ metadata' \in {metadata, NoMetadata}
       /\ Goto(p, "unlocking")
       /\ UNCHANGED <<lock, read, crashes>>
    \/ /\ pc[p] = "unlocking"
       /\ lock' = Nobody
       /\ Goto(p, "idle")
       /\ UNCHANGED <<metadata, read, crashes>>

-----------------------------------------------------------------------------
(* active_repository_locks, for the status command and for preflight *)

\* Only a lock with metadata is looked at.
ReadMetadata(p) ==
    /\ pc[p] = "idle"
    /\ metadata # NoMetadata
    /\ read' = [read EXCEPT ![p] = metadata]
    /\ Goto(p, "listed")
    /\ UNCHANGED <<lock, metadata, crashes>>

\* _lock_is_currently_held: nobody has the lock if it can be taken, and then it
\* is given back at once; else what was read is reported as active.
Probe(p) ==
    /\ pc[p] = "listed"
    /\ IF lock = Nobody
       THEN /\ lock' = p
            /\ Goto(p, "probing")
       ELSE /\ Goto(p, "idle")
            /\ UNCHANGED lock
    /\ UNCHANGED <<metadata, read, crashes>>

EndProbe(p) ==
    /\ pc[p] = "probing"
    /\ lock' = Nobody
    /\ Goto(p, "idle")
    /\ UNCHANGED <<metadata, read, crashes>>

-----------------------------------------------------------------------------
\* The operating system drops the lock of a process that is gone.
Crash(p) ==
    /\ pc[p] # "idle"
    /\ crashes < MaxCrashes
    /\ crashes' = crashes + 1
    /\ lock' = IF lock = p THEN Nobody ELSE lock
    /\ Goto(p, "idle")
    /\ UNCHANGED <<metadata, read>>

Step(p) ==
    \/ FormatLockError(p) \/ Document(p) \/ Release(p)
    \/ Probe(p) \/ EndProbe(p)

Next ==
    \E p \in Processes :
       \/ Acquire(p) \/ Refuse(p) \/ Update(p) \/ ReadMetadata(p)
       \/ Step(p) \/ Crash(p)

Spec == Init /\ [][Next]_vars

\* A process that has begun something goes on with it; a run ends.
FairSpec == Spec /\ \A p \in Processes : WF_vars(Step(p))

-----------------------------------------------------------------------------
(* Properties *)

\* At most one process is past _try_lock_file at any time, run or probe
\* (test_concurrent_acquisition_allows_only_one_owner, for any number of them).
MutualExclusion ==
    \A p, q \in Processes :
        pc[p] \in LockPoints /\ pc[q] \in LockPoints => p = q

\* While a run owns the repository the metadata names it: nobody else's release,
\* failed acquire or death removes or overwrites the file (RepositoryRunLock).
OwnerIsDocumented ==
    \A p \in Processes : pc[p] = "owning" => metadata.owner = p

\* A run that is killed, or whose metadata cannot be written or removed, does
\* not strand the repository: whoever holds the lock gives it back
\* (test_process_death_does_not_permanently_strand_repository).
NeverStranded == \A p \in Processes : lock = p ~> lock # p

=============================================================================
