------------------------ MODULE RepositoryLockProofs ------------------------
(***************************************************************************)
(* Mutual exclusion and the ownership metadata of the repository lock, for *)
(* any set of processes and any number of deaths.                          *)
(***************************************************************************)
EXTENDS RepositoryLock, TLAPS

\* What MutualExclusion needs to be inductive: the lock's holder and the
\* processes past _try_lock_file are the same.
HolderIsInside == \A p \in Processes : pc[p] \in LockPoints <=> lock = p

LockInv == TypeOK /\ HolderIsInside /\ OwnerIsDocumented

LEMMA InitLockInv == Init => LockInv
BY ProcessesAssumption
   DEF Init, LockInv, TypeOK, HolderIsInside, OwnerIsDocumented, LockPoints,
       OwningPoints, ControlPoints, NoMetadata

LEMMA NextLockInv == LockInv /\ [Next]_vars => LockInv'
<1> SUFFICES ASSUME LockInv, [Next]_vars PROVE LockInv'
  OBVIOUS
<1> USE ProcessesAssumption
    DEF LockInv, TypeOK, HolderIsInside, OwnerIsDocumented, LockPoints, OwningPoints,
        ControlPoints, Metadata, NoMetadata, MetadataOf, Goto
<1>1. ASSUME NEW p \in Processes, Acquire(p) PROVE LockInv'
  BY <1>1 DEF Acquire
<1>2. ASSUME NEW p \in Processes, Refuse(p) PROVE LockInv'
  BY <1>2 DEF Refuse
<1>3. ASSUME NEW p \in Processes, FormatLockError(p) PROVE LockInv'
  BY <1>3 DEF FormatLockError
<1>4. ASSUME NEW p \in Processes, Document(p) PROVE LockInv'
  BY <1>4 DEF Document
<1>5. ASSUME NEW p \in Processes, Update(p) PROVE LockInv'
  BY <1>5 DEF Update
<1>6. ASSUME NEW p \in Processes, Release(p) PROVE LockInv'
  BY <1>6 DEF Release
<1>7. ASSUME NEW p \in Processes, ReadMetadata(p) PROVE LockInv'
  BY <1>7 DEF ReadMetadata
<1>8. ASSUME NEW p \in Processes, Probe(p) PROVE LockInv'
  BY <1>8 DEF Probe
<1>9. ASSUME NEW p \in Processes, EndProbe(p) PROVE LockInv'
  BY <1>9 DEF EndProbe
<1>10. ASSUME NEW p \in Processes, Crash(p) PROVE LockInv'
  BY <1>10 DEF Crash
<1>11. CASE UNCHANGED vars
  BY <1>11 DEF vars
<1> QED
  BY <1>1, <1>2, <1>3, <1>4, <1>5, <1>6, <1>7, <1>8, <1>9, <1>10, <1>11 DEF Next, Step

LEMMA LockInvariant == Spec => []LockInv
BY InitLockInv, NextLockInv, PTL DEF Spec

\* However many processes start runs, list locks or die, the lock's state stays
\* within its types (locking.py).
THEOREM LockTypeCorrect == Spec => []TypeOK
<1>1. LockInv => TypeOK
  BY DEF LockInv
<1> QED
  BY <1>1, LockInvariant, PTL

\* Only one process at a time runs or probes on a repository
\* (acquire_repository_run_lock, _lock_is_currently_held).
THEOREM LockIsExclusive == Spec => []MutualExclusion
<1>1. LockInv => MutualExclusion
  BY DEF LockInv, HolderIsInside, MutualExclusion
<1> QED
  BY <1>1, LockInvariant, PTL

\* The metadata beside a lock names the run that owns it, from the constructor's
\* update until release removes it (RepositoryRunLock.update and release).
THEOREM LockOwnerDocumented == Spec => []OwnerIsDocumented
<1>1. LockInv => OwnerIsDocumented
  BY DEF LockInv
<1> QED
  BY <1>1, LockInvariant, PTL
=============================================================================
