--------------------------- MODULE StateLocksProofs ---------------------------
(***************************************************************************)
(* Proofs about StateLocks: what a reader remembers is what the kernel     *)
(* holds for it, nothing leaks, no unreadable lock file is passed over,    *)
(* and where the lock files exist a reader with its locks is protected.    *)
(***************************************************************************)
EXTENDS StateLocks, TLAPS

-----------------------------------------------------------------------------
(* Types                                                                   *)

(***************************************************************************)
(* The path under consideration is one of the lock files.                  *)
(***************************************************************************)
LEMMA PathTyped ==
  ASSUME NEW r \in Readers, NEW i \in DOMAIN Requested[r]
  PROVE  Requested[r][i] \in Paths /\ i \in Nat \ {0} /\ i <= Len(Requested[r])
BY LockAssumption

(***************************************************************************)
(* A position that is no index is past the last one.                       *)
(***************************************************************************)
LEMMA PastTheEnd ==
  ASSUME NEW r \in Readers, NEW n \in Nat \ {0}, n \notin DOMAIN Requested[r],
         NEW i \in DOMAIN Requested[r]
  PROVE  i < n
BY LockAssumption

(***************************************************************************)
(* One step of the lock protocol preserves the types.                      *)
(***************************************************************************)
LEMMA TypeStep == LocksTypeOK /\ [LocksNext]_lockVars => LocksTypeOK'
<1> SUFFICES ASSUME LocksTypeOK, [LocksNext]_lockVars
             PROVE  LocksTypeOK'
  OBVIOUS
<1> USE DEF LocksTypeOK
<1>1. ASSUME NEW r \in Readers, Observe(r) \/ Finish(r) \/ ContextDone(r)
      PROVE  LocksTypeOK'
  BY <1>1 DEF Observe, Finish, ContextDone, ReaderState, readerVars, writerVars
<1>2. ASSUME NEW r \in Readers, Acquire(r)
      PROVE  LocksTypeOK'
  <2>1. CASE SkipDuplicate(r) \/ OpenMissing(r)
    BY <2>1 DEF SkipDuplicate, OpenMissing, writerVars
  <2>2. CASE FailDone(r) \/ OpenFails(r) \/ Open(r) \/ Conflict(r) \/ LockFails(r)
    BY <2>2 DEF FailDone, OpenFails, Open, Conflict, LockFails, ReaderState, writerVars
  <2>3. CASE Retry(r) \/ GiveUp(r) \/ AllObserved(r)
    BY <2>3 DEF Retry, GiveUp, AllObserved, ReaderState, writerVars
  <2>4. CASE Grant(r)
    <3>1. shared' \in [Paths -> SUBSET (Readers \X (Nat \ {0}))]
      <4> DEFINE D == Readers \X (Nat \ {0})
      <4>1. <<r, pos[r]>> \in D
        OBVIOUS
      <4>2. shared \in [Paths -> SUBSET D]
        OBVIOUS
      <4> HIDE DEF D, LocksTypeOK
      <4>3. [shared EXCEPT ![PathOf(r)] = @ \cup {<<r, pos[r]>>}] \in [Paths -> SUBSET D]
        BY <4>1, <4>2
      <4>4. QED
        BY <2>4, <4>3 DEF Grant, D
    <3>2. held' \in [Readers -> SUBSET (Nat \ {0})]
      BY <2>4 DEF Grant
    <3>3. QED
      BY <2>4, <3>1, <3>2 DEF Grant, ReaderState, writerVars
  <2>5. QED
    BY <1>2, <2>1, <2>2, <2>3, <2>4 DEF Acquire
<1>3. ASSUME NEW r \in Readers, Release(r)
      PROVE  LocksTypeOK'
  <2>1. CASE ReleaseLast(r)
    <3>1. PICK i \in held[r] :
            /\ shared' = [shared EXCEPT ![Requested[r][i]] = @ \ {<<r, i>>}]
            /\ held' = [held EXCEPT ![r] = @ \ {i}]
      BY <2>1 DEF ReleaseLast
    <3>2. shared' \in [Paths -> SUBSET (Readers \X (Nat \ {0}))]
      <4> DEFINE D == Readers \X (Nat \ {0})
      <4>1. shared \in [Paths -> SUBSET D]
        OBVIOUS
      <4> HIDE DEF D, LocksTypeOK
      <4>2. [shared EXCEPT ![Requested[r][i]] = @ \ {<<r, i>>}] \in [Paths -> SUBSET D]
        BY <4>1
      <4>3. QED
        BY <3>1, <4>2 DEF D
    <3>3. held' \in [Readers -> SUBSET (Nat \ {0})]
      BY <3>1
    <3>4. QED
      BY <2>1, <3>2, <3>3 DEF ReleaseLast, writerVars
  <2>2. CASE Released(r)
    BY <2>2 DEF Released, ReaderState, writerVars
  <2>3. QED
    BY <1>3, <2>1, <2>2 DEF Release
<1>4. ASSUME NEW w \in Writers, WriterBegin(w)
      PROVE  LocksTypeOK'
  BY <1>4, LockAssumption DEF WriterBegin, readerVars
<1>5. ASSUME NEW w \in Writers, WriterRun(w)
      PROVE  LocksTypeOK'
  <2>1. CASE WriterOpen(w)
    BY <2>1 DEF WriterOpen, FileKind, readerVars
  <2>2. CASE WriterLock(w)
    <3>1. excl' \in [Paths -> Writers \cup {Free}]
      BY <2>2 DEF WriterLock
    <3>2. wpos' \in [Writers -> Nat] /\ wpc' \in [Writers -> {"idle", "opening", "waiting", "unlocking"}]
      BY <2>2 DEF WriterLock
    <3>3. QED
      BY <2>2, <3>1, <3>2 DEF WriterLock, readerVars
  <2>3. CASE WriterCommit(w)
    BY <2>3 DEF WriterCommit, readerVars
  <2>4. CASE WriterUnlock(w)
    <3>1. CASE wpos[w] = 0
      BY <2>4, <3>1 DEF WriterUnlock, readerVars
    <3>2. CASE wpos[w] # 0
      <4>1. wpos[w] - 1 \in Nat
        BY <3>2
      <4>2. wpos' \in [Writers -> Nat]
        BY <2>4, <3>2, <4>1 DEF WriterUnlock
      <4>3. excl' \in [Paths -> Writers \cup {Free}]
        BY <2>4, <3>2 DEF WriterUnlock
      <4>4. QED
        BY <2>4, <3>2, <4>2, <4>3 DEF WriterUnlock, readerVars
    <3>3. QED
      BY <3>1, <3>2
  <2>5. QED
    BY <1>5, <2>1, <2>2, <2>3, <2>4 DEF WriterRun
<1>6. CASE UNCHANGED lockVars
  BY <1>6 DEF lockVars
<1>7. QED
  BY <1>1, <1>2, <1>3, <1>4, <1>5, <1>6 DEF LocksNext, Idle

(***************************************************************************)
(* The lock protocol is type correct.                                      *)
(***************************************************************************)
THEOREM LocksTypeCorrect == LocksSpec => []LocksTypeOK
<1>1. LocksInit => LocksTypeOK
  BY LockAssumption DEF LocksInit, LocksTypeOK, ReaderState
<1>2. QED
  BY <1>1, TypeStep, PTL DEF LocksSpec

-----------------------------------------------------------------------------
(* The invariant                                                           *)

(***************************************************************************)
(* What a reader remembers are indices of its own paths that it has        *)
(* passed; it remembers none before its call and after its return.         *)
(***************************************************************************)
PassedOnly ==
  \A r \in Readers :
    /\ \A i \in held[r] : i \in DOMAIN Requested[r] /\ i < pos[r]
    /\ rpc[r] \in {"idle", "failed", "done"} => held[r] = {}

(***************************************************************************)
(* A reader starts at its first path, is at one of its paths while it      *)
(* works on it, and has passed all of them when it has its locks.          *)
(***************************************************************************)
InRange ==
  \A r \in Readers :
    /\ rpc[r] = "idle" => pos[r] = 1
    /\ rpc[r] \in {"trying", "sleeping"} => pos[r] \in DOMAIN Requested[r]
    /\ rpc[r] = "locked" => pos[r] \notin DOMAIN Requested[r]

(***************************************************************************)
(* A shared lock and an exclusive one exclude each other.                  *)
(***************************************************************************)
Exclusion == \A p \in Paths : shared[p] # {} => excl[p] = Free

(***************************************************************************)
(* No path that a reader has passed on its way to its locks is one that    *)
(* cannot be read or locked.                                               *)
(***************************************************************************)
Acquiring(r) == rpc[r] \in {"next", "trying", "sleeping", "locked"}

PassedAreUsable ==
  \A r \in Readers : Acquiring(r) =>
    \A i \in DOMAIN Requested[r] : i < pos[r] =>
       file[Requested[r][i]] \notin {"unreadable", "broken"}

LockInv ==
  LocksTypeOK /\ PassedOnly /\ InRange /\ Exclusion /\ HeldIsLocked /\ PassedAreUsable

(***************************************************************************)
(* A step preserves PassedOnly: an index is remembered when its path is    *)
(* granted and the reader goes past it, and a reader returns only when     *)
(* nothing is left to release.                                             *)
(***************************************************************************)
LEMMA PassedOnlyStep == LockInv /\ [LocksNext]_lockVars => PassedOnly'
<1> SUFFICES ASSUME LocksTypeOK, PassedOnly, InRange, [LocksNext]_lockVars
             PROVE  PassedOnly'
  BY DEF LockInv
<1> USE DEF LocksTypeOK, PassedOnly
<1>1. ASSUME NEW r \in Readers, Observe(r) \/ Finish(r) \/ ContextDone(r)
      PROVE  PassedOnly'
  BY <1>1 DEF Observe, Finish, ContextDone, readerVars
<1>2. ASSUME NEW r \in Readers, Acquire(r)
      PROVE  PassedOnly'
  <2>1. CASE SkipDuplicate(r) \/ OpenMissing(r)
    BY <2>1 DEF SkipDuplicate, OpenMissing, AtPath
  <2>2. CASE FailDone(r) \/ OpenFails(r) \/ Open(r) \/ Conflict(r) \/ LockFails(r)
    BY <2>2 DEF FailDone, OpenFails, Open, Conflict, LockFails, AtPath
  <2>3. CASE Retry(r) \/ GiveUp(r) \/ AllObserved(r)
    BY <2>3 DEF Retry, GiveUp, AllObserved
  <2>4. CASE Grant(r)
    BY <2>4 DEF Grant, InRange
  <2>5. QED
    BY <1>2, <2>1, <2>2, <2>3, <2>4 DEF Acquire
<1>3. ASSUME NEW r \in Readers, Release(r)
      PROVE  PassedOnly'
  BY <1>3 DEF Release, ReleaseLast, Released
<1>4. ASSUME NEW w \in Writers, WriterBegin(w) \/ WriterRun(w)
      PROVE  PassedOnly'
  BY <1>4 DEF WriterBegin, WriterRun, WriterOpen, WriterLock, WriterCommit, WriterUnlock, readerVars
<1>5. CASE UNCHANGED lockVars
  BY <1>5 DEF lockVars
<1>6. QED
  BY <1>1, <1>2, <1>3, <1>4, <1>5 DEF LocksNext, Idle

(***************************************************************************)
(* A step preserves InRange: Open finds a path, AllObserved finds none.    *)
(***************************************************************************)
LEMMA InRangeStep == LockInv /\ [LocksNext]_lockVars => InRange'
<1> SUFFICES ASSUME LocksTypeOK, InRange, [LocksNext]_lockVars
             PROVE  InRange'
  BY DEF LockInv
<1> USE DEF LocksTypeOK, InRange
<1>1. ASSUME NEW r \in Readers, Observe(r) \/ Finish(r) \/ ContextDone(r)
      PROVE  InRange'
  BY <1>1 DEF Observe, Finish, ContextDone, readerVars
<1>2. ASSUME NEW r \in Readers, Acquire(r)
      PROVE  InRange'
  <2>1. CASE SkipDuplicate(r) \/ OpenMissing(r) \/ Grant(r)
    BY <2>1 DEF SkipDuplicate, OpenMissing, Grant, AtPath
  <2>2. CASE FailDone(r) \/ OpenFails(r) \/ Open(r) \/ Conflict(r) \/ LockFails(r)
    BY <2>2 DEF FailDone, OpenFails, Open, Conflict, LockFails, AtPath
  <2>3. CASE Retry(r) \/ GiveUp(r) \/ AllObserved(r)
    BY <2>3 DEF Retry, GiveUp, AllObserved
  <2>4. QED
    BY <1>2, <2>1, <2>2, <2>3 DEF Acquire
<1>3. ASSUME NEW r \in Readers, Release(r)
      PROVE  InRange'
  BY <1>3 DEF Release, ReleaseLast, Released
<1>4. ASSUME NEW w \in Writers, WriterBegin(w) \/ WriterRun(w)
      PROVE  InRange'
  BY <1>4 DEF WriterBegin, WriterRun, WriterOpen, WriterLock, WriterCommit, WriterUnlock, readerVars
<1>5. CASE UNCHANGED lockVars
  BY <1>5 DEF lockVars
<1>6. QED
  BY <1>1, <1>2, <1>3, <1>4, <1>5 DEF LocksNext, Idle

(***************************************************************************)
(* A step preserves Exclusion: a shared lock is granted when no writer has *)
(* the file, an exclusive one when no reader has.                          *)
(***************************************************************************)
LEMMA ExclusionStep == LockInv /\ [LocksNext]_lockVars => Exclusion'
<1> SUFFICES ASSUME LocksTypeOK, Exclusion, [LocksNext]_lockVars
             PROVE  Exclusion'
  BY DEF LockInv
<1> USE DEF LocksTypeOK, Exclusion
<1>1. ASSUME NEW r \in Readers, Observe(r) \/ Finish(r) \/ ContextDone(r)
      PROVE  Exclusion'
  BY <1>1 DEF Observe, Finish, ContextDone
<1>2. ASSUME NEW r \in Readers, Acquire(r)
      PROVE  Exclusion'
  <2>1. CASE UNCHANGED <<shared, excl>>
    BY <2>1
  <2>2. CASE Grant(r)
    BY <2>2 DEF Grant
  <2>3. QED
    BY <1>2, <2>1, <2>2 DEF Acquire, SkipDuplicate, FailDone, OpenMissing, OpenFails, Open,
       Conflict, LockFails, Retry, GiveUp, AllObserved
<1>3. ASSUME NEW r \in Readers, Release(r)
      PROVE  Exclusion'
  BY <1>3 DEF Release, ReleaseLast, Released
<1>4. ASSUME NEW w \in Writers, WriterBegin(w) \/ WriterRun(w)
      PROVE  Exclusion'
  <2>1. CASE UNCHANGED <<shared, excl>>
    BY <2>1
  <2>2. CASE WriterLock(w)
    BY <2>2 DEF WriterLock
  <2>3. CASE WriterUnlock(w)
    BY <2>3 DEF WriterUnlock
  <2>4. QED
    BY <1>4, <2>1, <2>2, <2>3 DEF WriterBegin, WriterRun, WriterOpen, WriterCommit
<1>5. CASE UNCHANGED lockVars
  BY <1>5 DEF lockVars
<1>6. QED
  BY <1>1, <1>2, <1>3, <1>4, <1>5 DEF LocksNext, Idle

(***************************************************************************)
(* A step preserves HeldIsLocked: only a grant adds to both sides and only *)
(* a release, of one description, takes from both.                         *)
(***************************************************************************)
LEMMA HeldIsLockedStep == LockInv /\ [LocksNext]_lockVars => HeldIsLocked'
<1> SUFFICES ASSUME LocksTypeOK, PassedOnly, InRange, HeldIsLocked, [LocksNext]_lockVars
             PROVE  HeldIsLocked'
  BY DEF LockInv
<1>1. ASSUME UNCHANGED <<shared, held>>
      PROVE  HeldIsLocked'
  BY <1>1 DEF HeldIsLocked
<1>2. ASSUME NEW r \in Readers, Grant(r)
      PROVE  HeldIsLocked'
  <2>1. PathOf(r) \in Paths /\ pos[r] \in Nat
    BY <1>2, PathTyped DEF Grant, InRange, PathOf, LocksTypeOK
  <2>2. ASSUME NEW p \in Paths, NEW d \in shared'[p]
        PROVE  d[2] \in held'[d[1]] /\ Requested[d[1]][d[2]] = p
    <3>1. CASE d \in shared[p]
      <4>1. d[1] \in Readers /\ d[2] \in held[d[1]] /\ Requested[d[1]][d[2]] = p
        BY <3>1 DEF HeldIsLocked, LocksTypeOK
      <4>2. QED
        BY <1>2, <4>1 DEF Grant, LocksTypeOK
    <3>2. CASE p = PathOf(r) /\ d = <<r, pos[r]>>
      BY <1>2, <3>2 DEF Grant, LocksTypeOK, PathOf
    <3>3. QED
      BY <1>2, <2>2, <3>1, <3>2 DEF Grant, LocksTypeOK
  <2>3. ASSUME NEW q \in Readers, NEW i \in held'[q]
        PROVE  <<q, i>> \in shared'[Requested[q][i]]
    <3>1. CASE i \in held[q]
      <4>1. <<q, i>> \in shared[Requested[q][i]] /\ Requested[q][i] \in Paths
        BY <3>1, PathTyped DEF HeldIsLocked, PassedOnly
      <4>2. QED
        BY <1>2, <4>1 DEF Grant, LocksTypeOK
    <3>2. CASE q = r /\ i = pos[r]
      BY <1>2, <2>1, <3>2 DEF Grant, LocksTypeOK, PathOf
    <3>3. QED
      BY <1>2, <2>3, <3>1, <3>2 DEF Grant, LocksTypeOK
  <2>4. QED
    BY <2>2, <2>3 DEF HeldIsLocked
<1>3. ASSUME NEW r \in Readers, ReleaseLast(r)
      PROVE  HeldIsLocked'
  <2>1. PICK i \in held[r] :
          /\ shared' = [shared EXCEPT ![Requested[r][i]] = @ \ {<<r, i>>}]
          /\ held' = [held EXCEPT ![r] = @ \ {i}]
    BY <1>3 DEF ReleaseLast
  <2>2. Requested[r][i] \in Paths
    BY PathTyped DEF PassedOnly
  <2>3. ASSUME NEW p \in Paths, NEW d \in shared'[p]
        PROVE  d[2] \in held'[d[1]] /\ Requested[d[1]][d[2]] = p
    <3>1. d \in shared[p]
      BY <2>1, <2>3 DEF LocksTypeOK
    <3>2. d[1] \in Readers /\ d[2] \in held[d[1]] /\ Requested[d[1]][d[2]] = p
      BY <3>1 DEF HeldIsLocked, LocksTypeOK
    <3>3. d = <<d[1], d[2]>>
      BY <3>1 DEF LocksTypeOK
    <3>4. CASE d[1] = r /\ d[2] = i
      BY <2>1, <2>2, <2>3, <3>2, <3>3, <3>4 DEF LocksTypeOK
    <3>5. CASE d[1] # r \/ d[2] # i
      BY <2>1, <3>2, <3>5 DEF LocksTypeOK
    <3>6. QED
      BY <3>4, <3>5
  <2>4. ASSUME NEW q \in Readers, NEW j \in held'[q]
        PROVE  <<q, j>> \in shared'[Requested[q][j]]
    <3>1. j \in held[q] /\ <<q, j>> # <<r, i>>
      BY <2>1, <2>4 DEF LocksTypeOK
    <3>2. <<q, j>> \in shared[Requested[q][j]] /\ Requested[q][j] \in Paths
      BY <3>1, PathTyped DEF HeldIsLocked, PassedOnly
    <3>3. QED
      BY <2>1, <3>1, <3>2 DEF LocksTypeOK
  <2>5. QED
    BY <2>3, <2>4 DEF HeldIsLocked
<1>4. ASSUME NEW r \in Readers,
             Observe(r) \/ Acquire(r) \/ Finish(r) \/ Release(r) \/ ContextDone(r)
      PROVE  HeldIsLocked'
  BY <1>4, <1>1, <1>2, <1>3 DEF Observe, Finish, ContextDone, Release, Released, Acquire,
     SkipDuplicate, FailDone, OpenMissing, OpenFails, Open, Conflict, LockFails, Retry, GiveUp,
     AllObserved, readerVars
<1>5. ASSUME NEW w \in Writers, WriterBegin(w) \/ WriterRun(w)
      PROVE  HeldIsLocked'
  BY <1>5, <1>1 DEF WriterBegin, WriterRun, WriterOpen, WriterLock, WriterCommit, WriterUnlock,
     readerVars
<1>6. CASE UNCHANGED lockVars
  BY <1>1, <1>6 DEF lockVars
<1>7. QED
  BY <1>4, <1>5, <1>6 DEF LocksNext, Idle

(***************************************************************************)
(* A step preserves PassedAreUsable: a reader goes past a path whose file  *)
(* is missing or granted, or one equal to a path that it has passed; and a *)
(* writer only makes missing files.                                        *)
(***************************************************************************)
LEMMA PassedAreUsableStep == LockInv /\ [LocksNext]_lockVars => PassedAreUsable'
<1> SUFFICES ASSUME LocksTypeOK, PassedOnly, InRange, PassedAreUsable, [LocksNext]_lockVars
             PROVE  PassedAreUsable'
  BY DEF LockInv
<1> USE DEF LocksTypeOK, PassedAreUsable, Acquiring
<1>1. ASSUME NEW r \in Readers, Observe(r) \/ Finish(r) \/ ContextDone(r)
      PROVE  PassedAreUsable'
  <2>1. CASE Observe(r)
    BY <2>1, PathTyped DEF Observe, InRange
  <2>2. CASE Finish(r) \/ ContextDone(r)
    BY <2>2 DEF Finish, ContextDone, readerVars
  <2>3. QED
    BY <1>1, <2>1, <2>2
<1>2. ASSUME NEW r \in Readers, Acquire(r)
      PROVE  PassedAreUsable'
  <2>1. CASE SkipDuplicate(r)
    <3>1. PICK j \in held[r] : Requested[r][j] = PathOf(r)
      BY <2>1 DEF SkipDuplicate, IsDuplicate
    <3>2. j \in DOMAIN Requested[r] /\ j < pos[r]
      BY DEF PassedOnly
    <3>3. file[PathOf(r)] \notin {"unreadable", "broken"}
      BY <2>1, <3>1, <3>2 DEF SkipDuplicate, AtPath
    <3>4. \A i \in DOMAIN Requested[r] : i < pos[r] + 1 => i < pos[r] \/ i = pos[r]
      BY PathTyped
    <3>5. QED
      BY <2>1, <3>3, <3>4 DEF SkipDuplicate, AtPath, PathOf
  <2>2. CASE OpenMissing(r) \/ Grant(r)
    <3>1. file[PathOf(r)] \notin {"unreadable", "broken"}
      BY <2>2 DEF OpenMissing, Grant
    <3>2. \A i \in DOMAIN Requested[r] : i < pos[r] + 1 => i < pos[r] \/ i = pos[r]
      BY PathTyped
    <3>3. QED
      BY <2>2, <3>1, <3>2 DEF OpenMissing, Grant, AtPath, PathOf
  <2>3. CASE FailDone(r) \/ OpenFails(r) \/ Open(r) \/ Conflict(r) \/ LockFails(r)
    BY <2>3 DEF FailDone, OpenFails, Open, Conflict, LockFails, AtPath
  <2>4. CASE Retry(r) \/ GiveUp(r) \/ AllObserved(r)
    BY <2>4 DEF Retry, GiveUp, AllObserved
  <2>5. QED
    BY <1>2, <2>1, <2>2, <2>3, <2>4 DEF Acquire
<1>3. ASSUME NEW r \in Readers, Release(r)
      PROVE  PassedAreUsable'
  BY <1>3 DEF Release, ReleaseLast, Released
<1>4. ASSUME NEW w \in Writers, WriterBegin(w) \/ WriterRun(w)
      PROVE  PassedAreUsable'
  <2>1. \A p \in Paths : file'[p] \in {file[p], "present"}
    BY <1>4 DEF WriterBegin, WriterRun, WriterOpen, WriterLock, WriterCommit, WriterUnlock
  <2>2. UNCHANGED <<rpc, pos>>
    BY <1>4 DEF WriterBegin, WriterRun, WriterOpen, WriterLock, WriterCommit, WriterUnlock, readerVars
  <2>3. QED
    BY <2>1, <2>2, PathTyped
<1>5. CASE UNCHANGED lockVars
  BY <1>5 DEF lockVars
<1>6. QED
  BY <1>1, <1>2, <1>3, <1>4, <1>5 DEF LocksNext, Idle

(***************************************************************************)
(* LockInv is an invariant of the lock protocol.                           *)
(***************************************************************************)
LEMMA LocksInvariant == LocksSpec => []LockInv
<1>1. LocksInit => LockInv
  BY LockAssumption DEF LocksInit, LockInv, LocksTypeOK, ReaderState, PassedOnly, InRange,
     Exclusion, HeldIsLocked, PassedAreUsable, Acquiring
<1>2. LockInv /\ [LocksNext]_lockVars => LockInv'
  BY TypeStep, PassedOnlyStep, InRangeStep, ExclusionStep, HeldIsLockedStep, PassedAreUsableStep
     DEF LockInv
<1>3. QED
  BY <1>1, <1>2, PTL DEF LocksSpec

-----------------------------------------------------------------------------
(* Theorems                                                                *)

(***************************************************************************)
(* For any number of readers, whatever lock files they share: the locks a  *)
(* reader remembers are those the kernel holds for it.                     *)
(***************************************************************************)
THEOREM HeldIsLockedAlways == LocksSpec => []HeldIsLocked
<1>1. LockInv => HeldIsLocked
  BY DEF LockInv
<1>2. QED
  BY <1>1, LocksInvariant, PTL

(***************************************************************************)
(* A call that has returned, with or without an error, has nothing locked. *)
(***************************************************************************)
THEOREM NothingLeaksEver == LocksSpec => []NothingLeaks
<1>1. LockInv => NothingLeaks
  <2> SUFFICES ASSUME LockInv, NEW r \in Readers, rpc[r] \in {"idle", "failed", "done"},
                      NEW p \in Paths, NEW d \in shared[p], d[1] = r
               PROVE  FALSE
    BY DEF NothingLeaks, Holds
  <2>1. d[2] \in held[r]
    BY DEF LockInv, HeldIsLocked
  <2>2. QED
    BY <2>1 DEF LockInv, PassedOnly
<1>2. QED
  BY <1>1, LocksInvariant, PTL

(***************************************************************************)
(* A reader that has its locks has passed over no lock file that it could  *)
(* not read or lock.                                                       *)
(***************************************************************************)
THEOREM NeverDegradesEver == LocksSpec => []NeverDegrades
<1>1. LockInv => NeverDegrades
  <2> SUFFICES ASSUME LockInv, NEW r \in Readers, rpc[r] = "locked",
                      NEW i \in DOMAIN Requested[r]
               PROVE  file[Requested[r][i]] \notin {"unreadable", "broken"}
    BY DEF NeverDegrades, PathsOf
  <2>1. i < pos[r]
    BY PastTheEnd DEF LockInv, LocksTypeOK, InRange
  <2>2. QED
    BY <2>1 DEF LockInv, PassedAreUsable, Acquiring
<1>2. QED
  BY <1>1, LocksInvariant, PTL

-----------------------------------------------------------------------------
(* Protection, where the lock files exist                                  *)

(***************************************************************************)
(* Every path that a reader has passed on its way to its locks is one it   *)
(* has a lock on, and no lock file is missing.                             *)
(***************************************************************************)
Covered ==
  \A r \in Readers : Acquiring(r) =>
    \A i \in DOMAIN Requested[r] : i < pos[r] =>
       \E j \in held[r] : Requested[r][j] = Requested[r][i]

CoverInv == (\A p \in Paths : file[p] # "absent") /\ Covered

(***************************************************************************)
(* A step preserves CoverInv: without missing files a reader goes past a   *)
(* path only when it has its lock.                                         *)
(***************************************************************************)
LEMMA CoverStep == LockInv /\ CoverInv /\ [LocksNext]_lockVars => CoverInv'
<1> SUFFICES ASSUME LocksTypeOK, PassedOnly, InRange, CoverInv, [LocksNext]_lockVars
             PROVE  CoverInv'
  BY DEF LockInv
<1>1. \A p \in Paths : file'[p] # "absent"
  <2>1. CASE UNCHANGED file
    BY <2>1 DEF CoverInv
  <2>2. ASSUME NEW w \in Writers, WriterOpen(w)
        PROVE  \A p \in Paths : file'[p] # "absent"
    BY <2>2 DEF WriterOpen, CoverInv, LocksTypeOK
  <2>3. QED
    BY <2>1, <2>2 DEF LocksNext, Idle, lockVars, Observe, Finish, ContextDone, Release,
       ReleaseLast, Released, Acquire, SkipDuplicate, FailDone, OpenMissing, OpenFails, Open,
       Grant, Conflict, LockFails, Retry, GiveUp, AllObserved, WriterBegin, WriterRun,
       WriterLock, WriterCommit, WriterUnlock
<1>2. Covered'
  <2> USE DEF LocksTypeOK, Covered, CoverInv, Acquiring
  <2>1. ASSUME NEW r \in Readers, Observe(r) \/ Finish(r) \/ ContextDone(r)
        PROVE  Covered'
    <3>1. CASE Observe(r)
      BY <3>1, PathTyped DEF Observe, InRange
    <3>2. CASE Finish(r) \/ ContextDone(r)
      BY <3>2 DEF Finish, ContextDone, readerVars
    <3>3. QED
      BY <2>1, <3>1, <3>2
  <2>2. ASSUME NEW r \in Readers, Acquire(r)
        PROVE  Covered'
    <3>1. \A i \in DOMAIN Requested[r] : i < pos[r] + 1 => i < pos[r] \/ i = pos[r]
      BY PathTyped
    <3>2. CASE SkipDuplicate(r)
      <4>1. PICK j \in held[r] : Requested[r][j] = PathOf(r)
        BY <3>2 DEF SkipDuplicate, IsDuplicate
      <4>2. QED
        BY <3>1, <3>2, <4>1 DEF SkipDuplicate, AtPath, PathOf
    <3>3. CASE Grant(r)
      BY <3>1, <3>3 DEF Grant, PathOf
    <3>4. CASE OpenMissing(r)
      BY <3>4, PathTyped DEF OpenMissing, AtPath, PathOf
    <3>5. CASE FailDone(r) \/ OpenFails(r) \/ Open(r) \/ Conflict(r) \/ LockFails(r)
      BY <3>5 DEF FailDone, OpenFails, Open, Conflict, LockFails, AtPath
    <3>6. CASE Retry(r) \/ GiveUp(r) \/ AllObserved(r)
      BY <3>6 DEF Retry, GiveUp, AllObserved
    <3>7. QED
      BY <2>2, <3>2, <3>3, <3>4, <3>5, <3>6 DEF Acquire
  <2>3. ASSUME NEW r \in Readers, Release(r)
        PROVE  Covered'
    BY <2>3 DEF Release, ReleaseLast, Released
  <2>4. ASSUME NEW w \in Writers, WriterBegin(w) \/ WriterRun(w)
        PROVE  Covered'
    BY <2>4 DEF WriterBegin, WriterRun, WriterOpen, WriterLock, WriterCommit, WriterUnlock,
       readerVars
  <2>5. CASE UNCHANGED lockVars
    BY <2>5 DEF lockVars
  <2>6. QED
    BY <2>1, <2>2, <2>3, <2>4, <2>5 DEF LocksNext, Idle
<1>3. QED
  BY <1>1, <1>2 DEF CoverInv

(***************************************************************************)
(* Where every lock file exists before the first call, a reader that has   *)
(* its locks has one on each of its paths, and no writer has.              *)
(***************************************************************************)
THEOREM ProtectedWhenPresent ==
  ASSUME "absent" \notin InitialKinds
  PROVE  LocksSpec => []LockedMeansProtected
<1>1. LocksInit => CoverInv
  BY PathTyped DEF LocksInit, CoverInv, Covered, Acquiring
<1>2. LockInv /\ CoverInv => LockedMeansProtected
  <2> SUFFICES ASSUME LockInv, CoverInv, NEW r \in Readers, rpc[r] = "locked",
                      NEW i \in DOMAIN Requested[r]
               PROVE  LET p == Requested[r][i] IN Holds(r, p) /\ excl[p] = Free
    BY DEF LockedMeansProtected, PathsOf
  <2>1. i < pos[r]
    BY PastTheEnd DEF LockInv, LocksTypeOK, InRange
  <2>2. PICK j \in held[r] : Requested[r][j] = Requested[r][i]
    BY <2>1 DEF CoverInv, Covered, Acquiring
  <2>3. <<r, j>> \in shared[Requested[r][i]]
    BY <2>2 DEF LockInv, HeldIsLocked
  <2>4. QED
    BY <2>3, PathTyped DEF Holds, LockInv, Exclusion
<1>3. QED
  BY <1>1, <1>2, CoverStep, LocksInvariant, PTL DEF LocksSpec
=============================================================================
