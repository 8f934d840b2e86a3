------------------------- MODULE SystemSnapshotProofs -------------------------
(***************************************************************************)
(* Proofs about SystemSnapshot: the call uses its locks as StateLocks      *)
(* says, and what it returns existed.                                      *)
(***************************************************************************)
EXTENDS SystemSnapshot, StateLocksProofs

-----------------------------------------------------------------------------
(* The locks                                                               *)

(***************************************************************************)
(* Every step of a snapshot beside its environment is a step of the lock   *)
(* protocol or leaves the locks alone.                                     *)
(***************************************************************************)
LEMMA LockStep == [Next]_vars => [LocksNext]_lockVars
<1> SUFFICES ASSUME [Next]_vars
             PROVE  LocksNext \/ UNCHANGED lockVars
  OBVIOUS
<1>1. CASE BeginLocked
  BY <1>1, SnapshotAssumption DEF BeginLocked, LocksNext
<1>2. CASE CallerStep
  <2>1. CASE CallerAcquire
    BY <2>1, SnapshotAssumption DEF CallerAcquire, LocksNext, Acquire
  <2>2. CASE CallerRelease
    BY <2>2, SnapshotAssumption DEF CallerRelease, LocksNext
  <2>3. QED
    BY <1>2, <2>1, <2>2 DEF CallerStep, BeginObserving, PartReads, PartSucceeds, PartStops,
       ObservationFails, PartsAgree, ComposeReads, ObserveAgain, Stabilized, Exhausted
<1>3. CASE CallerContextDone
  BY <1>3, SnapshotAssumption DEF CallerContextDone, LocksNext
<1>4. ASSUME NEW r \in Readers, OtherReader(r)
      PROVE  LocksNext
  BY <1>4 DEF OtherReader, LocksNext
<1>5. ASSUME NEW w \in Writers, Writer(w)
      PROVE  LocksNext
  BY <1>5 DEF Writer, LocksNext
<1>6. CASE UNCHANGED lockVars
  BY <1>6
<1>7. ASSUME NEW c \in Cells, NEW v \in Contents, Edit(c, v)
      PROVE  UNCHANGED lockVars
  BY <1>7 DEF Edit, Changing
<1>8. ASSUME NEW w \in Writers, NEW c \in Cells, NEW v \in Contents, WriterWrites(w, c, v)
      PROVE  UNCHANGED lockVars
  BY <1>8 DEF WriterWrites, Changing
<1>9. CASE Reject \/ BeginLockless \/ ComposeFails \/ \E p \in Parts : PartFails(p)
  BY <1>9 DEF Reject, BeginLockless, ComposeFails, PartFails
<1>10. CASE Terminated \/ UNCHANGED vars
  BY <1>10 DEF Terminated, vars
<1>11. QED
  BY <1>1, <1>2, <1>3, <1>4, <1>5, <1>7, <1>8, <1>9, <1>10 DEF Next

(***************************************************************************)
(* A snapshot beside other readers, writers and administrators implements  *)
(* the lock protocol: all that is proved of it holds of the snapshot.      *)
(***************************************************************************)
THEOREM SnapshotUsesLocks == Spec => LocksSpec
<1>1. Init => LocksInit
  BY DEF Init
<1>2. QED
  BY <1>1, LockStep, PTL DEF Spec, LocksSpec

(***************************************************************************)
(* A call that has returned, in whatever way, has nothing locked.          *)
(***************************************************************************)
THEOREM ReturnedHoldsNothingEver == Spec => []ReturnedHoldsNothing
<1>1. NothingLeaks => ReturnedHoldsNothing
  BY SnapshotAssumption DEF NothingLeaks, ReturnedHoldsNothing, Returned
<1>2. QED
  BY <1>1, SnapshotUsesLocks, NothingLeaksEver, PTL

-----------------------------------------------------------------------------
(* Types                                                                   *)

ObservationTypeOK ==
  /\ disk \in [Cells -> Contents] /\ boundary \in [Cells -> Contents]
  /\ round \in Nat
  /\ job \in [Parts -> {"run", "ok"} \cup Errors]
  /\ obsErr \in {"none", "canceled", "deadline"}
  /\ got \in [Slots -> Contents \cup {Unread}]
  /\ previous \in [Slots -> Contents \cup {Unread}]
  /\ order \in [Slots -> Nat] /\ previousOrder \in [Slots -> Nat]
  /\ window \subseteq [Cells -> Contents]

CallTypeOK ==
  /\ changes \in 0..MaxChange
  /\ request \in Requests /\ ending \in {"none", "canceled", "deadline"}
  /\ phase \in {"ready", "locking", "observing", "composing", "returning"}
  /\ result \in Result

(***************************************************************************)
(* The types of a call are those of its locks, its observations and the    *)
(* call itself.                                                            *)
(***************************************************************************)
LEMMA TypeParts == TypeOK <=> LocksTypeOK /\ ObservationTypeOK /\ CallTypeOK
BY DEF TypeOK, ObservationTypeOK, CallTypeOK

(***************************************************************************)
(* An observation that begins, or reads one slot, is well typed.           *)
(***************************************************************************)
LEMMA StartTyped ==
  ASSUME ObservationTypeOK, CallTypeOK, StartObservation, UNCHANGED <<previousVars, diskVars>>
  PROVE  ObservationTypeOK'
BY DEF ObservationTypeOK, CallTypeOK, StartObservation, Blank, Unordered, previousVars, diskVars

(***************************************************************************)
(* The read of one slot leaves an observation well typed.                  *)
(***************************************************************************)
LEMMA ReadTyped ==
  ASSUME ObservationTypeOK, NEW s \in Slots, ReadSlot(s),
         UNCHANGED <<job, obsErr, previousVars, boundary, round, diskVars>>
  PROVE  ObservationTypeOK'
<1>1. disk[CellOf[s]] \in Contents
  BY SnapshotAssumption DEF ObservationTypeOK
<1>2. Orders[s][disk[CellOf[s]]] \subseteq Nat
  BY <1>1, SnapshotAssumption
<1>3. QED
  BY <1>1, <1>2 DEF ObservationTypeOK, ReadSlot, previousVars, diskVars

(***************************************************************************)
(* A change of the system leaves the observation and the call well typed.  *)
(***************************************************************************)
LEMMA ChangeTyped ==
  ASSUME ObservationTypeOK, CallTypeOK, NEW c \in Cells, NEW v \in Contents, Changing(c, v)
  PROVE  ObservationTypeOK' /\ CallTypeOK'
<1>1. disk' \in [Cells -> Contents]
  BY DEF ObservationTypeOK, Changing
<1>2. window' \subseteq [Cells -> Contents]
  BY <1>1 DEF ObservationTypeOK, Changing
<1>3. changes' \in 0..MaxChange
  BY SnapshotAssumption DEF CallTypeOK, Changing
<1>4. QED
  BY <1>1, <1>2, <1>3 DEF ObservationTypeOK, CallTypeOK, Changing, obsVars, readVars, previousVars,
     callVars

(***************************************************************************)
(* One step of a snapshot beside its environment preserves the types.      *)
(***************************************************************************)
LEMMA SnapshotTypeStep == TypeOK /\ [Next]_vars => TypeOK'
<1> SUFFICES ASSUME LocksTypeOK, ObservationTypeOK, CallTypeOK, [Next]_vars
             PROVE  ObservationTypeOK' /\ CallTypeOK'
  BY TypeParts, LockStep, TypeStep DEF TypeOK, ObservationTypeOK, CallTypeOK
<1>1. CASE Reject
  BY <1>1 DEF Reject, Return, Result, Errors, ObservationTypeOK, CallTypeOK, obsVars, readVars, previousVars, diskVars
<1>2. CASE BeginLocked
  BY <1>2 DEF BeginLocked, ObservationTypeOK, CallTypeOK, obsVars, readVars, previousVars, diskVars
<1>3. CASE BeginLockless \/ BeginObserving \/ ObserveAgain
  <2>1. CallTypeOK'
    BY <1>3 DEF BeginLockless, BeginObserving, ObserveAgain, StartObservation, CallTypeOK, diskVars
  <2>2. CASE BeginLockless \/ BeginObserving
    BY <2>1, <2>2, StartTyped DEF BeginLockless, BeginObserving
  <2>3. CASE ObserveAgain
    BY <2>1, <2>3 DEF ObserveAgain, ObservationTypeOK, CallTypeOK, StartObservation, Blank, Unordered, diskVars
  <2>4. QED
    BY <1>3, <2>2, <2>3
<1>4. CASE CallerAcquire
  BY <1>4 DEF CallerAcquire, Return, Result, Errors, ObservationTypeOK, CallTypeOK, obsVars, readVars, previousVars,
     diskVars, callVars
<1>5. CASE CallerRelease
  BY <1>5 DEF CallerRelease, ObservationTypeOK, CallTypeOK, obsVars, readVars, previousVars, diskVars, callVars
<1>6. ASSUME NEW p \in Parts, PartReads(p)
      PROVE  ObservationTypeOK' /\ CallTypeOK'
  <2>1. PICK s \in Slots : ReadSlot(s)
    BY <1>6 DEF PartReads, SlotsAt
  <2>2. QED
    BY <1>6, <2>1, ReadTyped DEF PartReads, CallTypeOK, callVars, diskVars
<1>7. ASSUME NEW p \in Parts, PartSucceeds(p) \/ PartFails(p) \/ PartStops(p)
      PROVE  ObservationTypeOK' /\ CallTypeOK'
  BY <1>7 DEF PartSucceeds, PartFails, PartStops, ObservationTypeOK, CallTypeOK, Errors,
     readVars, previousVars, callVars, diskVars
<1>8. CASE ObservationFails
  BY <1>8 DEF ObservationFails, Return, FirstError, Result, Errors, ObservationTypeOK,
     CallTypeOK, obsVars, readVars, previousVars, diskVars
<1>9. CASE PartsAgree \/ ComposeFails \/ Stabilized \/ Exhausted
  BY <1>9 DEF PartsAgree, ComposeFails, Stabilized, Exhausted, Return, Result, Errors,
     ObservationTypeOK, CallTypeOK, obsVars, readVars, previousVars, diskVars
<1>10. CASE ComposeReads
  <2>1. PICK s \in Slots : ReadSlot(s)
    BY <1>10 DEF ComposeReads, SlotsAt
  <2>2. QED
    BY <1>10, <2>1, ReadTyped DEF ComposeReads, CallTypeOK, callVars, diskVars
<1>11. CASE CallerContextDone
  BY <1>11 DEF CallerContextDone, ObservationTypeOK, CallTypeOK, readVars, previousVars, diskVars,
     callVars
<1>12. ASSUME NEW c \in Cells, NEW v \in Contents,
              Edit(c, v) \/ \E w \in Writers : WriterWrites(w, c, v)
       PROVE  ObservationTypeOK' /\ CallTypeOK'
  BY <1>12, ChangeTyped DEF Edit, WriterWrites
<1>13. CASE (\E r \in Readers : OtherReader(r)) \/ (\E w \in Writers : Writer(w))
  BY <1>13 DEF OtherReader, Writer, ObservationTypeOK, CallTypeOK, obsVars, readVars, previousVars, diskVars, callVars
<1>14. CASE Terminated \/ UNCHANGED vars
  BY <1>14 DEF Terminated, vars, ObservationTypeOK, CallTypeOK, obsVars, readVars, previousVars, diskVars, callVars
<1>15. QED
  BY <1>1, <1>2, <1>3, <1>4, <1>5, <1>6, <1>7, <1>8, <1>9, <1>10, <1>11, <1>12, <1>13, <1>14
     DEF Next, CallerStep

(***************************************************************************)
(* The snapshot call is type correct.                                      *)
(***************************************************************************)
THEOREM SnapshotTypeCorrect == Spec => []TypeOK
<1>1. Init => TypeOK
  <2> SUFFICES ASSUME Init
               PROVE  LocksTypeOK /\ ObservationTypeOK /\ CallTypeOK
    BY TypeParts
  <2>1. LocksTypeOK
    BY LockAssumption DEF Init, LocksInit, LocksTypeOK, ReaderState
  <2>2. QED
    BY <2>1, SnapshotAssumption DEF Init, ObservationTypeOK, CallTypeOK, Blank, Unordered, Result, Errors, Parts
<1>2. QED
  BY <1>1, SnapshotTypeStep, PTL DEF Spec

-----------------------------------------------------------------------------
(* Errors                                                                  *)

(***************************************************************************)
(* The error of the observation's context has a cause, and so has the      *)
(* error of each goroutine that saw it.                                    *)
(***************************************************************************)
ContextInv ==
  /\ done[Caller] <=> ending # "none"
  /\ phase \in {"ready", "locking", "composing"} => \A p \in Parts : job[p] = "ok"
  /\ phase = "observing" =>
       /\ ending # "none" => obsErr # "none"
       /\ obsErr = "deadline" => ending = "deadline"
       /\ obsErr = "canceled" => ending = "canceled" \/ \E p \in Parts : job[p] = "failed"
       /\ \A p \in Parts : job[p] \in {"canceled", "deadline"} => obsErr = job[p]

ErrorInv == ContextInv /\ ErrorHasCause

(***************************************************************************)
(* A goroutine's first error that is not a cancellation is a failure of    *)
(* its own or the deadline of the caller; with none of them nothing failed *)
(* and a cancellation is the caller's.                                     *)
(***************************************************************************)
LEMMA FailureHasCause == TypeOK /\ ErrorInv /\ ObservationFails => ErrorInv'
<1> SUFFICES ASSUME TypeOK, ErrorInv, ObservationFails
             PROVE  ErrorInv'
  OBVIOUS
<1>1. phase = "observing" /\ phase' = "returning"
  BY DEF ObservationFails, Waited, Return
<1>2. UNCHANGED <<done, job, ending, obsErr>>
  BY DEF ObservationFails, lockVars, obsVars, readVars, previousVars
<1>3. ASSUME NEW p \in Parts, FirstError(p), result' = job[p]
      PROVE  ErrorHasCause'
  BY <1>1, <1>2, <1>3 DEF ErrorHasCause, ErrorInv, ContextInv, FirstError
<1>4. ASSUME \A p \in Parts : job[p] \in {"ok", "canceled"}, ending # "none", result' = ending
      PROVE  ErrorHasCause'
  BY <1>1, <1>2, <1>4 DEF ErrorHasCause, TypeOK
<1>5. ASSUME \A p \in Parts : job[p] \in {"ok", "canceled"}, ending = "none",
             NEW p \in Parts, job[p] = "canceled"
      PROVE  FALSE
  BY <1>1, <1>5 DEF ErrorInv, ContextInv
<1>6. ErrorHasCause'
  BY <1>3, <1>4, <1>5 DEF ObservationFails, Return
<1>7. ContextInv'
  BY <1>1, <1>2 DEF ErrorInv, ContextInv
<1>8. QED
  BY <1>6, <1>7 DEF ErrorInv

(***************************************************************************)
(* A step preserves ErrorInv: an error of the observation's context, and   *)
(* the error of a call, always has its cause on record.                    *)
(***************************************************************************)
LEMMA ErrorStep == TypeOK /\ ErrorInv /\ [Next]_vars => ErrorInv'
<1> SUFFICES ASSUME TypeOK, ErrorInv, [Next]_vars
             PROVE  ErrorInv'
  OBVIOUS
<1> USE DEF ErrorInv, ContextInv, ErrorHasCause
<1>1. CASE Reject
  BY <1>1 DEF Reject, Return, TypeOK, lockVars, obsVars, readVars, previousVars
<1>2. CASE BeginLocked
  BY <1>2 DEF BeginLocked, Observe, obsVars, readVars, previousVars
<1>3. CASE BeginLockless \/ BeginObserving \/ ObserveAgain
  BY <1>3 DEF BeginLockless, BeginObserving, ObserveAgain, StartObservation, TypeOK, lockVars
<1>4. CASE CallerAcquire
  <2>1. UNCHANGED <<done, job, ending, obsErr>>
    BY <1>4 DEF CallerAcquire, SkipDuplicate, FailDone, OpenMissing, OpenFails, Open, Grant,
       Conflict, LockFails, Retry, GiveUp, AllObserved, obsVars, readVars, previousVars
  <2>2. CASE Return("unavailable") \/ UNCHANGED callVars
    BY <1>4, <2>1, <2>2 DEF CallerAcquire, Return, callVars
  <2>3. CASE (FailDone(Caller) \/ GiveUp(Caller)) /\ Return(ending)
    BY <1>4, <2>1, <2>3 DEF CallerAcquire, Return, FailDone, GiveUp, TypeOK
  <2>4. QED
    BY <1>4, <2>2, <2>3 DEF CallerAcquire
<1>5. CASE CallerRelease
  BY <1>5 DEF CallerRelease, Finish, Release, ReleaseLast, Released, callVars, obsVars, readVars, previousVars
<1>6. ASSUME NEW p \in Parts, PartReads(p) \/ PartSucceeds(p) \/ PartFails(p) \/ PartStops(p)
      PROVE  ErrorInv'
  BY <1>6 DEF PartReads, PartSucceeds, PartFails, PartStops, ReadSlot, TypeOK, lockVars, callVars
<1>7. CASE ObservationFails
  BY <1>7, FailureHasCause
<1>8. CASE PartsAgree \/ ComposeReads
  BY <1>8 DEF PartsAgree, ComposeReads, ReadSlot, lockVars, obsVars, readVars, previousVars, callVars
<1>9. CASE ComposeFails \/ Stabilized \/ Exhausted
  BY <1>9 DEF ComposeFails, Stabilized, Exhausted, Composed, Return, lockVars, obsVars, readVars, previousVars
<1>10. CASE CallerContextDone
  BY <1>10, SnapshotAssumption DEF CallerContextDone, ContextDone, TypeOK, LocksTypeOK, callVars
<1>11. ASSUME NEW r \in Readers \ {Caller}, OtherReader(r)
       PROVE  ErrorInv'
  <2>1. done'[Caller] = done[Caller]
    BY <1>11, SnapshotAssumption DEF OtherReader, Observe, Acquire, Finish, Release, ReleaseLast, Released,
       ContextDone, SkipDuplicate, FailDone, OpenMissing, OpenFails, Open, Grant, Conflict,
       LockFails, Retry, GiveUp, AllObserved, TypeOK, LocksTypeOK
  <2>2. QED
    BY <1>11, <2>1 DEF OtherReader, obsVars, readVars, previousVars, callVars
<1>12. ASSUME NEW w \in Writers, Writer(w)
       PROVE  ErrorInv'
  BY <1>12 DEF Writer, WriterBegin, WriterRun, WriterOpen, WriterLock, WriterCommit,
     WriterUnlock, obsVars, readVars, previousVars, callVars
<1>13. ASSUME NEW c \in Cells, NEW v \in Contents,
              Edit(c, v) \/ \E w \in Writers : WriterWrites(w, c, v)
       PROVE  ErrorInv'
  BY <1>13 DEF Edit, WriterWrites, Changing, lockVars, obsVars, readVars, previousVars, callVars
<1>14. CASE Terminated \/ UNCHANGED vars
  BY <1>14 DEF Terminated, vars, lockVars, obsVars, readVars, previousVars, callVars
<1>15. QED
  BY <1>1, <1>2, <1>3, <1>4, <1>5, <1>6, <1>7, <1>8, <1>9, <1>10, <1>11, <1>12, <1>13, <1>14
     DEF Next, CallerStep

(***************************************************************************)
(* Whatever fails, in whatever order the goroutines see it, the error of   *)
(* the call is one that happened.                                          *)
(***************************************************************************)
THEOREM ErrorHasCauseAlways == Spec => []ErrorHasCause
<1>1. Init => ErrorInv
  BY SnapshotAssumption DEF Init, LocksInit, ErrorInv, ContextInv, ErrorHasCause
<1>2. ErrorInv => ErrorHasCause
  BY DEF ErrorInv
<1>3. QED
  BY <1>1, <1>2, ErrorStep, SnapshotTypeCorrect, PTL DEF Spec

-----------------------------------------------------------------------------
(* What has been read                                                      *)

(***************************************************************************)
(* The history of an observation: it began at a state of the window, and   *)
(* what it and its predecessor read was on disk within the window, and is  *)
(* listed in one of its orders.                                            *)
(***************************************************************************)
WasThere(view) ==
  \A s \in Slots : view[s] # Unread => \E d \in window : view[s] = d[CellOf[s]]

Listed(view, listing) ==
  \A s \in Slots : IF view[s] = Unread THEN listing[s] = 0 ELSE listing[s] \in Orders[s][view[s]]

HistoryInv ==
  /\ phase # "returning" => disk \in window
  /\ round > 0 => boundary \in window
  /\ phase \in {"ready", "locking"} => round = 0
  /\ phase \in {"observing", "composing"} => round > 0
  /\ round = 0 => got = Blank /\ previous = Blank
  /\ WasThere(got) /\ WasThere(previous)
  /\ Listed(got, order) /\ Listed(previous, previousOrder)

(***************************************************************************)
(* An observation reads all that is wanted, and nothing else.              *)
(***************************************************************************)
HasAll(view, stage) == \A s \in SlotsAt(stage) : view[s] # Unread

CompleteInv ==
  /\ phase = "observing" => \A p \in Parts : job[p] = "ok" =>
        HasAll(got, p) /\ (p = "config" => HasAll(got, "candidates"))
  /\ phase = "composing" => \A stage \in Parts \cup {"candidates"} : HasAll(got, stage)
  /\ round > 1 => \A s \in Wanted : previous[s] # Unread
  /\ \A s \in Slots \ Wanted : got[s] = Unread /\ previous[s] = Unread

(***************************************************************************)
(* The outcome is known when the call returns, and a snapshot, or the      *)
(* report of a change, follows the comparison of two whole observations.   *)
(***************************************************************************)
OutcomeInv ==
  /\ result = "none" <=> phase # "returning"
  /\ result \in {"ok", "changed"} =>
        round > 1 /\ \A s \in Wanted : got[s] # Unread
  /\ result = "ok" => Agree

ReadInv == HistoryInv /\ CompleteInv /\ OutcomeInv

(***************************************************************************)
(* All that is wanted has been read when an observation is complete.       *)
(***************************************************************************)
LEMMA ComposedHasAll ==
  ASSUME CompleteInv, Composed
  PROVE  \A s \in Wanted : got[s] # Unread
BY DEF CompleteInv, Composed, Wanted, HasAll, AllRead, Stages

(***************************************************************************)
(* The read of one slot keeps what is known of the others.                 *)
(***************************************************************************)
LEMMA ReadKeeps ==
  ASSUME TypeOK, ReadInv, NEW s \in Wanted, ReadSlot(s), round > 0,
         phase \in {"observing", "composing"},
         UNCHANGED <<job, obsErr, previousVars, boundary, round, diskVars, callVars>>
  PROVE  ReadInv'
<1> USE DEF TypeOK
<1>1. s \in Slots /\ got' = [got EXCEPT ![s] = disk[CellOf[s]]]
  BY DEF ReadSlot, Wanted, SlotsAt
<1>2. disk[CellOf[s]] # Unread
  BY <1>1, SnapshotAssumption
<1>3. Wanted' = Wanted /\ \A stage \in Stages : SlotsAt(stage)' = SlotsAt(stage)
  BY DEF Wanted, SlotsAt, callVars
<1>4. HistoryInv'
  <2>1. \A t \in Slots : got'[t] # Unread => \E d \in window : got'[t] = d[CellOf[t]]
    BY <1>1 DEF ReadInv, HistoryInv, WasThere
  <2>2. Listed(got', order')
    BY <1>1, <1>2 DEF ReadSlot, ReadInv, HistoryInv, Listed
  <2>3. QED
    BY <2>1, <2>2 DEF ReadInv, HistoryInv, WasThere, Listed, previousVars, diskVars, callVars
<1>5. CompleteInv'
  <2>1. \A t \in Slots : got[t] # Unread => got'[t] # Unread
    BY <1>1, <1>2
  <2>2. \A t \in Slots \ Wanted : got'[t] = got[t]
    BY <1>1
  <2>3. \A stage \in Stages : HasAll(got, stage) => HasAll(got', stage)
    BY <2>1 DEF HasAll, SlotsAt
  <2>4. QED
    BY <1>3, <2>2, <2>3 DEF ReadInv, CompleteInv, HasAll, Stages, Parts, previousVars, callVars
<1>6. OutcomeInv'
  BY <1>3 DEF ReadInv, OutcomeInv, callVars
<1>7. QED
  BY <1>4, <1>5, <1>6 DEF ReadInv

(***************************************************************************)
(* An observation that begins has read nothing.                            *)
(***************************************************************************)
LEMMA StartKeeps ==
  ASSUME TypeOK, ReadInv, StartObservation, UNCHANGED <<ending, diskVars>>,
         phase # "returning",
         \/ round = 0 /\ UNCHANGED previousVars
         \/ Composed /\ previous' = got /\ previousOrder' = order
  PROVE  ReadInv'
<1> USE DEF TypeOK
<1>1. Wanted' = Wanted /\ \A stage \in Stages : SlotsAt(stage)' = SlotsAt(stage)
  BY DEF Wanted, SlotsAt, StartObservation
<1>2. HistoryInv'
  BY DEF ReadInv, HistoryInv, WasThere, Listed, StartObservation, Blank, Unordered, previousVars, diskVars
<1>3. CompleteInv'
  <2>1. job' = [p \in Parts |-> "run"] /\ phase' = "observing" /\ got' = Blank /\ round' = round + 1
    BY DEF StartObservation
  <2>2. \A s \in Slots \ Wanted : previous'[s] = Unread
    BY DEF ReadInv, CompleteInv, previousVars
  <2>3. round' > 1 => \A s \in Wanted : previous'[s] # Unread
    BY <2>1, ComposedHasAll DEF ReadInv
  <2>4. QED
    BY <1>1, <2>1, <2>2, <2>3 DEF CompleteInv, Blank
<1>4. OutcomeInv'
  BY DEF ReadInv, OutcomeInv, StartObservation
<1>5. QED
  BY <1>2, <1>3, <1>4 DEF ReadInv

(***************************************************************************)
(* The state of the system changes: the window of the call grows, and      *)
(* before the call it holds only the present.                              *)
(***************************************************************************)
LEMMA ChangeKeeps ==
  ASSUME TypeOK, ReadInv, NEW c \in Cells, NEW v \in Contents, Changing(c, v)
  PROVE  ReadInv'
<1>1. Wanted' = Wanted /\ \A stage \in Stages : SlotsAt(stage)' = SlotsAt(stage)
  BY DEF Wanted, SlotsAt, Changing, callVars
<1>2. HistoryInv'
  <2>1. CASE phase = "ready"
    BY <2>1 DEF ReadInv, HistoryInv, WasThere, Changing, obsVars, readVars, previousVars, callVars, Blank, TypeOK
  <2>2. CASE phase # "ready"
    BY <2>2 DEF ReadInv, HistoryInv, WasThere, Changing, obsVars, readVars, previousVars, callVars
  <2>3. QED
    BY <2>1, <2>2
<1>3. CompleteInv' /\ OutcomeInv'
  BY <1>1 DEF ReadInv, CompleteInv, OutcomeInv, Agree, HasAll, Stages, Changing,
     obsVars, readVars, previousVars, callVars
<1>4. QED
  BY <1>2, <1>3 DEF ReadInv

(***************************************************************************)
(* The call returns: what has been read stays as it is.                    *)
(***************************************************************************)
LEMMA ReturnKeeps ==
  ASSUME TypeOK, ReadInv, NEW r \in Result \ {"none"}, Return(r), UNCHANGED <<obsVars, diskVars>>,
         r \in {"ok", "changed"} => Composed /\ round > 1,
         r = "ok" => Agree
  PROVE  ReadInv'
<1>1. Wanted' = Wanted /\ \A stage \in Stages : SlotsAt(stage)' = SlotsAt(stage)
  BY DEF Wanted, SlotsAt, Return
<1>2. HistoryInv'
  BY DEF ReadInv, HistoryInv, WasThere, Return, obsVars, readVars, previousVars, diskVars
<1>3. CompleteInv'
  BY <1>1 DEF ReadInv, CompleteInv, Return, obsVars, readVars, previousVars
<1>4. OutcomeInv'
  BY <1>1, ComposedHasAll DEF ReadInv, OutcomeInv, Agree, Return, obsVars, readVars,
     previousVars
<1>5. QED
  BY <1>2, <1>3, <1>4 DEF ReadInv

(***************************************************************************)
(* A goroutine ends: with success only when it has read all of its part.   *)
(***************************************************************************)
LEMMA PartEndKeeps ==
  ASSUME TypeOK, ReadInv, NEW p \in Parts, PartSucceeds(p) \/ PartFails(p) \/ PartStops(p)
  PROVE  ReadInv'
<1>1. Wanted' = Wanted /\ \A stage \in Stages : SlotsAt(stage)' = SlotsAt(stage)
  BY DEF Wanted, SlotsAt, PartSucceeds, PartFails, PartStops, callVars
<1>2. UNCHANGED <<readVars, previousVars, boundary, round, diskVars, callVars>> /\ phase = "observing"
  BY DEF PartSucceeds, PartFails, PartStops
<1>3. HistoryInv' /\ OutcomeInv'
  BY <1>1, <1>2 DEF ReadInv, HistoryInv, OutcomeInv, Agree, WasThere, Listed, readVars,
     previousVars, diskVars, callVars
<1>4. CompleteInv'
  <2>1. \A q \in Parts : job'[q] = "ok" =>
           job[q] = "ok" \/ (AllRead(q) /\ (q = "config" => AllRead("candidates")))
    BY DEF PartSucceeds, PartFails, PartStops, TypeOK, Errors
  <2>2. QED
    BY <1>1, <1>2, <2>1 DEF ReadInv, CompleteInv, HasAll, AllRead, Stages, readVars,
       previousVars, callVars
<1>5. QED
  BY <1>3, <1>4 DEF ReadInv

(***************************************************************************)
(* A step preserves ReadInv: what an observation has read was there, and   *)
(* it is composed only when it has read all of it.                         *)
(***************************************************************************)
LEMMA ReadStep == TypeOK /\ ErrorInv /\ ReadInv /\ [Next]_vars => ReadInv'
<1> SUFFICES ASSUME TypeOK, ErrorInv, ReadInv, [Next]_vars
             PROVE  ReadInv'
  OBVIOUS
<1>1. ASSUME UNCHANGED <<obsVars, diskVars, callVars>>
      PROVE  ReadInv'
  <2>1. Wanted' = Wanted /\ \A stage \in Stages : SlotsAt(stage)' = SlotsAt(stage)
    BY <1>1 DEF Wanted, SlotsAt, callVars
  <2>2. QED
    BY <1>1, <2>1 DEF ReadInv, HistoryInv, CompleteInv, OutcomeInv, Agree, WasThere, Listed, HasAll,
       Stages, obsVars, readVars, previousVars, diskVars, callVars
<1>2. CASE Reject
  BY <1>2, ReturnKeeps DEF Reject, TypeOK, Result, Errors
<1>3. CASE BeginLocked
  <2>1. Wanted' = Wanted /\ \A stage \in Stages : SlotsAt(stage)' = SlotsAt(stage)
    BY <1>3 DEF BeginLocked, Wanted, SlotsAt
  <2>2. QED
    BY <1>3, <2>1 DEF BeginLocked, ReadInv, HistoryInv, CompleteInv, OutcomeInv, WasThere, obsVars, readVars, previousVars,
       diskVars
<1>4. CASE BeginLockless
  <2>1. round = 0
    BY <1>4 DEF BeginLockless, ReadInv, HistoryInv
  <2>2. QED
    BY <1>4, <2>1, StartKeeps DEF BeginLockless
<1>5. CASE BeginObserving
  <2>1. round = 0
    BY <1>5 DEF BeginObserving, ReadInv, HistoryInv
  <2>2. QED
    BY <1>5, <2>1, StartKeeps DEF BeginObserving
<1>6. CASE ObserveAgain
  BY <1>6, StartKeeps DEF ObserveAgain, Composed
<1>7. CASE CallerAcquire
  <2>1. CASE UNCHANGED callVars
    BY <1>1, <1>7, <2>1 DEF CallerAcquire
  <2>2. CASE Return("unavailable")
    BY <1>7, <2>2, ReturnKeeps DEF CallerAcquire, Result
  <2>3. CASE (FailDone(Caller) \/ GiveUp(Caller)) /\ Return(ending)
    BY <1>7, <2>3, ReturnKeeps DEF CallerAcquire, Result, Errors, FailDone, GiveUp, ErrorInv,
       ContextInv, TypeOK
  <2>4. QED
    BY <1>7, <2>1, <2>2, <2>3 DEF CallerAcquire
<1>8. ASSUME NEW p \in Parts, PartReads(p)
      PROVE  ReadInv'
  <2>1. PICK s \in Wanted : ReadSlot(s)
    BY <1>8 DEF PartReads, Wanted, Stages, Parts
  <2>2. QED
    BY <1>8, <2>1, ReadKeeps DEF PartReads, ReadInv, HistoryInv
<1>9. CASE ComposeReads
  <2>1. PICK s \in Wanted : ReadSlot(s)
    BY <1>9 DEF ComposeReads, Wanted, Stages
  <2>2. QED
    BY <1>9, <2>1, ReadKeeps DEF ComposeReads, ReadInv, HistoryInv
<1>10. ASSUME NEW p \in Parts, PartSucceeds(p) \/ PartFails(p) \/ PartStops(p)
       PROVE  ReadInv'
  BY <1>10, PartEndKeeps
<1>11. CASE ObservationFails
  <2>1. ASSUME NEW p \in Parts, FirstError(p), Return(job[p])
        PROVE  ReadInv'
    BY <1>11, <2>1, ReturnKeeps DEF ObservationFails, FirstError, Result, Errors
  <2>2. ASSUME ending # "none", Return(ending)
        PROVE  ReadInv'
    BY <1>11, <2>2, ReturnKeeps DEF ObservationFails, Result, Errors, TypeOK
  <2>3. ASSUME Return("canceled")
        PROVE  ReadInv'
    BY <1>11, <2>3, ReturnKeeps DEF ObservationFails, Result, Errors
  <2>4. QED
    BY <1>11, <2>1, <2>2, <2>3 DEF ObservationFails
<1>12. CASE PartsAgree
  <2>1. Wanted' = Wanted /\ \A stage \in Stages : SlotsAt(stage)' = SlotsAt(stage)
    BY <1>12 DEF PartsAgree, Wanted, SlotsAt
  <2>2. CompleteInv'
    BY <1>12, <2>1 DEF PartsAgree, Waited, ReadInv, CompleteInv, HasAll, Stages, Parts, obsVars, readVars, previousVars
  <2>3. HistoryInv' /\ OutcomeInv'
    BY <1>12, <2>1 DEF PartsAgree, Waited, ReadInv, HistoryInv, OutcomeInv, WasThere, obsVars, readVars, previousVars, diskVars
  <2>4. QED
    BY <2>2, <2>3 DEF ReadInv
<1>13. CASE ComposeFails
  BY <1>13, ReturnKeeps DEF ComposeFails, Result, Errors
<1>14. CASE Stabilized
  BY <1>14, ReturnKeeps DEF Stabilized, Result
<1>15. CASE Exhausted
  BY <1>15, ReturnKeeps DEF Exhausted, Result
<1>16. CASE CallerContextDone
  <2>1. UNCHANGED <<job, readVars, previousVars, boundary, round, diskVars, callVars>>
    BY <1>16 DEF CallerContextDone
  <2>2. Wanted' = Wanted /\ \A stage \in Stages : SlotsAt(stage)' = SlotsAt(stage)
    BY <2>1 DEF Wanted, SlotsAt, callVars
  <2>3. QED
    BY <2>1, <2>2 DEF ReadInv, HistoryInv, CompleteInv, OutcomeInv, Agree, WasThere, Listed, HasAll,
       Stages, readVars, previousVars, diskVars, callVars
<1>17. ASSUME NEW c \in Cells, NEW v \in Contents,
              Edit(c, v) \/ \E w \in Writers : WriterWrites(w, c, v)
       PROVE  ReadInv'
  BY <1>17, ChangeKeeps DEF Edit, WriterWrites
<1>18. CASE CallerRelease \/ (\E r \in Readers : OtherReader(r)) \/ (\E w \in Writers : Writer(w))
             \/ Terminated \/ UNCHANGED vars
  BY <1>1, <1>18 DEF CallerRelease, OtherReader, Writer, Terminated, vars
<1>19. QED
  BY <1>2, <1>3, <1>4, <1>5, <1>6, <1>7, <1>8, <1>9, <1>10, <1>11, <1>12, <1>13, <1>14, <1>15,
     <1>16, <1>17, <1>18 DEF Next, CallerStep

(***************************************************************************)
(* ReadInv is an invariant of the call.                                    *)
(***************************************************************************)
LEMMA ReadInvariant == Spec => [](TypeOK /\ ErrorInv /\ ReadInv)
<1>1. Init => ErrorInv
  BY SnapshotAssumption DEF Init, LocksInit, ErrorInv, ContextInv, ErrorHasCause
<1>2. Init => ReadInv
  BY DEF Init, ReadInv, HistoryInv, CompleteInv, OutcomeInv, WasThere, Listed, Blank, Unordered
<1>3. QED
  BY <1>1, <1>2, ErrorStep, ReadStep, SnapshotTypeCorrect, PTL DEF Spec

-----------------------------------------------------------------------------
(* Existence, when no content comes back                                   *)

(***************************************************************************)
(* When contents only grow, an observation reads contents between the      *)
(* state it began with and the present one, and its predecessor read none  *)
(* that is later than that beginning.                                      *)
(***************************************************************************)
OrderInv ==
  /\ \A c \in Cells : boundary[c] <= disk[c]
  /\ \A s \in Slots : got[s] # Unread =>
        boundary[CellOf[s]] <= got[s] /\ got[s] <= disk[CellOf[s]]
  /\ \A s \in Slots : previous[s] # Unread => previous[s] <= boundary[CellOf[s]]

(***************************************************************************)
(* A step preserves OrderInv when contents never come back: two            *)
(* observations in a row read no cell backwards.                           *)
(***************************************************************************)
LEMMA OrderStep ==
  ASSUME ~Reverts
  PROVE  TypeOK /\ OrderInv /\ [Next]_vars => OrderInv'
<1> SUFFICES ASSUME TypeOK, OrderInv, [Next]_vars
             PROVE  OrderInv'
  OBVIOUS
<1>1. /\ disk \in [Cells -> Nat] /\ boundary \in [Cells -> Nat]
      /\ \A s \in Slots : CellOf[s] \in Cells
      /\ \A s \in Slots : got[s] # Unread => got[s] \in Nat
      /\ \A s \in Slots : previous[s] # Unread => previous[s] \in Nat
  BY SnapshotAssumption DEF TypeOK
<1>2. ASSUME UNCHANGED <<disk, boundary, got, previous>>
      PROVE  OrderInv'
  BY <1>2 DEF OrderInv
<1>3. ASSUME StartObservation, previous' = previous \/ previous' = got, UNCHANGED disk
      PROVE  OrderInv'
  <2>1. \A s \in Slots : previous'[s] # Unread => previous'[s] <= disk[CellOf[s]]
    BY <1>1, <1>3 DEF OrderInv
  <2>2. QED
    BY <1>1, <1>3, <2>1 DEF OrderInv, StartObservation, Blank
<1>4. ASSUME NEW s \in Slots, ReadSlot(s), UNCHANGED <<disk, boundary, previous>>
      PROVE  OrderInv'
  BY <1>1, <1>4 DEF OrderInv, ReadSlot, TypeOK
<1>5. ASSUME NEW c \in Cells, NEW v \in Contents, Changing(c, v)
      PROVE  OrderInv'
  <2>1. \A d \in Cells : disk'[d] \in Nat /\ disk[d] <= disk'[d]
    <3>1. disk' = [disk EXCEPT ![c] = v] /\ v > disk[c]
      BY <1>5 DEF Changing
    <3>2. v \in Nat
      BY <1>5, SnapshotAssumption
    <3>3. QED
      BY <1>1, <3>1, <3>2
  <2>2. UNCHANGED <<boundary, got, previous>>
    BY <1>5 DEF Changing, obsVars, readVars, previousVars
  <2>3. QED
    BY <1>1, <2>1, <2>2 DEF OrderInv
<1>6. CASE BeginLockless \/ BeginObserving \/ ObserveAgain
  BY <1>3, <1>6 DEF BeginLockless, BeginObserving, ObserveAgain, previousVars, diskVars
<1>7. CASE ComposeReads \/ \E p \in Parts : PartReads(p)
  BY <1>4, <1>7 DEF ComposeReads, PartReads, SlotsAt, previousVars, diskVars
<1>8. ASSUME NEW c \in Cells, NEW v \in Contents,
             Edit(c, v) \/ \E w \in Writers : WriterWrites(w, c, v)
      PROVE  OrderInv'
  BY <1>5, <1>8 DEF Edit, WriterWrites
<1>9. CASE Reject \/ BeginLocked \/ CallerAcquire \/ CallerRelease \/ ObservationFails
           \/ PartsAgree \/ ComposeFails \/ Stabilized \/ Exhausted
  BY <1>2, <1>9 DEF Reject, BeginLocked, CallerAcquire, CallerRelease, ObservationFails,
     PartsAgree, ComposeFails, Stabilized, Exhausted, obsVars, readVars, previousVars, diskVars
<1>10. CASE \E p \in Parts : PartSucceeds(p) \/ PartFails(p) \/ PartStops(p)
  BY <1>2, <1>10 DEF PartSucceeds, PartFails, PartStops, readVars, previousVars, diskVars
<1>11. CASE CallerContextDone \/ (\E r \in Readers : OtherReader(r)) \/ (\E w \in Writers : Writer(w))
            \/ Terminated \/ UNCHANGED vars
  BY <1>2, <1>11 DEF CallerContextDone, OtherReader, Writer, Terminated, vars, obsVars, readVars, previousVars, diskVars
<1>12. QED
  BY <1>6, <1>7, <1>8, <1>9, <1>10, <1>11 DEF Next, CallerStep

(***************************************************************************)
(* When no content comes back, all that a returned snapshot reports was on *)
(* disk at one instant: the beginning of its second observation.           *)
(***************************************************************************)
THEOREM SnapshotExistedAlways ==
  ASSUME ~Reverts
  PROVE  Spec => []SnapshotExisted
<1>1. Init => OrderInv
  BY SnapshotAssumption DEF Init, OrderInv, Blank
<1>2. TypeOK /\ ReadInv /\ OrderInv => SnapshotExisted
  <2> SUFFICES ASSUME TypeOK, ReadInv, OrderInv, result = "ok"
               PROVE  \E d \in window : \A s \in Wanted : got[s] = d[CellOf[s]]
    BY DEF SnapshotExisted
  <2>1. round > 1 /\ got = previous /\ \A s \in Wanted : got[s] # Unread
    BY DEF ReadInv, OutcomeInv, Agree, readVars, previousVars
  <2>2. boundary \in window
    BY <2>1 DEF ReadInv, HistoryInv, TypeOK
  <2>3. ASSUME NEW s \in Wanted
        PROVE  got[s] = boundary[CellOf[s]]
    <3>1. s \in Slots /\ got[s] # Unread
      BY <2>1 DEF Wanted, SlotsAt
    <3>2. boundary[CellOf[s]] <= got[s] /\ got[s] <= boundary[CellOf[s]]
      BY <2>1, <3>1 DEF OrderInv
    <3>3. got[s] \in Nat /\ boundary[CellOf[s]] \in Nat
      BY <3>1, SnapshotAssumption DEF TypeOK
    <3>4. QED
      BY <3>2, <3>3
  <2>4. QED
    BY <2>2, <2>3
<1>3. QED
  BY <1>1, <1>2, OrderStep, ReadInvariant, PTL DEF Spec

-----------------------------------------------------------------------------
(* The locked part                                                         *)

Observing == phase \in {"observing", "composing"}
IsLocked(c) == LockOf[c] \in PathsOf(Caller)

(***************************************************************************)
(* A locked observation has its locks from its beginning to its end.       *)
(***************************************************************************)
HoldInv ==
  /\ phase = "locking" => request.mode = "locked"
  /\ request.mode = "locked" /\ Observing => rpc[Caller] = "locked"

(***************************************************************************)
(* A step preserves HoldInv: a locked observation runs only between the    *)
(* last lock taken and the first one released.                             *)
(***************************************************************************)
LEMMA HoldStep == TypeOK /\ HoldInv /\ [Next]_vars => HoldInv'
<1> SUFFICES ASSUME TypeOK, HoldInv, [Next]_vars
             PROVE  HoldInv'
  OBVIOUS
<1> USE DEF HoldInv, Observing
<1>1. CASE Reject \/ ObservationFails \/ ComposeFails \/ Stabilized \/ Exhausted
  BY <1>1 DEF Reject, ObservationFails, ComposeFails, Stabilized, Exhausted, Return
<1>2. CASE BeginLocked
  BY <1>2 DEF BeginLocked
<1>3. CASE BeginLockless \/ BeginObserving \/ ObserveAgain
  BY <1>3 DEF BeginLockless, BeginObserving, ObserveAgain, Composed, StartObservation, lockVars
<1>4. CASE CallerAcquire \/ CallerRelease
  BY <1>4 DEF CallerAcquire, CallerRelease, Return, callVars
<1>5. CASE PartsAgree \/ ComposeReads
  BY <1>5 DEF PartsAgree, Waited, ComposeReads, lockVars, callVars
<1>6. CASE \E p \in Parts : PartReads(p) \/ PartSucceeds(p) \/ PartFails(p) \/ PartStops(p)
  BY <1>6 DEF PartReads, PartSucceeds, PartFails, PartStops, lockVars, callVars
<1>7. CASE CallerContextDone
  BY <1>7 DEF CallerContextDone, ContextDone, readerVars, callVars
<1>8. ASSUME NEW r \in Readers \ {Caller}, OtherReader(r)
      PROVE  HoldInv'
  <2>1. rpc'[Caller] = rpc[Caller]
    BY <1>8, SnapshotAssumption DEF OtherReader, Observe, Acquire, Finish, Release, ReleaseLast,
       Released, ContextDone, SkipDuplicate, FailDone, OpenMissing, OpenFails, Open, Grant,
       Conflict, LockFails, Retry, GiveUp, AllObserved, readerVars, TypeOK, LocksTypeOK
  <2>2. QED
    BY <1>8, <2>1 DEF OtherReader, callVars
<1>9. CASE \E w \in Writers : Writer(w)
  BY <1>9 DEF Writer, WriterBegin, WriterRun, WriterOpen, WriterLock, WriterCommit,
     WriterUnlock, readerVars, callVars
<1>10. CASE \E c \in Cells, v \in Contents : Edit(c, v) \/ \E w \in Writers : WriterWrites(w, c, v)
  BY <1>10 DEF Edit, WriterWrites, Changing, lockVars, callVars
<1>11. CASE Terminated \/ UNCHANGED vars
  BY <1>11 DEF Terminated, vars, lockVars, callVars
<1>12. QED
  BY <1>1, <1>2, <1>3, <1>4, <1>5, <1>6, <1>7, <1>8, <1>9, <1>10, <1>11 DEF Next, CallerStep

(***************************************************************************)
(* While a locked observation runs nobody changes what its locks protect.  *)
(***************************************************************************)
LEMMA NobodyWrites ==
  ASSUME ~Rogue, LockedMeansProtected, HoldInv, request.mode = "locked", Observing, [Next]_vars,
         NEW c \in Cells, IsLocked(c)
  PROVE  disk'[c] = disk[c]
<1>1. \A w \in Writers : excl[LockOf[c]] # w
  BY SnapshotAssumption, LockAssumption DEF HoldInv, LockedMeansProtected, IsLocked
<1>2. LockOf[c] # NoLock
  BY SnapshotAssumption, PathTyped DEF IsLocked, PathsOf
<1>3. ASSUME NEW d \in Cells, NEW v \in Contents, Edit(d, v)
      PROVE  disk'[c] = disk[c]
  BY <1>2, <1>3 DEF Edit, Changing
<1>4. ASSUME NEW w \in Writers, NEW d \in Cells, NEW v \in Contents, WriterWrites(w, d, v)
      PROVE  disk'[c] = disk[c]
  BY <1>1, <1>4 DEF WriterWrites, Changing
<1>5. CASE UNCHANGED disk
  BY <1>5
<1>6. QED
  BY <1>3, <1>4, <1>5 DEF Next, Reject, BeginLocked, BeginLockless, CallerStep, CallerAcquire,
     BeginObserving, CallerRelease, PartReads, PartSucceeds, PartFails, PartStops,
     ObservationFails, PartsAgree, ComposeReads, ComposeFails, ObserveAgain, Stabilized, Exhausted,
     CallerContextDone, OtherReader, Writer, Terminated, vars, diskVars

(***************************************************************************)
(* The locks are held and protect during every locked observation.         *)
(***************************************************************************)
LEMMA HoldInvariant ==
  ASSUME "absent" \notin InitialKinds
  PROVE  Spec => [](TypeOK /\ HoldInv /\ LockedMeansProtected)
<1>1. Init => HoldInv
  BY DEF Init, HoldInv, Observing
<1>2. QED
  BY <1>1, HoldStep, SnapshotTypeCorrect, SnapshotUsesLocks, ProtectedWhenPresent, PTL DEF Spec

(***************************************************************************)
(* Where the lock files exist and writers observe them, locked state does  *)
(* not change from the first read of the first observation to the last.    *)
(***************************************************************************)
THEOREM StableWhileLockedAlways ==
  ASSUME ~Rogue, "absent" \notin InitialKinds
  PROVE  Spec => StableWhileLocked
<1>1. HoldInv /\ LockedMeansProtected /\ [Next]_vars =>
        [request.mode = "locked" /\ phase \in {"observing", "composing"} =>
           \A c \in Cells : LockOf[c] \in PathsOf(Caller) => disk'[c] = disk[c]]_vars
  BY NobodyWrites DEF Observing, IsLocked
<1>2. QED
  BY <1>1, HoldInvariant, PTL DEF Spec, StableWhileLocked

(***************************************************************************)
(* What a locked observation has read of locked state is what was there    *)
(* when it began, and is there still.                                      *)
(***************************************************************************)
LockedViewInv ==
  request.mode = "locked" =>
    /\ Observing => \A c \in Cells : IsLocked(c) => disk[c] = boundary[c]
    /\ \A s \in Slots : IsLocked(CellOf[s]) /\ got[s] # Unread => got[s] = boundary[CellOf[s]]

(***************************************************************************)
(* A step preserves LockedViewInv: what a locked observation reads of the  *)
(* protected cells is what they held when it began.                        *)
(***************************************************************************)
LEMMA LockedViewStep ==
  ASSUME ~Rogue
  PROVE  TypeOK /\ HoldInv /\ LockedMeansProtected /\ LockedViewInv /\ [Next]_vars => LockedViewInv'
<1> SUFFICES ASSUME TypeOK, HoldInv, LockedMeansProtected, LockedViewInv, [Next]_vars,
                    request'.mode = "locked"
             PROVE  LockedViewInv'
  BY DEF LockedViewInv
<1>1. \A s \in Slots : CellOf[s] \in Cells
  BY SnapshotAssumption
<1>2. \A c \in Cells : IsLocked(c)' = IsLocked(c)
  BY DEF IsLocked, PathsOf
<1>3. ASSUME UNCHANGED <<boundary, got, request>>, Observing' => Observing
      PROVE  LockedViewInv'
  <2>1. CASE Observing
    <3>1. \A c \in Cells : IsLocked(c) => disk'[c] = disk[c]
      BY <1>3, <2>1, NobodyWrites
    <3>2. QED
      BY <1>1, <1>2, <1>3, <2>1, <3>1 DEF LockedViewInv
  <2>2. CASE ~Observing
    BY <1>1, <1>2, <1>3, <2>2 DEF LockedViewInv
  <2>3. QED
    BY <2>1, <2>2
<1>4. ASSUME StartObservation, UNCHANGED disk
      PROVE  LockedViewInv'
  BY <1>4 DEF StartObservation, LockedViewInv, Blank
<1>5. ASSUME NEW s \in Slots, ReadSlot(s), Observing, UNCHANGED <<disk, boundary, request>>
      PROVE  LockedViewInv'
  BY <1>1, <1>2, <1>5 DEF ReadSlot, LockedViewInv, TypeOK
<1>6. CASE BeginLockless \/ BeginObserving \/ ObserveAgain
  BY <1>4, <1>6 DEF BeginLockless, BeginObserving, ObserveAgain, diskVars
<1>7. CASE ComposeReads \/ \E p \in Parts : PartReads(p)
  BY <1>5, <1>7 DEF ComposeReads, PartReads, SlotsAt, Observing, diskVars, callVars
<1>8. CASE Reject \/ BeginLocked \/ CallerAcquire \/ CallerRelease \/ ObservationFails
           \/ ComposeFails \/ Stabilized \/ Exhausted
  BY <1>3, <1>8 DEF Reject, BeginLocked, CallerAcquire, CallerRelease, ObservationFails,
     ComposeFails, Stabilized, Exhausted, Return, Observing, obsVars, readVars, previousVars, callVars
<1>9. CASE PartsAgree \/ \E p \in Parts : PartSucceeds(p) \/ PartFails(p) \/ PartStops(p)
  BY <1>3, <1>9 DEF PartsAgree, Waited, PartSucceeds, PartFails, PartStops, Observing, obsVars, readVars, previousVars, callVars
<1>10. CASE CallerContextDone \/ (\E r \in Readers : OtherReader(r)) \/ (\E w \in Writers : Writer(w))
            \/ Terminated \/ UNCHANGED vars
  BY <1>3, <1>10 DEF CallerContextDone, OtherReader, Writer, Terminated, vars, Observing, obsVars, readVars, previousVars, callVars
<1>11. CASE \E c \in Cells, v \in Contents : Edit(c, v) \/ \E w \in Writers : WriterWrites(w, c, v)
  BY <1>3, <1>11 DEF Edit, WriterWrites, Changing, Observing, obsVars, readVars, previousVars, callVars
<1>12. QED
  BY <1>6, <1>7, <1>8, <1>9, <1>10, <1>11 DEF Next, CallerStep

(***************************************************************************)
(* Where the lock files exist and writers observe them, all that a locked  *)
(* snapshot reports of locked state was on disk at one instant, even when  *)
(* contents come back.                                                     *)
(***************************************************************************)
THEOREM LockedPartExistedAlways ==
  ASSUME ~Rogue, "absent" \notin InitialKinds
  PROVE  Spec => []LockedPartExisted
<1>1. Init => LockedViewInv
  BY DEF Init, LockedViewInv, Observing, Blank
<1>2. ReadInv /\ TypeOK /\ LockedViewInv => LockedPartExisted
  <2> SUFFICES ASSUME ReadInv, TypeOK, LockedViewInv, result = "ok", request.mode = "locked"
               PROVE  \E d \in window : \A s \in Wanted :
                         IsLocked(CellOf[s]) => got[s] = d[CellOf[s]]
    BY DEF LockedPartExisted, IsLocked
  <2>1. boundary \in window
    BY DEF ReadInv, OutcomeInv, HistoryInv, TypeOK
  <2>2. \A s \in Wanted : s \in Slots /\ got[s] # Unread
    BY DEF ReadInv, OutcomeInv, Wanted, SlotsAt
  <2>3. QED
    BY <2>1, <2>2 DEF LockedViewInv
<1>3. QED
  BY <1>1, <1>2, LockedViewStep, HoldInvariant, ReadInvariant, PTL DEF Spec

-----------------------------------------------------------------------------
(* The contract                                                            *)

ContractInv == TypeOK /\ ErrorInv /\ ReadInv /\ SnapshotExisted

(***************************************************************************)
(* What the caller sees of each way on and out of the call.                *)
(***************************************************************************)
LEMMA StatusOf ==
  ASSUME ReadInv
  PROVE  /\ phase = "ready" => Status = "idle"
         /\ phase \notin {"ready", "returning"} => Status = "running" /\ View = Unread
         /\ result # "ok" => View = Unread
         /\ phase = "returning" /\ result \in {"ok", "changed"} => Status = result
         /\ phase = "returning" /\ result \notin {"ok", "changed"} => Status = "error"
BY DEF Status, View, ReadInv, OutcomeInv

(***************************************************************************)
(* A call that fails, fails for its caller too.                            *)
(***************************************************************************)
LEMMA FailIsFail ==
  ASSUME ReadInv, ReadInv', phase # "returning", UNCHANGED diskVars,
         NEW r \in Result \ {"none", "ok", "changed"}, Return(r)
  PROVE  Contract!Fail
<1>1. phase' = "returning" /\ result' = r /\ UNCHANGED request
  BY DEF Return
<1>2. Status \in {"idle", "running"} /\ View = Unread
  BY StatusOf DEF View, ReadInv, OutcomeInv
<1>3. Status' = "error" /\ View' = Unread
  BY <1>1 DEF Status, View
<1>4. Wanted' = Wanted
  BY <1>1 DEF Wanted, SlotsAt
<1>5. QED
  BY <1>2, <1>3, <1>4 DEF Contract!Fail, diskVars

(***************************************************************************)
(* Two whole observations that differ show two states of the window, or    *)
(* two orders of the same content.                                         *)
(***************************************************************************)
LEMMA DifferenceShows ==
  ASSUME TypeOK, ReadInv, Composed, round > 1, ~Agree
  PROVE  \/ \E d, e \in window : d # e
         \/ \E d \in window, s \in Wanted : \E a, b \in Orders[s][d[CellOf[s]]] : a # b
<1>1. PICK s \in Slots : got[s] # previous[s] \/ order[s] # previousOrder[s]
  BY DEF TypeOK, Agree, readVars, previousVars
<1>2. s \in Wanted
  BY <1>1 DEF ReadInv, CompleteInv, HistoryInv, Listed
<1>3. got[s] # Unread /\ previous[s] # Unread
  BY <1>2, ComposedHasAll DEF ReadInv, CompleteInv
<1>4. PICK d \in window : got[s] = d[CellOf[s]]
  BY <1>3 DEF ReadInv, HistoryInv, WasThere
<1>5. PICK e \in window : previous[s] = e[CellOf[s]]
  BY <1>3 DEF ReadInv, HistoryInv, WasThere
<1>6. CASE got[s] # previous[s]
  BY <1>4, <1>5, <1>6
<1>7. CASE got[s] = previous[s]
  <2>1. order[s] \in Orders[s][got[s]] /\ previousOrder[s] \in Orders[s][got[s]]
    BY <1>3, <1>7 DEF ReadInv, HistoryInv, Listed
  <2>2. QED
    BY <1>1, <1>2, <1>4, <1>7, <2>1
<1>8. QED
  BY <1>6, <1>7

(***************************************************************************)
(* Every step of a call is a step of the contract or leaves all that the   *)
(* contract shows of it unchanged.                                         *)
(***************************************************************************)
LEMMA ContractStep ==
  ContractInv /\ ContractInv' /\ [Next]_vars => [Contract!Next]_Contract!vars
<1> SUFFICES ASSUME TypeOK, ErrorInv, ReadInv, SnapshotExisted, TypeOK', ReadInv', SnapshotExisted',
                    [Next]_vars
             PROVE  Contract!Next \/ UNCHANGED Contract!vars
  BY DEF ContractInv
<1>1. UNCHANGED request => Wanted' = Wanted
  BY DEF Wanted, SlotsAt
<1>2. ASSUME UNCHANGED <<request, result, diskVars>>, phase' = "ready" <=> phase = "ready",
             phase = "returning" => UNCHANGED readVars
      PROVE  UNCHANGED Contract!vars
  <2>1. Status' = Status
    BY <1>2 DEF Status
  <2>2. View' = View
    BY <1>1, <1>2 DEF View, ReadInv, OutcomeInv, readVars
  <2>3. QED
    BY <1>1, <1>2, <2>1, <2>2 DEF Contract!vars, diskVars
<1>3. ASSUME NEW c \in Cells, NEW v \in Contents, Changing(c, v)
      PROVE  Contract!Next
  <2>1. Status' = Status /\ View' = View /\ Wanted' = Wanted
    BY <1>1, <1>3 DEF Status, View, Changing, obsVars, readVars, previousVars, callVars
  <2>2. /\ Status = "idle" <=> phase = "ready"
        /\ Status = "running" <=> phase \notin {"ready", "returning"}
    BY DEF Status, ReadInv, OutcomeInv, TypeOK
  <2>3. disk' \in [Contract!StateCells -> Contents]
    BY SnapshotAssumption DEF TypeOK, Contract!StateCells
  <2>4. window' = CASE Status = "idle" -> {disk'}
                    [] Status = "running" -> window \cup {disk'}
                    [] OTHER -> window
    BY <1>3, <2>2 DEF Changing
  <2>5. QED
    BY <2>1, <2>3, <2>4 DEF Contract!Next, Contract!Change
<1>4. CASE Reject
  BY <1>4, FailIsFail DEF Reject, Contract!Next, TypeOK, Result, Errors
<1>5. CASE BeginLocked \/ BeginLockless
  <2>1. Status = "idle" /\ View = Unread /\ UNCHANGED <<diskVars, request>>
    BY <1>5, StatusOf DEF BeginLocked, BeginLockless, StartObservation, ReadInv, OutcomeInv
  <2>2. phase' \in {"locking", "observing"} /\ result' = "none"
    BY <1>5 DEF BeginLocked, BeginLockless, StartObservation, ReadInv, OutcomeInv
  <2>3. Status' = "running" /\ View' = Unread
    BY <2>2 DEF Status, View
  <2>4. QED
    BY <1>1, <2>1, <2>3 DEF Contract!Next, Contract!Begin, diskVars
<1>6. CASE CallerAcquire
  <2>1. CASE UNCHANGED callVars
    BY <1>2, <1>6, <2>1 DEF CallerAcquire, callVars, obsVars, readVars, previousVars
  <2>2. CASE Return("unavailable")
    BY <1>6, <2>2, FailIsFail DEF CallerAcquire, Contract!Next, Result
  <2>3. CASE (FailDone(Caller) \/ GiveUp(Caller)) /\ Return(ending)
    BY <1>6, <2>3, FailIsFail DEF CallerAcquire, Contract!Next, Result, Errors, FailDone, GiveUp,
       ErrorInv, ContextInv, TypeOK
  <2>4. QED
    BY <1>6, <2>1, <2>2, <2>3 DEF CallerAcquire
<1>7. CASE BeginObserving \/ ObserveAgain
  BY <1>2, <1>7 DEF BeginObserving, ObserveAgain, Composed, StartObservation
<1>8. CASE ComposeReads \/ PartsAgree
           \/ \E p \in Parts : PartReads(p) \/ PartSucceeds(p) \/ PartFails(p) \/ PartStops(p)
  BY <1>2, <1>8 DEF ComposeReads, PartsAgree, Waited, PartReads, PartSucceeds, PartFails,
     PartStops, callVars, obsVars, readVars, previousVars
<1>9. CASE ObservationFails
  <2>1. phase # "returning" /\ UNCHANGED diskVars
    BY <1>9 DEF ObservationFails, Waited
  <2>2. PICK r \in Result \ {"none", "ok", "changed"} : Return(r)
    BY <1>9 DEF ObservationFails, FirstError, Result, Errors, TypeOK
  <2>3. QED
    BY <2>1, <2>2, FailIsFail DEF Contract!Next
<1>10. CASE ComposeFails
  BY <1>10, FailIsFail DEF ComposeFails, Contract!Next, Result, Errors
<1>11. CASE Stabilized
  <2>1. phase \notin {"ready", "returning"} /\ phase' = "returning" /\ result' = "ok"
        /\ UNCHANGED <<request, readVars, diskVars>>
    BY <1>11 DEF Stabilized, Composed, Return, obsVars
  <2>2. Status = "running" /\ Status' = "ok" /\ Wanted' = Wanted
    BY <1>1, <2>1, StatusOf DEF Status
  <2>3. PICK d \in window : \A s \in Wanted : got[s] = d[CellOf[s]]
    BY <2>1, <2>2 DEF SnapshotExisted, readVars, diskVars
  <2>4. View' \in Contract!ViewsOf(d)
    <3>1. View' = [s \in Wanted |-> [content |-> got[s], order |-> order[s]]]
      BY <2>1, <2>2 DEF View, readVars
    <3>2. \A s \in Wanted : s \in Slots /\ got[s] # Unread
      BY <1>11, ComposedHasAll DEF ReadInv, Stabilized, Wanted, SlotsAt
    <3>3. \A s \in Wanted : got[s] \in Contents /\ order[s] \in Nat /\ order[s] \in Orders[s][got[s]]
      BY <3>2 DEF TypeOK, ReadInv, HistoryInv, Listed
    <3>4. QED
      BY <2>3, <3>1, <3>3 DEF Contract!ViewsOf
  <2>5. QED
    BY <2>1, <2>2, <2>4 DEF Contract!Next, Contract!Succeed, diskVars
<1>12. CASE Exhausted
  <2>1. phase \notin {"ready", "returning"} /\ phase' = "returning" /\ result' = "changed"
        /\ UNCHANGED <<request, diskVars>>
    BY <1>12 DEF Exhausted, Composed, Return, obsVars, readVars, previousVars
  <2>2. Status = "running" /\ Status' = "changed" /\ View = Unread /\ View' = Unread
    BY <2>1, StatusOf DEF Status, View
  <2>3. (\E d, e \in window : d # e) \/ (\E d \in window : Contract!Varies(d))
    BY <1>12, DifferenceShows DEF Exhausted, Contract!Varies
  <2>4. QED
    BY <1>1, <2>1, <2>2, <2>3 DEF Contract!Next, Contract!Changed, diskVars
<1>13. CASE CallerContextDone
  BY <1>2, <1>13 DEF CallerContextDone, callVars
<1>14. CASE \E c \in Cells, v \in Contents : Edit(c, v) \/ \E w \in Writers : WriterWrites(w, c, v)
  BY <1>3, <1>14 DEF Edit, WriterWrites
<1>15. CASE CallerRelease \/ (\E r \in Readers : OtherReader(r)) \/ (\E w \in Writers : Writer(w))
            \/ Terminated \/ UNCHANGED vars
  BY <1>2, <1>15 DEF CallerRelease, OtherReader, Writer, Terminated, vars, obsVars, readVars, previousVars, callVars
<1>16. QED
  BY <1>4, <1>5, <1>6, <1>7, <1>8, <1>9, <1>10, <1>11, <1>12, <1>13, <1>14, <1>15
     DEF Next, CallerStep

(***************************************************************************)
(* When no content comes back the call implements its contract.            *)
(***************************************************************************)
THEOREM ContractImplemented ==
  ASSUME ~Reverts
  PROVE  Spec => ImplementsContract
<1>1. Init => Contract!Init
  <2> SUFFICES ASSUME Init
               PROVE  Contract!Init
    OBVIOUS
  <2>1. Status = "idle" /\ View = Unread
    BY DEF Init, Status, View
  <2>2. Wanted \in SUBSET Slots
    BY DEF Wanted, SlotsAt
  <2>3. disk \in [Contract!StateCells -> Contents] /\ window = {disk}
    BY SnapshotAssumption DEF Init, Contract!StateCells
  <2>4. QED
    BY <2>1, <2>2, <2>3 DEF Contract!Init
<1>2. Spec => []ContractInv
  <2>1. Spec => []SnapshotExisted
    BY SnapshotExistedAlways
  <2>2. TypeOK /\ ErrorInv /\ ReadInv /\ SnapshotExisted => ContractInv
    BY DEF ContractInv
  <2>3. QED
    BY <2>1, <2>2, ReadInvariant, PTL
<1>3. QED
  BY <1>1, <1>2, ContractStep, PTL DEF Spec, ImplementsContract, Contract!Spec
=============================================================================
