---------------------------- MODULE SystemSnapshot ----------------------------
(***************************************************************************)
(* ReadSystemSnapshot (snapshot.go) over the state locks of StateLocks.    *)
(*                                                                         *)
(* One call, Caller, is modelled whole: its argument checks, its locks,    *)
(* the observations with their three goroutines and the context they       *)
(* share, the comparison of consecutive observations, the deferred         *)
(* release.  Cooperating writers change locked state under their locks;    *)
(* administrators edit what no lock covers, at any time; a rogue writer    *)
(* ignores the locks.                                                      *)
(*                                                                         *)
(* A cell is a piece of persistent state that is read in one step; a slot  *)
(* is a piece of an observation.  A slot of stage "system" is read by      *)
(* selectionsFromProfile after the goroutines: systemSelectionLine opens   *)
(* the profile's packages file again.                                      *)
(***************************************************************************)
EXTENDS StateLocks

CONSTANTS
  Caller,     \* the reader that is the modelled call
  Cells,      \* pieces of persistent state
  LockOf,     \* LockOf[c]: the lock path that protects cell c, or NoLock
  Slots,      \* pieces of an observation
  CellOf,     \* CellOf[s]: the cell that slot s reports
  StageOf,    \* StageOf[s]: the step of an observation that reads slot s
  Contents,   \* contents of a cell (numbers, ordered by time unless Reverts)
  Orders,     \* Orders[s][v]: the orders in which slot s may list content v
  Unread,     \* not a content: a slot that has not been read
  Reverts,    \* may a cell get a content it had before?
  Rogue,      \* do writers exist that ignore the locks?
  Requests,   \* the options the caller may pass
  Flaky,      \* stages that may fail on their own
  MaxChange,  \* changes of the persistent state (bound of the model)
  Endless     \* do changes beside a lockless call go on without that bound?

NoLock == "nolock"

\* The three goroutines of readSystemObservation, in the order of errs.
Parts == {"installed", "config", "world"}
Stages == Parts \cup {"candidates", "system"}
Mode == {"locked", "lockless", "unknown"}

ASSUME SnapshotAssumption ==
  /\ Caller \in Readers
  /\ LockOf \in [Cells -> Paths \cup {NoLock}]
  /\ NoLock \notin Paths
  /\ CellOf \in [Slots -> Cells]
  /\ Cells = {CellOf[s] : s \in Slots}
  /\ StageOf \in [Slots -> Stages]
  /\ Contents \subseteq Nat /\ Unread \notin Contents
  /\ Orders \in [Slots -> [Contents -> SUBSET Nat]]
  /\ \A s \in Slots, v \in Contents :
        IF StageOf[s] = "candidates" THEN Orders[s][v] # {} ELSE Orders[s][v] = {0}
  /\ Reverts \in BOOLEAN /\ Rogue \in BOOLEAN /\ Endless \in BOOLEAN
  /\ Requests \subseteq [mode : Mode, attempts : Nat, candidates : BOOLEAN]
  /\ MaxChange \in Nat

VARIABLES
  disk,      \* disk[c]: content of cell c
  changes,   \* number of changes so far
  request,   \* the caller's SnapshotOptions
  ending,    \* Err() of its context: "none", "canceled" or "deadline"
  phase,     \* "ready", "locking", "observing", "composing" or "returning"
  round,     \* complete or current observation, from 1
  job,       \* job[p]: "run", "ok" or the error of goroutine p
  obsErr,    \* Err() of the observation's context, or "none"
  got,       \* got[s]: what this observation read for slot s
  order,     \* order[s]: the order in which that lists its items
  previous, previousOrder,  \* both of the observation before it
  result,    \* outcome of the call, "none" before it is known
  boundary,  \* history: disk when the current observation began
  window     \* history: every disk from the call to its outcome

readVars == <<got, order>>
previousVars == <<previous, previousOrder>>
obsVars == <<job, obsErr, readVars, previousVars, boundary, round>>
diskVars == <<disk, changes, window>>
callVars == <<request, phase, result>>
vars == <<lockVars, ending, obsVars, diskVars, callVars>>

Blank == [s \in Slots |-> Unread]
Unordered == [s \in Slots |-> 0]
Errors == {"failed", "canceled", "deadline"}
Result == Errors \cup {"none", "ok", "invalid", "unavailable", "changed"}

\* attempts zero uses 3
Limit == IF request.attempts = 0 THEN 3 ELSE request.attempts

Init ==
  /\ LocksInit
  /\ disk \in [Cells -> Contents]
  /\ Reverts \/ \A c \in Cells : \A v \in Contents : disk[c] <= v
  /\ changes = 0
  /\ request \in Requests
  /\ ending = "none"
  /\ phase = "ready" /\ round = 0
  /\ job = [p \in Parts |-> "ok"]
  /\ obsErr = "none"
  /\ got = Blank /\ order = Unordered
  /\ previous = Blank /\ previousOrder = Unordered
  /\ result = "none"
  /\ boundary = disk
  /\ window = {disk}

-----------------------------------------------------------------------------
(* The call                                                                *)

Return(r) == phase' = "returning" /\ result' = r /\ UNCHANGED request

\* A child of a context that is done is done; obsErr is its Err().
StartObservation ==
  /\ phase' = "observing" /\ UNCHANGED <<request, result>>
  /\ round' = round + 1
  /\ job' = [p \in Parts |-> "run"]
  /\ obsErr' = ending
  /\ got' = Blank /\ order' = Unordered
  /\ boundary' = disk

Reject ==
  /\ phase = "ready"
  /\ \/ ending # "none" /\ Return(ending)
     \/ /\ ending = "none"
        /\ Limit < 2 \/ request.mode = "unknown"
        /\ Return("invalid")
  /\ UNCHANGED <<lockVars, ending, obsVars, diskVars>>

BeginLocked ==
  /\ phase = "ready" /\ ending = "none" /\ Limit >= 2 /\ request.mode = "locked"
  /\ Observe(Caller)
  /\ phase' = "locking"
  /\ UNCHANGED <<request, result, ending, obsVars, diskVars>>

BeginLockless ==
  /\ phase = "ready" /\ ending = "none" /\ Limit >= 2 /\ request.mode = "lockless"
  /\ StartObservation
  /\ UNCHANGED <<previousVars, lockVars, ending, diskVars>>

\* observeStateLocks
CallerAcquire ==
  /\ phase = "locking"
  /\ \/ (OpenFails(Caller) \/ LockFails(Caller)) /\ Return("unavailable")
     \/ (FailDone(Caller) \/ GiveUp(Caller)) /\ Return(ending)
     \/ /\ \/ SkipDuplicate(Caller) \/ OpenMissing(Caller) \/ Open(Caller) \/ Grant(Caller)
           \/ Conflict(Caller) \/ Retry(Caller) \/ AllObserved(Caller)
        /\ UNCHANGED callVars
  /\ UNCHANGED <<ending, obsVars, diskVars>>

BeginObserving ==
  /\ phase = "locking" /\ rpc[Caller] = "locked"
  /\ StartObservation
  /\ UNCHANGED <<previousVars, lockVars, ending, diskVars>>

\* the deferred releaseStateLocks, and the unwinding of observeLockPaths
CallerRelease ==
  /\ phase = "returning"
  /\ Finish(Caller) \/ Release(Caller)
  /\ UNCHANGED <<callVars, ending, obsVars, diskVars>>

-----------------------------------------------------------------------------
(* One observation: readSystemObservation                                  *)

\* Candidates are read by the config goroutine, when they are asked for.
SlotsAt(stage) ==
  {s \in Slots : StageOf[s] = stage /\ (stage = "candidates" => request.candidates)}

Wanted == UNION {SlotsAt(stage) : stage \in Stages}

AllRead(stage) == \A s \in SlotsAt(stage) : got[s] # Unread

(***************************************************************************)
(* What a slot reports is the content of its cell, in the order in which   *)
(* its reader lists it.  Installed packages and layers are listed in one   *)
(* order; candidates that compare equal come in that of the workers.       *)
(***************************************************************************)
ReadSlot(s) ==
  /\ got[s] = Unread
  /\ got' = [got EXCEPT ![s] = disk[CellOf[s]]]
  /\ \E o \in Orders[s][disk[CellOf[s]]] : order' = [order EXCEPT ![s] = o]

PartReads(p) ==
  /\ phase = "observing" /\ job[p] = "run"
  /\ \E s \in SlotsAt(p) \cup (IF p = "config" /\ AllRead(p) THEN SlotsAt("candidates") ELSE {}) :
        ReadSlot(s)
  /\ UNCHANGED <<job, obsErr, previousVars, boundary, round, lockVars, ending, diskVars, callVars>>

PartSucceeds(p) ==
  /\ phase = "observing" /\ job[p] = "run"
  /\ AllRead(p) /\ (p = "config" => AllRead("candidates"))
  /\ job' = [job EXCEPT ![p] = "ok"]
  /\ UNCHANGED <<obsErr, readVars, previousVars, boundary, round, lockVars, ending, diskVars, callVars>>

\* An error of its own (I/O, invalid data, incomplete inventory): cancel().
PartFails(p) ==
  /\ phase = "observing" /\ job[p] = "run" /\ p \in Flaky
  /\ job' = [job EXCEPT ![p] = "failed"]
  /\ obsErr' = IF obsErr = "none" THEN "canceled" ELSE obsErr
  /\ UNCHANGED <<readVars, previousVars, boundary, round, lockVars, ending, diskVars, callVars>>

\* Defect: the part takes Err() of a context that is not done.
PartStopsAnyway(p) ==
  /\ phase = "observing" /\ job[p] = "run"
  /\ job' = [job EXCEPT ![p] = obsErr]
  /\ UNCHANGED <<obsErr, readVars, previousVars, boundary, round, lockVars, ending, diskVars, callVars>>

\* The part sees that the observation's context is done.
PartStops(p) ==
  /\ phase = "observing" /\ job[p] = "run" /\ obsErr # "none"
  /\ job' = [job EXCEPT ![p] = obsErr]
  /\ UNCHANGED <<obsErr, readVars, previousVars, boundary, round, lockVars, ending, diskVars, callVars>>

Waited == phase = "observing" /\ \A p \in Parts : job[p] # "run"

\* Defect: the first error, a consequence or not.
FirstErrorOfAny(p) ==
  /\ job[p] \in Errors
  /\ p = "config" => job["installed"] = "ok"
  /\ p = "world" => \A q \in {"installed", "config"} : job[q] = "ok"

\* errs[p] is neither nil nor context.Canceled, and the first such
FirstError(p) ==
  /\ job[p] \in {"failed", "deadline"}
  /\ p = "config" => job["installed"] \in {"ok", "canceled"}
  /\ p = "world" => \A q \in {"installed", "config"} : job[q] \in {"ok", "canceled"}

ObservationFails ==
  /\ Waited
  /\ \/ \E p \in Parts : FirstError(p) /\ Return(job[p])
     \/ /\ \A p \in Parts : job[p] \in {"ok", "canceled"}
        /\ ending # "none" /\ Return(ending)
     \/ /\ \A p \in Parts : job[p] \in {"ok", "canceled"}
        /\ ending = "none"
        /\ \E p \in Parts : job[p] = "canceled"
        /\ Return("canceled")
  /\ UNCHANGED <<lockVars, ending, obsVars, diskVars>>

PartsAgree ==
  /\ Waited /\ ending = "none" /\ \A p \in Parts : job[p] = "ok"
  /\ phase' = "composing"
  /\ UNCHANGED <<request, result, lockVars, ending, obsVars, diskVars>>

\* selectionsFromProfile
ComposeReads ==
  /\ phase = "composing"
  /\ \E s \in SlotsAt("system") : ReadSlot(s)
  /\ UNCHANGED <<job, obsErr, previousVars, boundary, round, lockVars, ending, diskVars, callVars>>

ComposeFails ==
  /\ phase = "composing" /\ "system" \in Flaky
  /\ Return("failed")
  /\ UNCHANGED <<lockVars, ending, obsVars, diskVars>>

Composed == phase = "composing" /\ AllRead("system")

\* reflect.DeepEqual: contents and the order of slices
Agree == readVars = previousVars

\* Defect: no bound on the observations (round ends at Limit, to stay finite).
ObserveAgainUnbounded ==
  /\ Composed
  /\ round = 1 \/ ~Agree
  /\ previous' = got /\ previousOrder' = order
  /\ phase' = "observing" /\ UNCHANGED <<request, result>>
  /\ round' = IF round < Limit THEN round + 1 ELSE round
  /\ job' = [p \in Parts |-> "run"]
  /\ obsErr' = ending
  /\ got' = Blank /\ order' = Unordered
  /\ boundary' = disk
  /\ UNCHANGED <<lockVars, ending, diskVars>>

\* the first observation, or one that differs from its predecessor
ObserveAgain ==
  /\ Composed /\ round < Limit
  /\ round = 1 \/ ~Agree
  /\ previous' = got /\ previousOrder' = order
  /\ StartObservation
  /\ UNCHANGED <<lockVars, ending, diskVars>>

\* Defect: the second observation is returned unchecked.
StabilizedUnchecked ==
  /\ Composed /\ round > 1
  /\ Return("ok")
  /\ UNCHANGED <<lockVars, ending, obsVars, diskVars>>

Stabilized ==
  /\ Composed /\ round > 1 /\ Agree
  /\ Return("ok")
  /\ UNCHANGED <<lockVars, ending, obsVars, diskVars>>

\* Defect: the bound is tested before the comparison.
ExhaustedUnchecked ==
  /\ Composed /\ round > 1 /\ round = Limit
  /\ Return("changed")
  /\ UNCHANGED <<lockVars, ending, obsVars, diskVars>>

Exhausted ==
  /\ Composed /\ round > 1 /\ ~Agree /\ round = Limit
  /\ Return("changed")
  /\ UNCHANGED <<lockVars, ending, obsVars, diskVars>>

-----------------------------------------------------------------------------
(* The environment                                                         *)

\* With Endless the state keeps changing beside a lockless call.
Uncounted == Endless /\ request.mode = "lockless"

Changing(c, v) ==
  /\ Uncounted \/ changes < MaxChange
  /\ v # disk[c] /\ (Reverts \/ v > disk[c])
  /\ disk' = [disk EXCEPT ![c] = v]
  /\ changes' = IF Uncounted THEN changes ELSE changes + 1
  /\ window' = CASE phase = "ready" -> {disk'}
                 [] phase = "returning" -> window
                 [] OTHER -> window \cup {disk'}
  /\ UNCHANGED <<lockVars, ending, obsVars, callVars>>

WriterWrites(w, c, v) ==
  /\ LockOf[c] # NoLock /\ excl[LockOf[c]] = w /\ wpc[w] # "unlocking"
  /\ Changing(c, v)

\* An administrator, or a writer whose locks are not the call's concern.
Edit(c, v) == (LockOf[c] = NoLock \/ Rogue \/ request.mode = "lockless") /\ Changing(c, v)

\* The caller's context ends; so does the observation's, its child.
CallerContextDone ==
  /\ ContextDone(Caller)
  /\ ending' \in {"canceled", "deadline"}
  /\ obsErr' = IF phase = "observing" /\ obsErr = "none" THEN ending' ELSE obsErr
  /\ UNCHANGED <<job, readVars, previousVars, boundary, round, diskVars, callVars>>

OtherReader(r) ==
  /\ Observe(r) \/ Acquire(r) \/ Finish(r) \/ Release(r) \/ ContextDone(r)
  /\ UNCHANGED <<ending, obsVars, diskVars, callVars>>

Writer(w) ==
  /\ WriterBegin(w) \/ WriterRun(w)
  /\ UNCHANGED <<ending, obsVars, diskVars, callVars>>

CallerStep ==
  \/ CallerAcquire \/ BeginObserving \/ CallerRelease
  \/ \E p \in Parts : PartReads(p) \/ PartSucceeds(p) \/ PartStops(p)
  \/ ObservationFails \/ PartsAgree \/ ComposeReads \/ ObserveAgain
  \/ Stabilized \/ Exhausted

\* The call has returned to its caller: its deferred release is over.
Returned == phase = "returning" /\ rpc[Caller] \in {"idle", "failed", "done"}

Terminated == Returned /\ UNCHANGED vars

Next ==
  \/ Reject \/ BeginLocked \/ BeginLockless \/ CallerStep
  \/ \E p \in Parts : PartFails(p)
  \/ ComposeFails
  \/ CallerContextDone
  \/ \E c \in Cells, v \in Contents : Edit(c, v)
  \/ \E w \in Writers, c \in Cells, v \in Contents : WriterWrites(w, c, v)
  \/ \E r \in Readers \ {Caller} : OtherReader(r)
  \/ \E w \in Writers : Writer(w)
  \/ Terminated

Spec == Init /\ [][Next]_vars

(***************************************************************************)
(* The scheduler runs the call, its goroutines, the other readers and the  *)
(* transactions that have begun.  No context need end, no part need fail,  *)
(* nothing need change.                                                    *)
(***************************************************************************)
Fairness ==
  /\ WF_vars(CallerStep)
  /\ \A r \in Readers \ {Caller} :
        WF_vars((Acquire(r) \/ Finish(r) \/ Release(r)) /\ OtherReader(r))
  /\ \A w \in Writers : WF_vars(WriterRun(w) /\ Writer(w))

FairSpec == Spec /\ Fairness

-----------------------------------------------------------------------------
(* Properties                                                              *)

\* The type invariant.
TypeOK ==
  /\ LocksTypeOK
  /\ disk \in [Cells -> Contents] /\ boundary \in [Cells -> Contents]
  /\ changes \in 0..MaxChange
  /\ request \in Requests /\ ending \in {"none", "canceled", "deadline"}
  /\ phase \in {"ready", "locking", "observing", "composing", "returning"}
  /\ round \in Nat
  /\ job \in [Parts -> {"run", "ok"} \cup Errors]
  /\ obsErr \in {"none", "canceled", "deadline"}
  /\ got \in [Slots -> Contents \cup {Unread}]
  /\ previous \in [Slots -> Contents \cup {Unread}]
  /\ order \in [Slots -> Nat] /\ previousOrder \in [Slots -> Nat]
  /\ result \in Result
  /\ window \subseteq [Cells -> Contents]

(***************************************************************************)
(* A returned snapshot is a mutually consistent view: all that it reports  *)
(* was on disk at one instant of the call, though three goroutines read it *)
(* at different times beside writers and administrators.  It holds when    *)
(* no content comes back.                                                  *)
(***************************************************************************)
SnapshotExisted ==
  result = "ok" => \E d \in window : \A s \in Wanted : got[s] = d[CellOf[s]]

(***************************************************************************)
(* ReadSystemSnapshot implements its contract: at every step of the code   *)
(* the caller sees what the contract allows.                               *)
(***************************************************************************)
Status == CASE phase = "ready" -> "idle"
            [] phase # "ready" /\ result = "none" -> "running"
            [] phase # "ready" /\ result \in {"ok", "changed"} -> result
            [] OTHER -> "error"

View ==
  IF result = "ok" THEN [s \in Wanted |-> [content |-> got[s], order |-> order[s]]]
  ELSE Unread

Contract == INSTANCE SnapshotContract WITH
  NoView <- Unread, status <- Status, wanted <- Wanted, view <- View

ImplementsContract == Contract!Spec

(***************************************************************************)
(* With its locks held, cooperating writers leave what the locks protect   *)
(* alone from the first read of the first observation to the last.         *)
(***************************************************************************)
StableWhileLocked ==
  [][request.mode = "locked" /\ phase \in {"observing", "composing"} =>
       \A c \in Cells : LockOf[c] \in PathsOf(Caller) => disk'[c] = disk[c]]_vars

(***************************************************************************)
(* What a locked snapshot reports of locked state was on disk at one       *)
(* instant, even when contents come back.                                  *)
(***************************************************************************)
LockedPartExisted ==
  result = "ok" /\ request.mode = "locked" =>
     \E d \in window : \A s \in Wanted :
        LockOf[CellOf[s]] \in PathsOf(Caller) => got[s] = d[CellOf[s]]

(***************************************************************************)
(* An error the call returns is one that happened.  cancel() by a failing  *)
(* goroutine makes its siblings fail with context.Canceled: the call never *)
(* reports that in place of the failure, it reports cancellation or a      *)
(* deadline only when its own context ended so, and no failure of a part   *)
(* is lost.                                                                *)
(***************************************************************************)
ErrorHasCause ==
  phase = "returning" =>
    /\ result \in {"canceled", "deadline"} => ending = result
    /\ result = "failed" =>
         (\E p \in Parts : job[p] = "failed") \/ (\A p \in Parts : job[p] = "ok")
    /\ (\E p \in Parts : job[p] = "failed") => result \in {"failed", "deadline"}

(***************************************************************************)
(* Every way out of the call releases the locks it took.                   *)
(***************************************************************************)
ReturnedHoldsNothing ==
  Returned => \A p \in Paths : ~Holds(Caller, p)

(***************************************************************************)
(* Every call returns, though the state may change for ever and no two     *)
(* observations of it agree: the number of observations is bounded, and    *)
(* the locks are granted once the writers that take them in the same order *)
(* have finished.                                                          *)
(***************************************************************************)
CallReturns == phase # "ready" ~> Returned
=============================================================================
