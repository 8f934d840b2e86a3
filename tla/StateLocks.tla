------------------------------ MODULE StateLocks ------------------------------
(***************************************************************************)
(* Observation of Portage's state locks (state_lock_linux.go).             *)
(*                                                                         *)
(* A reader is one call of observeLockPaths and the releaseStateLocks that *)
(* ends it: it takes a shared open-file-description lock on each of its    *)
(* lock files, in sorted order, polling while a writer is in the way and   *)
(* giving up when its context is done.  A writer is Portage: it creates    *)
(* the lock file when there is none, then takes it exclusively.            *)
(***************************************************************************)
EXTENDS Naturals, Sequences

CONSTANTS
  Paths,        \* lock files
  Readers,      \* calls that observe locks
  Writers,      \* cooperating processes of the package manager
  Requested,    \* Requested[r]: the sorted lock paths of reader r
  WriterOrder,  \* WriterOrder[w]: the lock paths of writer w, in its order
  InitialKinds, \* what a lock path may hold before the first call
  MaxTxn        \* transactions per writer (bound of the model)

Free == "free"

(***************************************************************************)
(* What is found at a lock path.  An "unreadable" file cannot be opened by *)
(* the reader, a "broken" one opens but its fcntl fails for another reason *)
(* than a conflicting lock.                                                *)
(***************************************************************************)
FileKind == {"absent", "present", "unreadable", "broken"}

ASSUME LockAssumption ==
  /\ Requested \in [Readers -> Seq(Paths)]
  /\ WriterOrder \in [Writers -> Seq(Paths)]
  /\ InitialKinds \subseteq FileKind
  /\ MaxTxn \in Nat
  /\ Free \notin Writers

(***************************************************************************)
(* sort.Strings puts equal paths next to each other; a writer takes each   *)
(* of its locks once.                                                      *)
(***************************************************************************)
ASSUME SortedAssumption ==
  /\ \A r \in Readers : \A i, j, k \in DOMAIN Requested[r] :
        i < j /\ j < k /\ Requested[r][i] = Requested[r][k]
           => Requested[r][j] = Requested[r][k]
  /\ \A w \in Writers : \A i, j \in DOMAIN WriterOrder[w] :
        WriterOrder[w][i] = WriterOrder[w][j] => i = j

ReaderState ==
  {"idle",       \* not called yet
   "next",       \* in the loop of observeLockPaths, before path pos[r]
   "trying",     \* path pos[r] is open, about to call fcntl
   "sleeping",   \* a writer was in the way: the 10 ms select
   "locked",     \* observeStateLocks has returned its locks
   "unwinding",  \* releasing what was taken before an error
   "releasing",  \* the deferred releaseStateLocks
   "failed", "done"}

VARIABLES
  file,     \* file[p]: kind of the lock file at p
  shared,   \* shared[p]: the open file descriptions <<r, i>> that lock p
  excl,     \* excl[p]: the writer that locks p, or Free
  rpc,      \* rpc[r]: where reader r is
  pos,      \* pos[r]: index of the path under consideration
  held,     \* held[r]: indices of the paths in reader r's slice of locks
  done,     \* done[r]: is reader r's context done?
  wpc,      \* wpc[w]: "idle", "opening", "waiting" or "unlocking"
  wpos,     \* wpos[w]: number of locks writer w holds
  txns      \* txns[w]: transactions writer w has begun

readerVars == <<rpc, pos, held>>
writerVars == <<wpc, wpos, txns>>
lockVars == <<file, shared, excl, rpc, pos, held, done, wpc, wpos, txns>>

LocksInit ==
  /\ file \in [Paths -> InitialKinds]
  /\ shared = [p \in Paths |-> {}]
  /\ excl = [p \in Paths |-> Free]
  /\ rpc = [r \in Readers |-> "idle"]
  /\ pos = [r \in Readers |-> 1]
  /\ held = [r \in Readers |-> {}]
  /\ done = [r \in Readers |-> FALSE]
  /\ wpc = [w \in Writers |-> "idle"]
  /\ wpos = [w \in Writers |-> 0]
  /\ txns = [w \in Writers |-> 0]

-----------------------------------------------------------------------------
(* Readers                                                                 *)

PathOf(r) == Requested[r][pos[r]]

LastHeld(r, i) == i \in held[r] /\ \A j \in held[r] : j <= i

\* locks[len(locks)-1].path == path
IsDuplicate(r) == \E i \in held[r] : LastHeld(r, i) /\ Requested[r][i] = PathOf(r)

AtPath(r) == rpc[r] = "next" /\ pos[r] \in DOMAIN Requested[r]

Observe(r) ==
  /\ rpc[r] = "idle"
  /\ rpc' = [rpc EXCEPT ![r] = "next"]
  /\ UNCHANGED <<file, shared, excl, pos, held, done, writerVars>>

SkipDuplicate(r) ==
  /\ AtPath(r) /\ IsDuplicate(r)
  /\ pos' = [pos EXCEPT ![r] = @ + 1]
  /\ UNCHANGED <<file, shared, excl, rpc, held, done, writerVars>>

\* Defect: the error is returned before what was taken is released.
FailDoneLeaking(r) ==
  /\ AtPath(r) /\ ~IsDuplicate(r) /\ done[r]
  /\ rpc' = [rpc EXCEPT ![r] = "failed"]
  /\ UNCHANGED <<file, shared, excl, pos, held, done, writerVars>>

\* ctx.Err() at the head of observeStateLock
FailDone(r) ==
  /\ AtPath(r) /\ ~IsDuplicate(r) /\ done[r]
  /\ rpc' = [rpc EXCEPT ![r] = "unwinding"]
  /\ UNCHANGED <<file, shared, excl, pos, held, done, writerVars>>

\* os.ErrNotExist: an empty lock and no error
OpenMissing(r) ==
  /\ AtPath(r) /\ ~IsDuplicate(r) /\ ~done[r]
  /\ file[PathOf(r)] = "absent"
  /\ pos' = [pos EXCEPT ![r] = @ + 1]
  /\ UNCHANGED <<file, shared, excl, rpc, held, done, writerVars>>

\* Defect: an unreadable lock file is passed over like a missing one.
OpenFailsAsMissing(r) ==
  /\ AtPath(r) /\ ~IsDuplicate(r) /\ ~done[r]
  /\ file[PathOf(r)] = "unreadable"
  /\ pos' = [pos EXCEPT ![r] = @ + 1]
  /\ UNCHANGED <<file, shared, excl, rpc, held, done, writerVars>>

\* any other error of os.OpenFile
OpenFails(r) ==
  /\ AtPath(r) /\ ~IsDuplicate(r) /\ ~done[r]
  /\ file[PathOf(r)] = "unreadable"
  /\ rpc' = [rpc EXCEPT ![r] = "unwinding"]
  /\ UNCHANGED <<file, shared, excl, pos, held, done, writerVars>>

Open(r) ==
  /\ AtPath(r) /\ ~IsDuplicate(r) /\ ~done[r]
  /\ file[PathOf(r)] \in {"present", "broken"}
  /\ rpc' = [rpc EXCEPT ![r] = "trying"]
  /\ UNCHANGED <<file, shared, excl, pos, held, done, writerVars>>

\* Defect: the index that is kept counts from zero.
GrantOffByOne(r) ==
  /\ rpc[r] = "trying"
  /\ file[PathOf(r)] = "present" /\ excl[PathOf(r)] = Free
  /\ shared' = [shared EXCEPT ![PathOf(r)] = @ \cup {<<r, pos[r]>>}]
  /\ held' = [held EXCEPT ![r] = @ \cup {pos[r] - 1}]
  /\ pos' = [pos EXCEPT ![r] = @ + 1]
  /\ rpc' = [rpc EXCEPT ![r] = "next"]
  /\ UNCHANGED <<file, excl, done, writerVars>>

\* Defect: the file is open but nothing is locked.
GrantNothing(r) ==
  /\ rpc[r] = "trying"
  /\ file[PathOf(r)] = "present" /\ excl[PathOf(r)] = Free
  /\ pos' = [pos EXCEPT ![r] = @ + 1]
  /\ rpc' = [rpc EXCEPT ![r] = "next"]
  /\ UNCHANGED <<file, shared, excl, held, done, writerVars>>

Grant(r) ==
  /\ rpc[r] = "trying"
  /\ file[PathOf(r)] = "present" /\ excl[PathOf(r)] = Free
  /\ shared' = [shared EXCEPT ![PathOf(r)] = @ \cup {<<r, pos[r]>>}]
  /\ held' = [held EXCEPT ![r] = @ \cup {pos[r]}]
  /\ pos' = [pos EXCEPT ![r] = @ + 1]
  /\ rpc' = [rpc EXCEPT ![r] = "next"]
  /\ UNCHANGED <<file, excl, done, writerVars>>

\* EACCES or EAGAIN: a writer holds the lock
Conflict(r) ==
  /\ rpc[r] = "trying"
  /\ file[PathOf(r)] = "present" /\ excl[PathOf(r)] # Free
  /\ rpc' = [rpc EXCEPT ![r] = "sleeping"]
  /\ UNCHANGED <<file, shared, excl, pos, held, done, writerVars>>

\* any other errno
LockFails(r) ==
  /\ rpc[r] = "trying" /\ file[PathOf(r)] = "broken"
  /\ rpc' = [rpc EXCEPT ![r] = "unwinding"]
  /\ UNCHANGED <<file, shared, excl, pos, held, done, writerVars>>

\* Defect: the wait does not look at the context.
RetryForever(r) ==
  /\ rpc[r] = "sleeping"
  /\ rpc' = [rpc EXCEPT ![r] = "trying"]
  /\ UNCHANGED <<file, shared, excl, pos, held, done, writerVars>>

\* Defect: the wait never tries again.
RetryNever(r) ==
  /\ rpc[r] = "sleeping" /\ ~done[r]
  /\ UNCHANGED lockVars

\* A timer that fires together with ctx.Done is ordered before it.
Retry(r) ==
  /\ rpc[r] = "sleeping" /\ ~done[r]
  /\ rpc' = [rpc EXCEPT ![r] = "trying"]
  /\ UNCHANGED <<file, shared, excl, pos, held, done, writerVars>>

GiveUp(r) ==
  /\ rpc[r] = "sleeping" /\ done[r]
  /\ rpc' = [rpc EXCEPT ![r] = "unwinding"]
  /\ UNCHANGED <<file, shared, excl, pos, held, done, writerVars>>

\* Defect: the loop over the paths ends one short.
AllObservedEarly(r) ==
  /\ rpc[r] = "next" /\ pos[r] >= Len(Requested[r])
  /\ rpc' = [rpc EXCEPT ![r] = "locked"]
  /\ UNCHANGED <<file, shared, excl, pos, held, done, writerVars>>

AllObserved(r) ==
  /\ rpc[r] = "next" /\ pos[r] \notin DOMAIN Requested[r]
  /\ rpc' = [rpc EXCEPT ![r] = "locked"]
  /\ UNCHANGED <<file, shared, excl, pos, held, done, writerVars>>

\* The caller returns: its deferred releaseStateLocks begins.
Finish(r) ==
  /\ rpc[r] = "locked"
  /\ rpc' = [rpc EXCEPT ![r] = "releasing"]
  /\ UNCHANGED <<file, shared, excl, pos, held, done, writerVars>>

\* Defect: POSIX locks, where closing one descriptor of a file drops every
\* lock the process has on it.
ReleaseProcessWide(r) ==
  /\ rpc[r] \in {"unwinding", "releasing"}
  /\ \E i \in held[r] :
        /\ LastHeld(r, i)
        /\ shared' = [shared EXCEPT ![Requested[r][i]] = {}]
        /\ held' = [held EXCEPT ![r] = @ \ {i}]
  /\ UNCHANGED <<file, excl, rpc, pos, done, writerVars>>

\* Defect: the loop over the held locks does not advance.
ReleaseStuck(r) ==
  /\ rpc[r] \in {"unwinding", "releasing"}
  /\ \E i \in held[r] :
        /\ LastHeld(r, i)
        /\ shared' = [shared EXCEPT ![Requested[r][i]] = @ \ {<<r, i>>}]
  /\ UNCHANGED <<file, excl, rpc, pos, held, done, writerVars>>

\* one iteration of releaseStateLocks, from the last lock to the first
ReleaseLast(r) ==
  /\ rpc[r] \in {"unwinding", "releasing"}
  /\ \E i \in held[r] :
        /\ LastHeld(r, i)
        /\ shared' = [shared EXCEPT ![Requested[r][i]] = @ \ {<<r, i>>}]
        /\ held' = [held EXCEPT ![r] = @ \ {i}]
  /\ UNCHANGED <<file, excl, rpc, pos, done, writerVars>>

Released(r) ==
  /\ rpc[r] \in {"unwinding", "releasing"} /\ held[r] = {}
  /\ rpc' = [rpc EXCEPT ![r] = IF @ = "unwinding" THEN "failed" ELSE "done"]
  /\ UNCHANGED <<file, shared, excl, pos, held, done, writerVars>>

\* cancellation or deadline of the reader's context, at any time
ContextDone(r) ==
  /\ ~done[r]
  /\ done' = [done EXCEPT ![r] = TRUE]
  /\ UNCHANGED <<file, shared, excl, readerVars, writerVars>>

\* what the reader does between its call and the return of its locks
Acquire(r) ==
  \/ SkipDuplicate(r) \/ FailDone(r) \/ OpenMissing(r) \/ OpenFails(r)
  \/ Open(r) \/ Grant(r) \/ Conflict(r) \/ LockFails(r) \/ Retry(r)
  \/ GiveUp(r) \/ AllObserved(r)

Release(r) == ReleaseLast(r) \/ Released(r)

-----------------------------------------------------------------------------
(* Writers: external, as the lock tests of the repository drive them       *)

WriterPath(w) == WriterOrder[w][wpos[w] + 1]

WriterBegin(w) ==
  /\ wpc[w] = "idle" /\ txns[w] < MaxTxn
  /\ wpc' = [wpc EXCEPT ![w] = "opening"]
  /\ txns' = [txns EXCEPT ![w] = @ + 1]
  /\ UNCHANGED <<file, shared, excl, readerVars, done, wpos>>

\* open with O_CREATE
WriterOpen(w) ==
  /\ wpc[w] = "opening" /\ wpos[w] < Len(WriterOrder[w])
  /\ file' = [file EXCEPT ![WriterPath(w)] = IF @ = "absent" THEN "present" ELSE @]
  /\ wpc' = [wpc EXCEPT ![w] = "waiting"]
  /\ UNCHANGED <<shared, excl, readerVars, done, wpos, txns>>

WriterLock(w) ==
  /\ wpc[w] = "waiting"
  /\ shared[WriterPath(w)] = {} /\ excl[WriterPath(w)] = Free
  /\ excl' = [excl EXCEPT ![WriterPath(w)] = w]
  /\ wpos' = [wpos EXCEPT ![w] = @ + 1]
  /\ wpc' = [wpc EXCEPT ![w] = "opening"]
  /\ UNCHANGED <<file, shared, readerVars, done, txns>>

\* The writer has all its locks and has written what it wanted to.
WriterCommit(w) ==
  /\ wpc[w] = "opening" /\ wpos[w] = Len(WriterOrder[w])
  /\ wpc' = [wpc EXCEPT ![w] = "unlocking"]
  /\ UNCHANGED <<file, shared, excl, readerVars, done, wpos, txns>>

WriterUnlock(w) ==
  /\ wpc[w] = "unlocking"
  /\ IF wpos[w] = 0
       THEN /\ wpc' = [wpc EXCEPT ![w] = "idle"]
            /\ UNCHANGED <<excl, wpos>>
       ELSE /\ excl' = [excl EXCEPT ![WriterOrder[w][wpos[w]]] = Free]
            /\ wpos' = [wpos EXCEPT ![w] = @ - 1]
            /\ UNCHANGED wpc
  /\ UNCHANGED <<file, shared, readerVars, done, txns>>

\* a begun transaction
WriterRun(w) == WriterOpen(w) \/ WriterLock(w) \/ WriterCommit(w) \/ WriterUnlock(w)

-----------------------------------------------------------------------------
Idle == /\ \A r \in Readers : rpc[r] \in {"failed", "done"}
        /\ \A w \in Writers : wpc[w] = "idle" /\ txns[w] = MaxTxn
        /\ UNCHANGED lockVars

LocksNext ==
  \/ \E r \in Readers : Observe(r) \/ Acquire(r) \/ Finish(r) \/ Release(r) \/ ContextDone(r)
  \/ \E w \in Writers : WriterBegin(w) \/ WriterRun(w)
  \/ Idle

LocksSpec == LocksInit /\ [][LocksNext]_lockVars

(***************************************************************************)
(* The scheduler runs every started call and every begun transaction;      *)
(* nothing makes a context end and nothing makes a call or a transaction   *)
(* begin.                                                                  *)
(***************************************************************************)
LocksFairness ==
  /\ \A r \in Readers : WF_lockVars(Acquire(r)) /\ WF_lockVars(Finish(r) \/ Release(r))
  /\ \A w \in Writers : WF_lockVars(WriterRun(w))

FairLocksSpec == LocksSpec /\ LocksFairness

-----------------------------------------------------------------------------
(* Properties                                                              *)

PathsOf(r) == {Requested[r][i] : i \in DOMAIN Requested[r]}

Holds(r, p) == \E d \in shared[p] : d[1] = r

\* The type invariant of the lock protocol.
LocksTypeOK ==
  /\ file \in [Paths -> FileKind]
  /\ shared \in [Paths -> SUBSET (Readers \X (Nat \ {0}))]
  /\ excl \in [Paths -> Writers \cup {Free}]
  /\ rpc \in [Readers -> ReaderState]
  /\ pos \in [Readers -> Nat \ {0}]
  /\ held \in [Readers -> SUBSET (Nat \ {0})]
  /\ done \in [Readers -> BOOLEAN]
  /\ wpc \in [Writers -> {"idle", "opening", "waiting", "unlocking"}]
  /\ wpos \in [Writers -> Nat]
  /\ txns \in [Writers -> 0..MaxTxn]

(***************************************************************************)
(* When observeStateLocks has returned, every path it was asked for is     *)
(* locked by this reader and by no writer: what "shared VDB/world locks    *)
(* were held" says.  It is a promise only where the lock files exist: a    *)
(* missing file is passed over without a lock.                             *)
(***************************************************************************)
LockedMeansProtected ==
  \A r \in Readers : rpc[r] = "locked" =>
     \A p \in PathsOf(r) : Holds(r, p) /\ excl[p] = Free

(***************************************************************************)
(* The locks a reader remembers are exactly those the kernel holds for it, *)
(* whatever other readers of the same process release: no release of one   *)
(* snapshot unlocks another, and no lock outlives its call.                *)
(***************************************************************************)
HeldIsLocked ==
  /\ \A p \in Paths : \A d \in shared[p] : d[2] \in held[d[1]] /\ Requested[d[1]][d[2]] = p
  /\ \A r \in Readers : \A i \in held[r] : <<r, i>> \in shared[Requested[r][i]]

(***************************************************************************)
(* A call that has returned, with its locks or with an error part of the   *)
(* way through, leaves nothing locked.                                     *)
(***************************************************************************)
NothingLeaks ==
  \A r \in Readers : rpc[r] \in {"idle", "failed", "done"} =>
     \A p \in Paths : ~Holds(r, p)

(***************************************************************************)
(* "Locked mode never degrades to lockless mode": a lock file that cannot  *)
(* be read or locked is an error, never a lock passed over.                *)
(***************************************************************************)
NeverDegrades ==
  \A r \in Readers : rpc[r] = "locked" =>
     \A p \in PathsOf(r) : file[p] \notin {"unreadable", "broken"}

\* The reader polls for a lock of a writer that waits for one of the reader's.
MutualWait(r) ==
  /\ rpc[r] \in {"trying", "sleeping"}
  /\ \E w \in Writers :
        excl[PathOf(r)] = w /\ wpc[w] = "waiting" /\ Holds(r, WriterPath(w))

(***************************************************************************)
(* Every call returns, or it and a writer that takes the locks in another  *)
(* order hold each other up: nothing else keeps a call polling when each   *)
(* writer finishes its transactions.                                       *)
(***************************************************************************)
ReaderReturns ==
  \A r \in Readers : rpc[r] # "idle" ~> rpc[r] \in {"failed", "done"} \/ MutualWait(r)

(***************************************************************************)
(* A call whose context ends returns, even when it and a writer hold each  *)
(* other's lock and neither can go on.                                     *)
(***************************************************************************)
ContextEndsWait ==
  \A r \in Readers : rpc[r] # "idle" /\ done[r] ~> rpc[r] \in {"failed", "done"}
=============================================================================
