---------------------------- MODULE CandidateScan ----------------------------
(***************************************************************************)
(* ReadRepositoryCandidates (candidates.go): the metadata caches of the    *)
(* repositories are listed one after the other, a pool of workers reads    *)
(* the files, and what arrives is sorted; EvaluateCandidate (snapshot.go)  *)
(* looks a candidate up.  No lock covers the caches.                       *)
(*                                                                         *)
(* A file of a cache is an entry, a number in the order of the listing.    *)
(* Every change of a file gives it a version it never had, as inode, size  *)
(* and mtime do; version 0 is no file.                                     *)
(***************************************************************************)
EXTENDS Atoms

CONSTANTS
  Repositories, \* sequence: the repositories, in the order of the configuration
  Categories,   \* categories of a repository
  Entries,      \* files that a cache may hold
  Scenes,       \* what the caches may be
  Requests,     \* the options of the call
  Processors,   \* runtime.GOMAXPROCS(0)
  Unsteady,     \* scenes in which files change and the context may end (bound of the model)
  MaxChange     \* changes of the caches (bound of the model)

RepositorySet == {Repositories[i] : i \in DOMAIN Repositories}

\* "misnamed": the name is not valid or the location not absolute.
RootKind == {"directory", "missing", "symlink", "unreadable", "misnamed"}
CategoryKind == {"directory", "symlink", "file", "unreadable"}

\* "nameless" is no package identity; "bare" lacks EAPI or SLOT, or its
\* _eclasses_ are malformed.
EntryKind == {"good", "nameless", "symlink", "directory", "unreadable", "bare"}

Identity == [cp : Nat, version : VersionSet, slot : Nat, subslot : Nat]

SceneSet ==
  [repository : [Entries -> RepositorySet], category : [Entries -> Categories],
   id : [Entries -> Identity],
   root : [RepositorySet -> RootKind],
   directory : [RepositorySet \X Categories -> CategoryKind],
   kind : [Entries -> EntryKind],
   present : SUBSET Entries]

RequestSet == [integrity : {"partial", "complete", "unknown"}, workers : Int]

\* A cache holds one file of a name, and names of package and version.
SameFile(s, e, f) ==
  /\ s.kind[e] = "good" /\ s.kind[f] = "good" /\ s.repository[e] = s.repository[f]
  /\ s.id[e].cp = s.id[f].cp /\ s.id[e].version = s.id[f].version

ASSUME CandidateAssumption ==
  /\ Repositories \in Seq(Nat \ {0})
  /\ \A i, j \in DOMAIN Repositories : Repositories[i] = Repositories[j] => i = j
  /\ Categories \subseteq Nat
  /\ Entries \subseteq Nat \ {0} /\ IsFiniteSet(Entries)
  /\ Scenes \subseteq SceneSet
  /\ \A s \in Scenes, e, f \in Entries : SameFile(s, e, f) => e = f
  /\ Requests \subseteq RequestSet
  /\ Processors \in Nat \ {0} /\ Unsteady \subseteq Scenes /\ MaxChange \in Nat

VARIABLES
  scene,     \* the caches when the call began
  version,   \* version[e]: version of the file of entry e
  clock,     \* the last version given
  request,   \* options.Integrity, options.Workers
  done,      \* is the call's context done?
  phase,     \* "start", "listing", "entering", "reading", "sorting", "returned"
  turn,      \* which repository is listed
  unlisted,  \* its categories that are still to be read
  listed,    \* the entries that became tasks
  toFeed,    \* tasks the feeder has not handed out
  feeding,   \* is the channel of tasks open?
  wpc,       \* wpc[w]: what worker w does
  task,      \* task[w]: its entry
  stat,      \* stat[w]: the first lstat
  opened,    \* opened[w]: the version of the file it has open
  text,      \* text[e]: the versions whose bytes were read for entry e
  channel,   \* the channel of results: <<entry, code>>, code "good" without issue
  collected, \* candidates received, in the order of arrival
  inventory, \* the candidates that have been sorted
  issues,    \* the issues found: <<path, code>>
  result     \* "none", "ok", "incomplete", "canceled" or "invalid"

cacheVars == <<scene, version, clock, request>>
listVars == <<turn, unlisted, listed>>
poolVars == <<toFeed, feeding>>
workVars == <<task, stat, opened, text>>
outVars == <<collected, inventory, issues>>
vars == <<cacheVars, done, phase, listVars, poolVars, wpc, workVars, channel, outVars, result>>

Workers == 1..Cardinality(Entries)

WorkerCount(tasks) ==
  LET wish == IF request.workers # 0 THEN request.workers
              ELSE IF Processors > 8 THEN 8 ELSE Processors
  IN IF wish > tasks THEN tasks ELSE wish

Init ==
  /\ scene \in Scenes /\ request \in Requests
  /\ version = [e \in Entries |-> IF e \in scene.present THEN 1 ELSE 0]
  /\ clock = 1
  /\ done = FALSE /\ phase = "start"
  /\ turn = 1 /\ unlisted = {} /\ listed = {}
  /\ toFeed = {} /\ feeding = FALSE
  /\ wpc = [w \in Workers |-> "exited"]
  /\ task = [w \in Workers |-> 0] /\ stat = [w \in Workers |-> 0]
  /\ opened = [w \in Workers |-> 0] /\ text = [e \in Entries |-> {}]
  /\ channel = <<>> /\ collected = <<>> /\ inventory = <<>> /\ issues = {}
  /\ result = "none"

-----------------------------------------------------------------------------
(* The call and the listing                                                *)

Return(r) == phase' = "returned" /\ result' = r

Start ==
  /\ phase = "start"
  /\ IF request.integrity = "unknown" \/ request.workers < 0 THEN Return("invalid")
     ELSE IF done THEN Return("canceled")
     ELSE phase' = "listing" /\ UNCHANGED result
  /\ UNCHANGED <<cacheVars, done, listVars, poolVars, wpc, workVars, channel, outVars>>

Current == Repositories[turn]
RootPath(r) == <<"root", r>>
CategoryPath(r, c) == <<"category", r, c>>
EntryPath(e) == <<"entry", e>>

Blame(path, code) == issues' = issues \cup {<<path, code>>}

\* candidateTasks: lstat and listing of metadata/md5-cache
ListRoot ==
  /\ phase = "listing" /\ turn <= Len(Repositories)
  /\ LET kind == scene.root[Current] IN
       \/ kind = "misnamed" /\ Return("invalid") /\ UNCHANGED <<turn, unlisted, issues>>
       \/ /\ kind = "directory"
          /\ unlisted' = Categories /\ phase' = "entering"
          /\ UNCHANGED <<turn, issues, result>>
       \/ /\ kind \in {"missing", "symlink", "unreadable"}
          /\ Blame(RootPath(Current), kind)
          /\ turn' = turn + 1
          /\ UNCHANGED <<phase, unlisted, result>>
  /\ UNCHANGED <<cacheVars, done, listed, poolVars, wpc, workVars, channel, collected, inventory>>

EntriesAt(r, c) == {e \in Entries : scene.repository[e] = r /\ scene.category[e] = c}
Seen(r, c) == {e \in EntriesAt(r, c) : version[e] # 0}

\* A symlinked entry is an issue, a directory is passed over, a file is a task.
ListCategory ==
  /\ phase = "entering"
  /\ \E c \in unlisted :
       /\ \A d \in unlisted : c <= d
       /\ LET kind == scene.directory[<<Current, c>>]
              found == IF kind = "directory" THEN Seen(Current, c) ELSE {}
          IN IF done
               THEN Return("canceled") /\ UNCHANGED <<unlisted, listed, issues>>
               ELSE /\ unlisted' = unlisted \ {c}
                    /\ listed' = listed \cup
                         {e \in found : scene.kind[e] \notin {"symlink", "directory"}}
                    /\ issues' = issues
                         \cup {<<EntryPath(e), "symlink">> : e \in {f \in found : scene.kind[f] = "symlink"}}
                         \cup (IF kind \in {"symlink", "unreadable"}
                                 THEN {<<CategoryPath(Current, c), kind>>} ELSE {})
                    /\ UNCHANGED <<phase, result>>
  /\ UNCHANGED <<cacheVars, done, turn, poolVars, wpc, workVars, channel, collected, inventory>>

NextRepository ==
  /\ phase = "entering" /\ unlisted = {}
  /\ phase' = "listing" /\ turn' = turn + 1
  /\ UNCHANGED <<cacheVars, done, unlisted, listed, poolVars, wpc, workVars, channel, outVars, result>>

StartPool ==
  /\ phase = "listing" /\ turn > Len(Repositories)
  /\ phase' = "reading"
  /\ toFeed' = listed /\ feeding' = TRUE
  /\ wpc' = [w \in Workers |->
               IF w <= WorkerCount(Cardinality(listed)) THEN "idle" ELSE "exited"]
  /\ UNCHANGED <<cacheVars, done, listVars, workVars, channel, outVars, result>>

-----------------------------------------------------------------------------
(* The pool                                                                *)

\* Defect: the task is handed out again.
FeedAgain(w) ==
  /\ feeding /\ wpc[w] = "idle"
  /\ \E e \in toFeed :
       /\ \A f \in toFeed : e <= f
       /\ task' = [task EXCEPT ![w] = e]
  /\ wpc' = [wpc EXCEPT ![w] = "took"]
  /\ UNCHANGED <<cacheVars, done, phase, listVars, poolVars, stat, opened, text, channel, outVars,
                 result>>

\* taskChannel <- task: no buffer, a waiting worker takes it at once.
Feed(w) ==
  /\ feeding /\ wpc[w] = "idle"
  /\ \E e \in toFeed :
       /\ \A f \in toFeed : e <= f
       /\ toFeed' = toFeed \ {e}
       /\ task' = [task EXCEPT ![w] = e]
  /\ wpc' = [wpc EXCEPT ![w] = "took"]
  /\ UNCHANGED <<cacheVars, done, phase, listVars, feeding, stat, opened, text, channel, outVars,
                 result>>

\* Defect: the feeder does not look at the context.
StopFeedingWhenEmpty ==
  /\ feeding /\ toFeed = {}
  /\ feeding' = FALSE
  /\ UNCHANGED <<cacheVars, done, phase, listVars, toFeed, wpc, workVars, channel, outVars, result>>

\* All is handed out, or ctx.Done is selected.
StopFeeding ==
  /\ feeding /\ (toFeed = {} \/ done)
  /\ feeding' = FALSE
  /\ UNCHANGED <<cacheVars, done, phase, listVars, toFeed, wpc, workVars, channel, outVars, result>>

\* range over the closed channel, or ctx.Err() after a task was received
WorkerExits(w) ==
  /\ \/ wpc[w] = "idle" /\ ~feeding
     \/ wpc[w] = "took" /\ done
  /\ wpc' = [wpc EXCEPT ![w] = "exited"] /\ task' = [task EXCEPT ![w] = 0]
  /\ UNCHANGED <<cacheVars, done, phase, listVars, poolVars, stat, opened, text, channel, outVars,
                 result>>

Kind(w) == scene.kind[task[w]]
VersionNow(w) == version[task[w]]

\* resultChannel <- result: the channel holds as many results as there are tasks.
Send(w, code) ==
  /\ Len(channel) < Cardinality(listed)
  /\ channel' = Append(channel, <<task[w], code>>)
  /\ wpc' = [wpc EXCEPT ![w] = "idle"]
  /\ task' = [task EXCEPT ![w] = 0]
  /\ stat' = [stat EXCEPT ![w] = 0] /\ opened' = [opened EXCEPT ![w] = 0]
  /\ UNCHANGED text

GoTo(w, place) ==
  wpc' = [wpc EXCEPT ![w] = place] /\ UNCHANGED <<task, channel>>

\* readRepositoryCandidate: the identity, then the first lstat
Stat(w) ==
  /\ wpc[w] = "took" /\ ~done
  /\ IF Kind(w) = "nameless" THEN Send(w, "malformed")
     ELSE IF VersionNow(w) = 0 THEN Send(w, "unreadable")
     ELSE stat' = [stat EXCEPT ![w] = VersionNow(w)] /\ GoTo(w, "open") /\ UNCHANGED <<opened, text>>
  /\ UNCHANGED <<cacheVars, done, phase, listVars, poolVars, outVars, result>>

\* os.Open and the first bytes
Open(w) ==
  /\ wpc[w] = "open"
  /\ IF VersionNow(w) = 0 THEN Send(w, "unreadable")
     ELSE /\ opened' = [opened EXCEPT ![w] = VersionNow(w)]
          /\ text' = [text EXCEPT ![task[w]] = {VersionNow(w)}]
          /\ GoTo(w, "read") /\ UNCHANGED stat
  /\ UNCHANGED <<cacheVars, done, phase, listVars, poolVars, outVars, result>>

\* The last bytes: of the file that was opened, or, when it has been rewritten in
\* place, of the new version.
Read(w) ==
  /\ wpc[w] = "read"
  /\ IF Kind(w) = "unreadable" THEN Send(w, "unreadable")
     ELSE /\ \E v \in {opened[w], VersionNow(w)} \ {0} :
               text' = [text EXCEPT ![task[w]] = @ \cup {v}]
          /\ GoTo(w, "check") /\ UNCHANGED <<stat, opened>>
  /\ UNCHANGED <<cacheVars, done, phase, listVars, poolVars, outVars, result>>

\* Defect: no second lstat.
CheckTrusting(w) ==
  /\ wpc[w] = "check"
  /\ Send(w, IF Kind(w) = "bare" THEN "invalid" ELSE "good")
  /\ UNCHANGED <<cacheVars, done, phase, listVars, poolVars, outVars, result>>

\* The second lstat, then EAPI, SLOT and _eclasses_.
Check(w) ==
  /\ wpc[w] = "check"
  /\ Send(w, IF VersionNow(w) # stat[w] THEN "mutation"
             ELSE IF Kind(w) = "bare" THEN "invalid" ELSE "good")
  /\ UNCHANGED <<cacheVars, done, phase, listVars, poolVars, outVars, result>>

-----------------------------------------------------------------------------
(* The collector, the sort, the end                                        *)

Collect ==
  /\ phase = "reading" /\ channel # <<>>
  /\ channel' = Tail(channel)
  /\ LET e == Head(channel)[1]
         code == Head(channel)[2]
     IN IF code = "good" THEN collected' = Append(collected, e) /\ UNCHANGED issues
        ELSE Blame(EntryPath(e), code) /\ UNCHANGED collected
  /\ UNCHANGED <<cacheVars, done, phase, listVars, poolVars, wpc, workVars, inventory, result>>

AllExited == \A w \in Workers : wpc[w] = "exited"

\* Defect: the results left in the channel are lost.
PoolOverUndrained == phase = "reading" /\ ~feeding /\ AllExited

\* resultChannel is closed and drained.
PoolOver == phase = "reading" /\ ~feeding /\ AllExited /\ channel = <<>>

EndPool ==
  /\ PoolOver
  /\ IF done THEN Return("canceled") ELSE phase' = "sorting" /\ UNCHANGED result
  /\ UNCHANGED <<cacheVars, done, listVars, poolVars, wpc, workVars, channel, outVars>>

\* The order of candidates: package, version, repository.
Order(e, f) ==
  Decisive[<< Sign(scene.id[e].cp, scene.id[f].cp),
              Compare(scene.id[e].version, scene.id[f].version),
              Sign(scene.repository[e], scene.repository[f]) >>]

Less(e, f) == Order(e, f) < 0

\* Insertion moves a candidate down past all that are greater.
Place(e, s) == {j \in DOMAIN s : ~Less(e, s[j])}

(***************************************************************************)
(* sort.Slice, one candidate at a time.  It sorts twelve elements or less  *)
(* by insertion; more it sorts into the same order but for ties.           *)
(***************************************************************************)
Sort ==
  /\ phase = "sorting" /\ collected # <<>>
  /\ \E e \in {Head(collected)} : \E j \in Place(e, inventory) \cup {0} :
       /\ \A k \in Place(e, inventory) : k <= j
       /\ inventory' = InsertAt(inventory, j + 1, e)
  /\ collected' = Tail(collected)
  /\ UNCHANGED <<cacheVars, done, phase, listVars, poolVars, wpc, workVars, channel, issues, result>>

Finish ==
  /\ phase = "sorting" /\ collected = <<>>
  /\ Return(IF request.integrity = "complete" /\ issues # {} THEN "incomplete" ELSE "ok")
  /\ UNCHANGED <<cacheVars, done, listVars, poolVars, wpc, workVars, channel, outVars>>

(***************************************************************************)
(* EvaluateCandidate: the entry that has the identity, if there is one and *)
(* no other.  A repository or a slot that is not given is 0.               *)
(***************************************************************************)
Candidates(id) ==
  {e \in {inventory[i] : i \in DOMAIN inventory} :
     /\ scene.id[e].cp = id.cp /\ scene.id[e].version = id.version
     /\ Fits(id.repository, scene.repository[e]) /\ Fits(id.slot, scene.id[e].slot)}

NotFound == 0
Ambiguous == -1

Lookup(id) ==
  CASE Cardinality(Candidates(id)) = 0 -> NotFound
    [] Cardinality(Candidates(id)) = 1 -> CHOOSE e \in Candidates(id) : TRUE
    [] OTHER -> Ambiguous

-----------------------------------------------------------------------------
(* The environment                                                         *)

\* A file is created, replaced or removed.
Change(e) ==
  /\ clock <= MaxChange /\ scene \in Unsteady
  /\ scene.kind[e] \notin {"symlink", "directory"}
  /\ clock' = clock + 1
  /\ \/ version' = [version EXCEPT ![e] = clock + 1]
     \/ version[e] # 0 /\ version' = [version EXCEPT ![e] = 0]
  /\ UNCHANGED <<scene, request, done, phase, listVars, poolVars, wpc, workVars, channel, outVars,
                 result>>

ContextDone ==
  /\ scene \in Unsteady
  /\ ~done /\ done' = TRUE
  /\ UNCHANGED <<cacheVars, phase, listVars, poolVars, wpc, workVars, channel, outVars, result>>

WorkerStep(w) == Feed(w) \/ WorkerExits(w) \/ Stat(w) \/ Open(w) \/ Read(w) \/ Check(w)

CallStep ==
  \/ Start \/ ListRoot \/ ListCategory \/ NextRepository \/ StartPool
  \/ StopFeeding \/ Collect \/ EndPool \/ Sort \/ Finish

Terminated == phase = "returned" /\ UNCHANGED vars

Next ==
  \/ CallStep
  \/ \E w \in Workers : WorkerStep(w)
  \/ ContextDone
  \/ \E e \in Entries : Change(e)
  \/ Terminated

Spec == Init /\ [][Next]_vars

\* The goroutines run; no context need end and no file need change.
FairSpec == Spec /\ WF_vars(CallStep) /\ \A w \in Workers : WF_vars(WorkerStep(w))

-----------------------------------------------------------------------------
(* Properties                                                              *)

Codes == {"malformed", "unreadable", "mutation", "invalid"}
IssueSet ==
  ({"root"} \X RepositorySet) \X {"missing", "symlink", "unreadable"}
  \cup ({"category"} \X RepositorySet \X Categories) \X {"symlink", "unreadable"}
  \cup ({"entry"} \X Entries) \X (Codes \cup {"symlink"})

\* The type invariant: among others, no more results arrive than there are tasks.
TypeOK ==
  /\ scene \in Scenes /\ request \in Requests
  /\ version \in [Entries -> 0..clock] /\ clock \in 1..MaxChange + 1
  /\ done \in BOOLEAN
  /\ phase \in {"start", "listing", "entering", "reading", "sorting", "returned"}
  /\ turn \in 1..Len(Repositories) + 1
  /\ unlisted \in SUBSET Categories /\ listed \in SUBSET Entries
  /\ toFeed \subseteq listed /\ feeding \in BOOLEAN
  /\ wpc \in [Workers -> {"exited", "idle", "took", "open", "read", "check"}]
  /\ task \in [Workers -> Entries \cup {0}]
  /\ stat \in [Workers -> 0..clock] /\ opened \in [Workers -> 0..clock]
  /\ text \in [Entries -> SUBSET (1..clock)]
  /\ channel \in Seq(listed \X (Codes \cup {"good"}))
  /\ collected \in Seq(listed) /\ inventory \in Seq(listed)
  /\ Len(channel) + Len(collected) + Len(inventory) <= Cardinality(listed)
  /\ issues \subseteq IssueSet
  /\ result \in {"none", "ok", "incomplete", "canceled", "invalid"}

Answered == result \in {"ok", "incomplete"}
Ranks == DOMAIN inventory
Offered(e) == \E i \in Ranks : inventory[i] = e
IssueAt(path) == \E i \in issues : i[1] = path

Id(e) ==
  [cp |-> scene.id[e].cp, version |-> scene.id[e].version, slot |-> scene.id[e].slot,
   subslot |-> scene.id[e].subslot, repository |-> scene.repository[e]]

(***************************************************************************)
(* What does not change during the scan is answered as it is, whichever    *)
(* worker reads it and in whatever order results arrive: a usable file is  *)
(* a candidate, and found by its identity; a defective one is an issue;    *)
(* and so is a repository or a category that cannot be listed.             *)
(***************************************************************************)
Untouched(e) == e \in scene.present /\ version[e] = 1
RootListed(r) == scene.root[r] = "directory"
Listed(r, c) == RootListed(r) /\ scene.directory[<<r, c>>] = "directory"

SteadyIsAnswered ==
  Answered =>
    /\ \A r \in RepositorySet : IssueAt(RootPath(r)) <=> ~RootListed(r)
    /\ \A r \in RepositorySet, c \in Categories :
         IssueAt(CategoryPath(r, c))
           <=> RootListed(r) /\ scene.directory[<<r, c>>] \in {"symlink", "unreadable"}
    /\ \A e \in Entries :
         Untouched(e) /\ Listed(scene.repository[e], scene.category[e]) =>
           /\ scene.kind[e] = "good" <=> Lookup(Id(e)) = e
           /\ IssueAt(EntryPath(e)) <=> scene.kind[e] \notin {"good", "directory"}

(***************************************************************************)
(* The metadata of a candidate is one text that its file held, never the   *)
(* beginning of one and the end of another: a file that is rewritten or    *)
(* replaced while a worker reads it is no candidate.                       *)
(***************************************************************************)
MetadataIsWhole == Answered => \A e \in Entries : Offered(e) => Cardinality(text[e]) = 1

(***************************************************************************)
(* Every candidate stands where its rank puts it, in whatever order the    *)
(* workers deliver: after all that are smaller and before all that are     *)
(* greater.  It holds only if the comparison of versions is a total        *)
(* preorder, across leading zeros, missing components and suffixes.        *)
(***************************************************************************)
PositionIsRank ==
  Answered =>
    \A i \in Ranks :
      /\ Cardinality({j \in Ranks : Less(inventory[j], inventory[i])}) < i
      /\ i <= Cardinality({j \in Ranks : ~Less(inventory[i], inventory[j])})

(***************************************************************************)
(* The operators of atoms agree with the order of the inventory: for any   *)
(* version, < selects a beginning of the candidates of a package, > an     *)
(* end, = what is between; <= and >= are their complements.                *)
(***************************************************************************)
Versioned(op, e, v) ==
  Matches([cp |-> Id(e).cp, op |-> op, version |-> v, slot |-> 0, subslot |-> 0,
           repository |-> 0, use |-> {}],
          Id(e), [enabled |-> {}, declared |-> {}, caller |-> {}])

OperatorsCutTheOrder ==
  Answered =>
    \A v \in {scene.id[e].version : e \in Entries} : Parses(v) =>
      \A i, j \in Ranks :
        LET e == inventory[i]
            f == inventory[j]
            Picks(op, x) == Versioned(op, x, v) = "yes"
        IN  /\ Parses(Id(e).version) =>
                 /\ Cardinality({op \in {"<", "=", ">"} : Picks(op, e)}) = 1
                 /\ Picks("<=", e) <=> ~Picks(">", e)
                 /\ Picks(">=", e) <=> ~Picks("<", e)
            /\ i < j /\ Id(e).cp = Id(f).cp =>
                 /\ Picks("<", f) => Picks("<", e) \/ ~Parses(Id(e).version)
                 /\ Picks(">", e) => Picks(">", f)

(***************************************************************************)
(* Two opposed USE dependencies never both hold of a package, and where    *)
(* its flag is declared or has a default one of them does, whatever the    *)
(* caller's flags.  Of two conditionals one always holds.                  *)
(***************************************************************************)
Dependency(flag, enabled, mark, negated, default) ==
  [name |-> flag, enabled |-> enabled, conditional |-> mark = "?", equal |-> mark = "=",
   negated |-> negated, default |-> default]

Unversioned(e, d, use) ==
  Matches([cp |-> Id(e).cp, op |-> "any", slot |-> Id(e).slot, subslot |-> 0, repository |-> 0,
           use |-> {d}], Id(e), use) = "yes"

DependenciesDecide ==
  Answered /\ inventory # <<>> =>
    \A use \in UseStateSet, flag \in Flags, default \in {"none", "on", "off"} :
      LET Holds(enabled, mark, negated) ==
            Unversioned(inventory[1], Dependency(flag, enabled, mark, negated, default), use)
          known == flag \in use.declared \/ default # "none"
      IN  /\ ~(Holds(TRUE, "", FALSE) /\ Holds(FALSE, "", FALSE))
          /\ ~(Holds(TRUE, "=", FALSE) /\ Holds(TRUE, "=", TRUE))
          /\ Holds(TRUE, "", FALSE) \/ Holds(FALSE, "", FALSE) <=> known
          /\ Holds(TRUE, "=", FALSE) \/ Holds(TRUE, "=", TRUE) <=> known
          /\ Holds(TRUE, "?", FALSE) \/ Holds(TRUE, "?", TRUE) <=> known

(***************************************************************************)
(* The same files give the same answer: candidates that the order leaves   *)
(* open come as they are listed, as they do when one worker reads them.    *)
(***************************************************************************)
OrderIsDetermined ==
  Answered =>
    \A i, j \in Ranks :
      i < j /\ Order(inventory[i], inventory[j]) = 0 => inventory[i] < inventory[j]

(***************************************************************************)
(* The call returns and its goroutines end, canceled or not: no worker     *)
(* waits for a task, nor the feeder for a worker, that will not come.      *)
(***************************************************************************)
ScanReturns == <>(phase = "returned" /\ ~feeding /\ AllExited)
=============================================================================
