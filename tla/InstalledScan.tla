---------------------------- MODULE InstalledScan ----------------------------
(***************************************************************************)
(* ReadInstalled (installed.go): the scan of the installed package         *)
(* database beside processes that change it without a lock.                *)
(*                                                                         *)
(* The scan lists the root and its categories, reads the records with a    *)
(* pool of workers (readRecordsConcurrently), then compares every file it  *)
(* read with its first lstat, with a second pool                           *)
(* (validateRecordsConcurrently), then the directories.  A file is its     *)
(* version: every change of a file or directory gives it a version it      *)
(* never had, as inode, size and mtime do; version 0 is none.              *)
(***************************************************************************)
EXTENDS Integers, Sequences, FiniteSets

CONSTANTS
  Categories,   \* directories that the root may hold (numbers)
  Records,      \* directories that the categories may hold (numbers), in the order of the listing
  CategoryOf,   \* CategoryOf[t]: the category of record t
  Required,     \* sequence: the metadata files that must be there, but for CONTENTS
  Optional,     \* sequence: the other files of a record, in reading order
  Defects,      \* what the records may be: functions from Records to Defect
  Requests,     \* the options of the call
  Processors,   \* runtime.GOMAXPROCS(0)
  MaxChange     \* changes of the database (bound of the model)

Root == 0
Directories == {Root} \cup Categories

CONTENTS == "CONTENTS"
Inspected == <<CONTENTS>> \o Required
FileSet == {Inspected[i] : i \in DOMAIN Inspected} \cup {Optional[i] : i \in DOMAIN Optional}

RequestSet ==
  [integrity : {"partial", "complete", "unknown"}, workers : Int, includeContents : BOOLEAN]

(***************************************************************************)
(* A directory name may be no package identity; a required file may be no  *)
(* regular file, or empty; an optional file may be no regular file, or not *)
(* parse.                                                                  *)
(***************************************************************************)
Defect == {"none", "malformed", "irregular", "corrupt", "odd", "invalid"}

ASSUME ScanAssumption ==
  /\ Categories \subseteq Nat \ {0} /\ IsFiniteSet(Categories)
  /\ Records \subseteq Nat \ {0} /\ IsFiniteSet(Records) /\ Records \cap Categories = {}
  /\ CategoryOf \in [Records -> Categories]
  /\ Required \in Seq(STRING) /\ Required # <<>> /\ Optional \in Seq(STRING)
  /\ Defects \subseteq [Records -> Defect]
  /\ Requests \subseteq RequestSet
  /\ Processors \in Nat \ {0} /\ MaxChange \in Nat

VARIABLES
  dir,        \* the records whose directory exists
  file,       \* file[t][f]: version of file f of record t
  defect,     \* what is wrong with the records, if anything
  stamp,      \* stamp[d]: version of directory d
  clock,      \* the last version given
  request,    \* the options of the call
  created,    \* history: the files <<t, f>> that came to be since the beginning
  boundary,   \* history: the database when the last record had been read
  done,       \* is the scan's context done?
  phase,      \* "start", "root", "listing", "category", "reading", "validating", "returned"
  dirStat,    \* dirStat[d]: the lstat of the directory before it was read
  unlisted,   \* the categories that are still to be read
  listed,     \* the records that became tasks
  toFeed,     \* records the feeder has not handed out
  feeding,    \* is the feeder's channel open?
  wpc,        \* wpc[w]: what worker w does
  task,       \* task[w]: its record
  step,       \* step[w]: index of the file it considers
  stat,       \* stat[w]: the lstat of that file
  data,       \* data[w]: what it read of it
  completed,  \* records in the channel of results
  collected,  \* records received from it
  rest,       \* rest[w]: the lstats worker w has yet to repeat
  value,      \* value[t][f]: what the record says of file f (0: empty)
  snaps,      \* snaps[t]: the lstats <<f, version>> kept for validation
  ok,         \* ok[t]: is the record kept?
  issues,     \* the issues found, <<t, code>>, or <<d, code>> of a directory
  result      \* "none", "ok", "incomplete", "canceled", "failed" or "invalid"

worldVars == <<dir, file, defect, stamp, clock, request, created>>
listVars == <<dirStat, unlisted, listed>>
poolVars == <<toFeed, feeding, completed, collected>>
workVars == <<task, step, stat, data, rest>>
recVars == <<value, snaps, ok, issues>>
vars == <<worldVars, boundary, done, phase, listVars, poolVars, wpc, workVars, recVars, result>>

\* CONTENTS is read, after the others, when it is asked for.
ReadOrder == Required \o (IF request.includeContents THEN <<CONTENTS>> ELSE <<>>) \o Optional

\* installedWorkerCount
WorkerCount(tasks) ==
  LET wish == IF request.workers # 0 THEN request.workers
              ELSE IF tasks < 32 THEN 1
              ELSE IF Processors > 32 THEN 32 ELSE Processors
  IN IF wish > tasks THEN tasks ELSE wish

Workers == 1..Cardinality(Records)
Active == 1..WorkerCount(Cardinality(listed))

Database == [dir |-> dir, file |-> file]
NoFiles == [f \in FileSet |-> 0]
Merged(c) == {t \in dir : CategoryOf[t] = c}

\* A record needs its category, and a category its root.
Init ==
  /\ dir \in SUBSET Records
  /\ file = [t \in Records |-> [f \in FileSet |-> IF t \in dir THEN 1 ELSE 0]]
  /\ defect \in Defects
  /\ \E there \in SUBSET Directories :
       /\ {CategoryOf[t] : t \in dir} \subseteq there
       /\ there # {} => Root \in there
       /\ stamp = [d \in Directories |-> IF d \in there THEN 1 ELSE 0]
  /\ clock = 1 /\ created = {}
  /\ boundary = Database
  /\ request \in Requests
  /\ done = FALSE /\ phase = "start"
  /\ dirStat = [d \in Directories |-> 0] /\ unlisted = {} /\ listed = {}
  /\ toFeed = {} /\ feeding = FALSE /\ completed = {} /\ collected = {}
  /\ wpc = [w \in Workers |-> "exited"]
  /\ task = [w \in Workers |-> 0] /\ step = [w \in Workers |-> 1]
  /\ stat = [w \in Workers |-> 0] /\ data = [w \in Workers |-> 0]
  /\ rest = [w \in Workers |-> {}]
  /\ value = [t \in Records |-> NoFiles]
  /\ snaps = [t \in Records |-> {}]
  /\ ok = [t \in Records |-> FALSE]
  /\ issues = {} /\ result = "none"

-----------------------------------------------------------------------------
(* Listing the root and the categories.  An error here ends the call,      *)
(* whatever its mode.                                                      *)

Return(r) == phase' = "returned" /\ result' = r

GoOn(place) == phase' = place /\ UNCHANGED result

Lstat(d) == dirStat' = [dirStat EXCEPT ![d] = stamp[d]]

Start ==
  /\ phase = "start"
  /\ IF request.integrity = "unknown" \/ request.workers < 0
       THEN Return("invalid") /\ UNCHANGED dirStat
     ELSE IF done THEN Return("canceled") /\ UNCHANGED dirStat
     ELSE IF stamp[Root] = 0 THEN Return("failed") /\ UNCHANGED dirStat
     ELSE GoOn("root") /\ Lstat(Root)
  /\ UNCHANGED <<worldVars, boundary, done, unlisted, listed, poolVars, wpc, workVars, recVars>>

\* The root is only created or removed when nothing of the database is used.
ListRoot ==
  /\ phase = "root"
  /\ unlisted' = {c \in Categories : stamp[c] # 0}
  /\ GoOn("listing")
  /\ UNCHANGED <<worldVars, boundary, done, dirStat, listed, poolVars, wpc, workVars, recVars>>

NextCategory(c) == c \in unlisted /\ \A d \in unlisted : c <= d

\* The lstat of a category precedes its ReadDir; it may be gone at both.
StatCategory ==
  /\ phase = "listing"
  /\ \E c \in unlisted :
       /\ NextCategory(c)
       /\ IF done THEN Return("canceled") /\ UNCHANGED dirStat
          ELSE IF stamp[c] = 0 THEN Return("failed") /\ UNCHANGED dirStat
          ELSE GoOn("category") /\ Lstat(c)
  /\ UNCHANGED <<worldVars, boundary, done, unlisted, listed, poolVars, wpc, workVars, recVars>>

IsMalformed(t) == defect[t] = "malformed"

ListCategory ==
  /\ phase = "category"
  /\ \E c \in unlisted :
       /\ NextCategory(c)
       /\ IF stamp[c] = 0 THEN Return("failed") /\ UNCHANGED <<unlisted, listed, issues>>
          ELSE /\ listed' = listed \cup {t \in Merged(c) : ~IsMalformed(t)}
               /\ issues' = issues \cup {<<t, "malformed">> : t \in {u \in Merged(c) : IsMalformed(u)}}
               /\ unlisted' = unlisted \ {c}
               /\ GoOn("listing")
  /\ UNCHANGED <<worldVars, boundary, done, dirStat, poolVars, wpc, workVars, value, snaps, ok>>

StartReading ==
  /\ phase = "listing" /\ unlisted = {}
  /\ phase' = "reading"
  /\ toFeed' = listed /\ feeding' = TRUE
  /\ wpc' = [w \in Workers |-> IF w \in Active THEN "idle" ELSE "exited"]
  /\ UNCHANGED <<worldVars, boundary, done, listVars, completed, collected, workVars, recVars, result>>

-----------------------------------------------------------------------------
(* The feeders, of both pools                                              *)

Foremost(t) == t \in toFeed /\ \A u \in toFeed : t <= u

\* work <- task: the channel has no buffer, a worker takes it at once
Feed(w) ==
  /\ feeding /\ wpc[w] = "idle"
  /\ \E t \in toFeed :
        /\ Foremost(t)
        /\ toFeed' = toFeed \ {t}
        /\ task' = [task EXCEPT ![w] = t]
  /\ step' = [step EXCEPT ![w] = 1]
  /\ rest' = [rest EXCEPT ![w] = IF phase = "reading" \/ ~ok[task'[w]] THEN {} ELSE snaps[task'[w]]]
  /\ wpc' = [wpc EXCEPT ![w] = IF phase = "reading" THEN "inspect" ELSE "compare"]
  /\ UNCHANGED <<worldVars, boundary, done, phase, listVars, feeding, completed, collected,
                 stat, data, recVars, result>>

\* Defect: the feeder does not look at the context.
StopFeedingWhenEmpty ==
  /\ feeding /\ toFeed = {}
  /\ feeding' = FALSE
  /\ UNCHANGED <<worldVars, boundary, done, phase, listVars, toFeed, completed, collected,
                 wpc, workVars, recVars, result>>

\* All is handed out, or ctx.Done is selected: the channel is closed.
StopFeeding ==
  /\ feeding /\ (toFeed = {} \/ done)
  /\ feeding' = FALSE
  /\ UNCHANGED <<worldVars, boundary, done, phase, listVars, toFeed, completed, collected,
                 wpc, workVars, recVars, result>>

\* range over the closed channel
WorkerExits(w) ==
  /\ ~feeding /\ wpc[w] = "idle"
  /\ wpc' = [wpc EXCEPT ![w] = "exited"]
  /\ UNCHANGED <<worldVars, boundary, done, phase, listVars, poolVars, workVars, recVars, result>>

-----------------------------------------------------------------------------
(* readInstalledRecord: one worker on the record task[w]                   *)

Here(w) == file[task[w]]
InspectedFile(w) == Inspected[step[w]]
CurrentFile(w) == ReadOrder[step[w]]
IsRequired(w) == CurrentFile(w) \in {Inspected[i] : i \in DOMAIN Inspected}

Drop(w, code) ==
  /\ issues' = issues \cup {<<task[w], code>>}
  /\ snaps' = [snaps EXCEPT ![task[w]] = {}]
  /\ value' = [value EXCEPT ![task[w]] = NoFiles]
  /\ wpc' = [wpc EXCEPT ![w] = "dropped"]
  /\ UNCHANGED <<step, ok>>

Keep(w, f, version) ==
  snaps' = [snaps EXCEPT ![task[w]] = @ \cup {<<f, version>>}]

\* on to the next file
Advance(w) ==
  /\ step' = [step EXCEPT ![w] = @ + 1]
  /\ wpc' = [wpc EXCEPT ![w] = IF step[w] = Len(ReadOrder) THEN "kept" ELSE "stat"]

\* the lstat of each required file
Inspect(w) ==
  /\ wpc[w] = "inspect"
  /\ IF Here(w)[InspectedFile(w)] = 0
       THEN Drop(w, "interrupted")
     ELSE IF defect[task[w]] = "irregular" THEN Drop(w, "corrupt")
     ELSE /\ Keep(w, InspectedFile(w), Here(w)[InspectedFile(w)])
          /\ step' = [step EXCEPT ![w] = IF @ = Len(Inspected) THEN 1 ELSE @ + 1]
          /\ wpc' = [wpc EXCEPT ![w] = IF step[w] = Len(Inspected) THEN "stat" ELSE @]
          /\ UNCHANGED <<value, ok, issues>>
  /\ UNCHANGED <<worldVars, boundary, done, phase, listVars, poolVars, task, stat, data, rest, result>>

\* Defect: a file that cannot be used is taken for one that is not there.
UnusableSilently(w, code) ==
  IF IsRequired(w) THEN Drop(w, code) ELSE Advance(w) /\ UNCHANGED recVars

\* An issue drops the record when the file is required; otherwise the field is empty.
Unusable(w, code) ==
  IF IsRequired(w) THEN Drop(w, code)
  ELSE /\ Advance(w)
       /\ issues' = issues \cup {<<task[w], code>>}
       /\ UNCHANGED <<value, snaps, ok>>

\* readRegularFile: os.Lstat.  A file that need not be there may be absent.
Stat(w) ==
  /\ wpc[w] = "stat"
  /\ IF Here(w)[CurrentFile(w)] = 0
       THEN /\ IF IsRequired(w) THEN Drop(w, "interrupted") ELSE Advance(w) /\ UNCHANGED recVars
            /\ UNCHANGED stat
     ELSE IF defect[task[w]] = "odd" /\ ~IsRequired(w)
       THEN Unusable(w, "corrupt") /\ UNCHANGED stat
     ELSE /\ stat' = [stat EXCEPT ![w] = Here(w)[CurrentFile(w)]]
          /\ wpc' = [wpc EXCEPT ![w] = "read"]
          /\ UNCHANGED <<step, recVars>>
  /\ UNCHANGED <<worldVars, boundary, done, phase, listVars, poolVars, task, data, rest, result>>

\* readRegularFile: os.ReadFile
Read(w) ==
  /\ wpc[w] = "read"
  /\ data' = [data EXCEPT ![w] = Here(w)[CurrentFile(w)]]
  /\ IF Here(w)[CurrentFile(w)] = 0
       THEN Unusable(w, "unreadable") /\ stat' = [stat EXCEPT ![w] = 0]
       ELSE wpc' = [wpc EXCEPT ![w] = "check"] /\ UNCHANGED <<step, stat, recVars>>
  /\ UNCHANGED <<worldVars, boundary, done, phase, listVars, poolVars, task, rest, result>>

\* empty required metadata, found when all of it has been read
IsCorrupt(w) == step[w] = Len(Required) /\ defect[task[w]] = "corrupt"

\* Defect: the lstat of a file is not kept for the validation.
CheckForgetting(w) ==
  /\ wpc[w] = "check"
  /\ IF Here(w)[CurrentFile(w)] # stat[w] THEN Unusable(w, "mutation")
     ELSE IF IsCorrupt(w) THEN Drop(w, "corrupt")
     ELSE /\ value' = [value EXCEPT ![task[w]][CurrentFile(w)] = data[w]]
          /\ Advance(w)
          /\ UNCHANGED <<snaps, ok, issues>>
  /\ stat' = [stat EXCEPT ![w] = 0] /\ data' = [data EXCEPT ![w] = 0]
  /\ UNCHANGED <<worldVars, boundary, done, phase, listVars, poolVars, task, rest, result>>

\* readRegularFile: validateSnapshot
Check(w) ==
  /\ wpc[w] = "check"
  /\ IF Here(w)[CurrentFile(w)] # stat[w] THEN Unusable(w, "mutation")
     ELSE IF IsCorrupt(w) THEN Drop(w, "corrupt")
     ELSE /\ value' = [value EXCEPT ![task[w]][CurrentFile(w)] = data[w]]
          /\ Keep(w, CurrentFile(w), stat[w])
          /\ Advance(w)
          /\ UNCHANGED <<ok, issues>>
  /\ stat' = [stat EXCEPT ![w] = 0] /\ data' = [data EXCEPT ![w] = 0]
  /\ UNCHANGED <<worldVars, boundary, done, phase, listVars, poolVars, task, rest, result>>

HasResult(w) == wpc[w] \in {"kept", "dropped"}

\* The result of the record: kept or not, an issue when optional metadata does
\* not parse (parseUseDeclarations, parseOptionalInt).
Deliver(w) ==
  /\ ok' = [ok EXCEPT ![task[w]] = wpc[w] = "kept"]
  /\ issues' = issues \cup
       (IF wpc[w] = "kept" /\ defect[task[w]] = "invalid" THEN {<<task[w], "invalid">>} ELSE {})
  /\ wpc' = [wpc EXCEPT ![w] = "idle"] /\ task' = [task EXCEPT ![w] = 0]
  /\ UNCHANGED <<worldVars, boundary, done, phase, listVars, toFeed, feeding, collected,
                 step, stat, data, rest, value, snaps, result>>

\* completed <- result: the channel holds as many results as there are workers
Send(w) ==
  /\ HasResult(w) /\ Cardinality(completed) < Cardinality(Active)
  /\ completed' = completed \cup {task[w]}
  /\ Deliver(w)

\* case <-ctx.Done(): the result is lost
Abandon(w) ==
  /\ HasResult(w) /\ done
  /\ wpc' = [wpc EXCEPT ![w] = "exited"]
  /\ UNCHANGED <<worldVars, boundary, done, phase, listVars, poolVars, workVars, recVars, result>>

-----------------------------------------------------------------------------
(* The collector, the second pool, the end                                 *)

Collect ==
  /\ phase = "reading"
  /\ \E t \in completed : completed' = completed \ {t} /\ collected' = collected \cup {t}
  /\ UNCHANGED <<worldVars, boundary, done, phase, listVars, toFeed, feeding, wpc, workVars,
                 recVars, result>>

AllExited == \A w \in Workers : wpc[w] = "exited"

\* Defect: the results left in the channel when the workers end are lost.
ReadingOverUndrained == phase = "reading" /\ AllExited

\* completed is closed and drained.
ReadingOver == phase = "reading" /\ AllExited /\ completed = {}

\* Defect: the indices handed to the second pool are one too high.
StartValidationOffByOne ==
  /\ ReadingOver
  /\ boundary' = Database
  /\ IF done /\ listed # {}
       THEN Return("canceled") /\ UNCHANGED <<toFeed, feeding, wpc>>
       ELSE /\ phase' = "validating"
            /\ toFeed' = {t + 1 : t \in collected} /\ feeding' = TRUE
            /\ wpc' = [w \in Workers |-> IF w \in Active THEN "idle" ELSE "exited"]
            /\ UNCHANGED result
  /\ UNCHANGED <<worldVars, done, listVars, completed, collected, workVars, recVars>>

\* Nothing to validate, and nothing to feed, when there is no record.
StartValidation ==
  /\ ReadingOver
  /\ boundary' = Database
  /\ IF done /\ listed # {}
       THEN Return("canceled") /\ UNCHANGED <<toFeed, feeding, wpc>>
       ELSE /\ phase' = "validating"
            /\ toFeed' = collected /\ feeding' = TRUE
            /\ wpc' = [w \in Workers |-> IF w \in Active THEN "idle" ELSE "exited"]
            /\ UNCHANGED result
  /\ UNCHANGED <<worldVars, done, listVars, completed, collected, workVars, recVars>>

\* validateSnapshots: the next kept lstat is repeated; none is left of a record
\* without ok, which is passed over.
Compare(w) ==
  /\ wpc[w] = "compare"
  /\ \/ /\ rest[w] = {}
        /\ wpc' = [wpc EXCEPT ![w] = "idle"] /\ task' = [task EXCEPT ![w] = 0]
        /\ UNCHANGED <<rest, ok, issues>>
     \/ \E s \in rest[w] :
          IF Here(w)[s[1]] = s[2]
            THEN /\ rest' = [rest EXCEPT ![w] = @ \ {s}]
                 /\ UNCHANGED <<task, wpc, ok, issues>>
            ELSE /\ ok' = [ok EXCEPT ![task[w]] = FALSE]
                 /\ issues' = issues \cup {<<task[w], "mutation">>}
                 /\ rest' = [rest EXCEPT ![w] = {}]
                 /\ UNCHANGED <<task, wpc>>
  /\ UNCHANGED <<worldVars, boundary, done, phase, listVars, poolVars, step, stat, data,
                 value, snaps, result>>

ValidationOver == phase = "validating" /\ ~feeding /\ AllExited

Finish ==
  /\ ValidationOver
  /\ IF done /\ collected # {}
       THEN Return("canceled") /\ UNCHANGED issues
       ELSE /\ issues' = issues \cup
                 {<<d, "mutation">> : d \in {e \in Directories : dirStat[e] \notin {0, stamp[e]}}}
            /\ Return(IF request.integrity = "complete" /\ issues' # {} THEN "incomplete" ELSE "ok")
  /\ UNCHANGED <<worldVars, boundary, done, listVars, poolVars, wpc, workVars, value, snaps, ok>>

-----------------------------------------------------------------------------
(* The environment                                                         *)

AtRest == <<defect, request, boundary, done, phase, listVars, poolVars, wpc, workVars, recVars, result>>

\* One more change, of the files of record t.
Changing(t, files) ==
  /\ clock <= MaxChange
  /\ clock' = clock + 1
  /\ file' = [file EXCEPT ![t] = files]
  /\ created' = created \cup {<<t, f>> : f \in {g \in FileSet : file[t][g] = 0 /\ files[g] # 0}}
  /\ UNCHANGED AtRest

\* A file is created, replaced or removed; its record's directory changes, the
\* category's does not.
ChangeFile(t, f) ==
  /\ t \in dir
  /\ \/ Changing(t, [file[t] EXCEPT ![f] = clock + 1])
     \/ file[t][f] # 0 /\ Changing(t, [file[t] EXCEPT ![f] = 0])
  /\ UNCHANGED <<dir, stamp>>

\* A record is merged, with its category if need be, or unmerged.
ChangeRecord(t) ==
  /\ stamp[Root] # 0
  /\ IF t \in dir THEN dir' = dir \ {t} /\ Changing(t, NoFiles)
     ELSE dir' = dir \cup {t} /\ Changing(t, [f \in FileSet |-> clock + 1])
  /\ stamp' = [d \in Directories |->
                 IF d = CategoryOf[t] \/ (d = Root /\ stamp[CategoryOf[t]] = 0)
                   THEN clock + 1 ELSE stamp[d]]

\* An empty category is removed.
RemoveCategory(c) ==
  /\ clock <= MaxChange
  /\ stamp[c] # 0 /\ Merged(c) = {}
  /\ clock' = clock + 1
  /\ stamp' = [stamp EXCEPT ![c] = 0, ![Root] = clock + 1]
  /\ UNCHANGED <<dir, file, created, AtRest>>

ContextDone ==
  /\ ~done /\ done' = TRUE
  /\ UNCHANGED <<worldVars, boundary, phase, listVars, poolVars, wpc, workVars, recVars, result>>

WorkerStep(w) ==
  \/ Feed(w) \/ WorkerExits(w) \/ Inspect(w) \/ Stat(w) \/ Read(w) \/ Check(w)
  \/ Send(w) \/ Abandon(w) \/ Compare(w)

ScanStep ==
  \/ Start \/ ListRoot \/ StatCategory \/ ListCategory \/ StartReading
  \/ StopFeeding \/ Collect \/ StartValidation \/ Finish

Terminated == phase = "returned" /\ UNCHANGED vars

Next ==
  \/ ScanStep
  \/ \E w \in Workers : WorkerStep(w)
  \/ ContextDone
  \/ \E t \in Records : ChangeRecord(t) \/ \E f \in FileSet : ChangeFile(t, f)
  \/ \E c \in Categories : RemoveCategory(c)
  \/ Terminated

Spec == Init /\ [][Next]_vars

\* The goroutines run; nothing in the database changes of necessity.
FairSpec == Spec /\ WF_vars(ScanStep) /\ \A w \in Workers : WF_vars(WorkerStep(w))

-----------------------------------------------------------------------------
(* Properties                                                              *)

\* The type invariant.
TypeOK ==
  /\ dir \in SUBSET Records /\ file \in [Records -> [FileSet -> 0..clock]]
  /\ defect \in Defects /\ request \in Requests
  /\ stamp \in [Directories -> 0..clock] /\ clock \in 1..MaxChange + 1
  /\ created \subseteq Records \X FileSet
  /\ done \in BOOLEAN
  /\ phase \in {"start", "root", "listing", "category", "reading", "validating", "returned"}
  /\ dirStat \in [Directories -> 0..clock]
  /\ unlisted \in SUBSET Categories /\ listed \in SUBSET Records
  /\ toFeed \subseteq listed /\ feeding \in BOOLEAN
  /\ completed \subseteq listed /\ collected \subseteq listed
  /\ wpc \in [Workers -> {"exited", "idle", "inspect", "stat", "read", "check", "kept",
                          "dropped", "compare"}]
  /\ task \in [Workers -> listed \cup {0}] /\ step \in [Workers -> 1..Len(ReadOrder) + 1]
  /\ stat \in [Workers -> 0..clock] /\ data \in [Workers -> 0..clock]
  /\ rest \in [Workers -> SUBSET (FileSet \X (1..clock))]
  /\ value \in [Records -> [FileSet -> 0..clock]]
  /\ snaps \in [Records -> SUBSET (FileSet \X (1..clock))]
  /\ ok \in [Records -> BOOLEAN]
  /\ issues \subseteq (Records \cup Directories)
                      \X {"malformed", "interrupted", "unreadable", "mutation", "corrupt", "invalid"}
  /\ result \in {"none", "ok", "incomplete", "canceled", "failed", "invalid"}

Answered == result \in {"ok", "incomplete"}
Packages == {t \in collected : ok[t]}
HasIssue(t) == \E i \in issues : i[1] = t

\* No change of the category, nor of the root, is reported.
Unchanged(c) == ~HasIssue(Root) /\ ~HasIssue(c)

(***************************************************************************)
(* The inventory is a cut: every value that it reports, of any record by   *)
(* any worker, was on disk at one and the same instant, the end of the     *)
(* reading; and when no change of a category is reported, the records it   *)
(* names are those that were there at that instant.                        *)
(***************************************************************************)
ScanIsACut ==
  Answered =>
    /\ \A t \in Packages : \A f \in FileSet :
          value[t][f] # 0 => boundary.file[t][f] = value[t][f]
    /\ \A t \in Records : Unchanged(CategoryOf[t]) =>
          (t \in boundary.dir <=> t \in listed \/ (HasIssue(t) /\ IsMalformed(t)))

(***************************************************************************)
(* A field of a package is empty only for a reason: its file was not there *)
(* at the beginning or not at the end of the reading, or there is an issue *)
(* of the package.  One that is replaced while it is read has an issue.    *)
(***************************************************************************)
EmptyIsExplained ==
  Answered =>
    \A t \in Packages : \A f \in {ReadOrder[i] : i \in DOMAIN ReadOrder} :
      value[t][f] = 0 => HasIssue(t) \/ boundary.file[t][f] = 0 \/ <<t, f>> \in created

(***************************************************************************)
(* No record is lost between the pools, whatever the workers' order: each  *)
(* listed record is in the inventory or has an issue.                      *)
(***************************************************************************)
NothingLost ==
  Answered => \A t \in listed : t \in Packages \/ (t \in collected /\ HasIssue(t))

(***************************************************************************)
(* The scan returns and its goroutines end, canceled or not.               *)
(***************************************************************************)
ScanReturns == <>(phase = "returned" /\ ~feeding /\ AllExited)
=============================================================================
