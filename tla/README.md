# A verification development of gentooling

gentooling is a Go library that reads the state of a Gentoo system: what is
installed, what the configuration says, what the repositories offer, what the
user selected. It writes nothing. Its difficulty is that the state belongs to
others: Portage changes it under locks, administrators edit it under none, and
every answer is put together from many files read at different times by
several goroutines. This directory holds TLA+ models of that code, the TLC
configurations that check them and proofs that TLAPS checks.

`PROJECT.json` maps every definition to the lines it models and lists the runs,
the mutants, the hazards, the findings and the theorems.

## 1. The system

### Components

| component | source | state | operations | status |
|---|---|---|---|---|
| state locks | `state_lock_linux.go` | lock files, shared (open file description) locks of readers, exclusive locks of Portage | observe, poll, unwind, release | modelled, proved |
| system snapshot | `snapshot.go` | the call's locks, its observations, three goroutines and the context they share | `ReadSystemSnapshot`, `readSystemObservation`, `EvaluateCandidate` | modelled, proved |
| selections | `selections.go` | world file, profile packages | `ReadSelections`, `selectionsFromProfile` | the reads and their order, the system selections and their sources; not the lines of the world file |
| installed inventory | `installed.go` | the VDB, two worker pools, lstat snapshots of every file | `ReadInstalled` | modelled, proved |
| repository candidates | `candidates.go` | metadata caches, a worker pool | `ReadRepositoryCandidates` | modelled, proved |
| profile graph | `profile.go` | inheritance graph, stacked layers | `ReadProfile` | modelled, proved |
| repositories | `repositories.go` | sections of `repos.conf`, masters | `ReadRepositories` | modelled, proved |
| configuration | `config.go` | incremental variables over layers | `ReadEffectiveConfig` | modelled but for quoting and continuation; types, resets, merged lists and masks proved |
| USE | `use.go` | a pure fold over the layers | `EvaluateUse` | modelled, proved |
| visibility | `visibility.go` | masks, unmasks, keywords | `EvaluateVisibility` | modelled, proved |
| atoms | `atom.go`, `identity.go` | pure | parse, compare, match | compare and match modelled, the order of versions and its agreement with atoms proved; not the lexical parsing |
| kernel requirements | `kernel_requirements.go`, `kernel_condition.go`, `kernel_evaluation.go` | the stacks of open shell blocks, the arrays seen so far | scan, evaluate | modelled but for some forms of line; what is modelled is proved |
| kernel modules | `kernel_modules.go` | none of its own: an inventory | `ReadInstalledKernelModules` | modelled over the inventory, proved |
| news, preserved libraries, paths | `news.go`, `preserved.go`, `paths.go` | none of their own | one pass over files | not modelled |

### How they interact

`ReadSystemSnapshot` takes shared locks on the VDB's and the world file's lock
files, then observes the system until two consecutive observations are equal.
One observation runs three goroutines under one cancelable context: the
installed inventory; the configuration, which calls the profile and repository
readers and then, if asked, the candidate reader; and the world file. When all
three have ended it derives the system selections from the profile, and for
that opens the profile's `packages` files a second time. `ReadSelections` is a
second user of the locks and takes the world lock only. `ReadInstalled` and
`ReadRepositoryCandidates` run worker pools of their own;
`ReadInstalledKernelModules` calls the first and classifies what it returns, and
`EvaluateCandidate` looks up what the second returned and evaluates it under
the configuration.

### What is hard

* The locks: a file that does not exist, a second lock that fails after the
  first was granted, two calls of one process that lock the same file, a writer
  that takes the locks in the other order, a context that ends during a poll.
* The snapshot: reads spread over time and goroutines, agreement of two
  observations as evidence of stability, errors of goroutines that were
  canceled because another one failed, the bound on the attempts.
* The inventory: a consistent cut from many lstats, a pool whose feeder, workers,
  closer and collector meet cancellation at any point.
* The candidates: a pool under no lock and without a second pass of validation,
  whose results are put in order by a comparison with many cases.
* The policy code: graphs that must be walked in one order and may be cyclic,
  layers whose order decides, a scanner that keeps two stacks by hand.

The list under "hazards" in `PROJECT.json` names each at its line.

## 2. Modules

| module | models | built on |
|---|---|---|
| `StateLocks` | `observeLockPaths`, `observeStateLock`, `releaseStateLocks`; Portage as the writers | |
| `SnapshotContract` | what `ReadSystemSnapshot` promises, without saying how | |
| `SystemSnapshot` | `ReadSystemSnapshot`, `readSystemObservation`, the reads of `selections.go`; administrators | `StateLocks`; implements `SnapshotContract` |
| `InstalledScan` | `ReadInstalled`, with both pools | |
| `KernelModules` | `ReadInstalledKernelModules` | `InstalledScan` |
| `Versions` | `Version.Compare` and what a version is | |
| `Atoms` | `Atom.Matches`, USE dependencies | `Versions` |
| `CandidateScan` | `ReadRepositoryCandidates`, the search of `EvaluateCandidate` | `Atoms` |
| `DepthFirst` | `orderRepositories`, `collectProfile`: one walk, over any graph | |
| `PolicyEvaluation` | `EvaluateUse`, `EvaluateVisibility`, `EvaluateCandidate` | |
| `Policy` | `ReadRepositories`, `ReadProfile`, `ReadEffectiveConfig`, file by file; `selectionsFromProfile` | `PolicyEvaluation`, two instances of `DepthFirst` |
| `KernelScan` | `ReadKernelRequirements`, `EvaluateKernelRequirements`, beside a reference interpreter of bash | |
| `MCStateLocks`, `MCSystemSnapshot`, `MCInstalledScan`, `MCCandidateScan`, `MCPolicy`, `MCKernelScan` | instances for TLC | |
| `StateLocksProofs`, `SystemSnapshotProofs`, `InstalledScanProofs`, `CandidateScanProofs`, `DepthFirstProofs`, `PolicyProofs`, `KernelScanProofs` | theorems; those about `KernelModules` are in `InstalledScanProofs`, those about `Versions` in `CandidateScanProofs` | the module each is named for; TLAPS |
| `SequenceFolds` | lemmas: what a fold over a list computes, what lists of lists join to, which element is the last of a kind | the community modules; TLAPS |

### StateLocks

A reader is one call: `rpc[r]` says where it is, `pos[r]` which of its sorted
paths it is at, `held[r]` the indices of the paths in its slice of locks.
`shared[p]` is the kernel's side: the open file descriptions that hold a shared
lock on the file. Keeping both lets a property say that they agree. A duplicate
path is skipped (`SkipDuplicate`), a missing file is passed over
(`OpenMissing`), an unreadable one or a fcntl error other than a conflict ends
the call through the release of what it holds (`OpenFails`, `LockFails`,
`ReleaseLast`, `Released`), a conflict sleeps and tries again (`Conflict`,
`Retry`) until the context is done (`GiveUp`). Writers create the file, lock it
exclusively, one path after the other in an order of their own, and unlock in
reverse; the tests of the repository drive Portage's side in the same way.

### SystemSnapshot

State is cut into *cells*, read in one step each, and an observation into
*slots*, each of which reports a cell; a cell may be reported twice, as the
profile is. `PartReads` is a goroutine reading one slot, `ComposeReads` the
reads after `wait.Wait()`. `PartFails` is a failure of its own and cancels the
observation's context; `PartStops` is a goroutine that sees its context done.
`FirstError` and `ObservationFails` are the three loops that choose the error.
`ObserveAgain`, `Stabilized` and `Exhausted` are the loop of
`ReadSystemSnapshot`. `CallerAcquire` and `CallerRelease` are the actions of
`StateLocks` with their results. `boundary` and `window` are history variables:
the state when the current observation began and all states from the call to its
outcome.

A slot is read as a content and an order. `Orders` says in which orders a content
can be listed: one for all readers that sort, several for candidates that compare
equal and come as the workers deliver them (`candidates.go:128`, the finding of
`candidate_ties`). `Agree` is `reflect.DeepEqual` and compares both, so two
observations of unchanged caches may differ. The contract allows that: it permits
`ErrConcurrentMutation` if the state changed or if something that was asked for
has more than one order.

Contents are numbers. With `Reverts = FALSE` each change gives a cell a larger
one, which is how a cell never has a content it had before; with `TRUE` any
content follows any other. `Rogue` adds writers that ignore the locks. With
`Endless` the state changes for ever beside a lockless call, which only the bound on
its observations then brings to an end.

### InstalledScan

A database of categories with their records. A file is its version: `os.SameFile`,
mode, size and mtime are taken to differ after every change, and so are those of
a directory when a name in it comes or goes. `ListRoot` and `ListCategory` are the
listing, with the lstat of each directory; `Inspect` is the first loop of
`readInstalledRecord`; `Stat`, `Read` and `Check` are `readRegularFile`; `Drop`
and `Unusable` are the ways a record or an optional field is given up; `Feed`,
`StopFeeding`, `Send`, `Abandon`, `WorkerExits`, `Collect` are the channels of
the pools; `Compare` is the second pool's repeated lstat; `Finish` is the check
of the root and the categories and of the integrity mode. The options are those
of `InstalledReadOptions`: unless `IncludeContents` is set, `CONTENTS` is only
inspected. `boundary` is a history variable, the state at the end of the reading,
and `created` are the files that came to be after the beginning.

An optional file that is created during the scan leaves no trace in the code: its
absence has no snapshot, and its creation changes the record's directory, which
is not compared. `EmptyIsExplained` names this as the one case of an empty field
without an issue.

### KernelModules

A line of `CONTENTS` is its kind and the components of its path, and what
`INHERITED` says is whether it names a `linux-mod` eclass. The classification is a
set of operators over the inventory that `InstalledScan` returns, as it is in the
code. An inventory that was read without `CONTENTS` has no lines, and its module
packages are then those that inherit the eclass, all with `no_module_artifacts`.

### Versions and Atoms

A text of digits is its width and its value, which is what the rules of leading
zeros tell apart; a version is the list of its numerals, letter, suffixes and
revision. `Compare` gives the sign of the first of five stages that is not zero.
A revision too large for an int is accepted by `ParsePackageID` and refused by
`ParseVersion`: such an identity has no version (`Parses`), sorts first and makes
matching an error. `~` and `=*` compare texts and not numbers. In `Matches` an atom
is its parts, and of USE dependencies those that `parseUseDependencies` accepts.

### CandidateScan

Repositories and their categories are listed in order (`ListRoot`,
`ListCategory`), each with its own issues, then a pool reads the files of
metadata. `Stat`, `Open`, `Read`, `Check` are the two lstats around the open
and the reading, during which a file may be rewritten in place or replaced. The
feeder and the workers give up when the context ends, and the collector drains
what is in the channel. `text` is a history variable: the versions of the file
whose bytes a worker has seen. `Sort` inserts what has arrived one by one, as
`sort.Slice` does with twelve elements or less; with more it may also exchange
those whose keys tie. Nothing is compared a second time after
the pool, unlike in `ReadInstalled`: two candidates need not have been on disk at
one instant, and the code does not say that they were.

### DepthFirst

`orderRepositories` and `collectProfile` are the same walk with different nodes.
`calls` is the recursion: a frame is a node and those of its parents that are
still to be called. `Open` is `state[name] == 1` or `stack[path]`, `Closed` is
`state[name] == 2` or `seen[path]`. `Reject` stands for a master that is not
configured and for a profile that escapes the repositories, is no directory or
has a file that cannot be read. `Above` is the reference: the smallest set that
is closed under parents, by quantification over all closed sets.

### Policy and PolicyEvaluation

`phase` is the file that `ReadEffectiveConfig` reads next; every action reads one
and does with it what the code does. The environment chooses the content from
the few that the *dialect* of the instance has for files of that kind. Words
keep their `-` and whether they are a `${NAME}`; a `-GROUP` in `USE_EXPAND` names no
variable (`config.go:123`). `values` is the map of expanded
variables and `assignments` the list of those as written: the code keeps both
and derives different things from them. `Fail` is every error return.

An atom is whether it matches the one package that is evaluated, and for masks,
which are taken back by their text, also which atom it is. `EvaluateUse` and
`EvaluateVisibility` are operators: ordinary changes, then force and mask entries,
are put in one list each, tagged with their kind, and folded; the evidence of
both is kept, without its sources. Atoms that do not parse, which are an error of
the evaluation, are left out. The layers of a profile are
chosen when they are merged instead of during the walk, which no property can
tell as files do not change here; that they do is the subject of
`SystemSnapshot`. `config` has the fields of `EffectiveConfig` and of its
`Profile` side by side, a profile that is absent being one without directories.

What `repos.conf` says is a sequence of sections, each a name and the keys it sets.
`ConfiguredGraph` makes of it what `orderRepositories` is called with: sections
`DEFAULT` add up, wherever they are; a repository keeps the place of its first
section and has the keys of its last one only; its masters are those that the
`layout.conf` of its location names. A section without a location, with a
number that is none or a name that is none ends the call before the walk.
Locations are names, two repositories have different ones, and how a location
is rebased beneath a root is left out; that a parent profile escapes the
repositories is that it cannot be used.

### KernelScan

The environment writes an ebuild line by line, in one of 24 forms; each `Scan...`
action is a turn of the scanner's loop on that form, with its two stacks
(`controlStack`, `conditions`), the resets that a bare `local` leaves pending and the
one array it knows (`staticArrays`). A loop over the array is expanded where it is
used, up to `LoopLimit` values. An eclass that is inherited is read as a second
source, or is found nowhere. The code joins conditions to text and parses it again;
this is abstracted to the node it gets, and a node is what its `evaluate` method
answers in each context, built by `conditionNot`, `conditionAnd` and `conditionOr` as
the methods of the code do. A context says which tests are true and whether USE and
the target kernel are told. A test, as it is written, has the node it parses to and
the worlds in which bash finds it true; `KernelAssumption` asks of one that parses
that its node never denies what holds and leaves nothing open when all is told, and
`GrammarAnswers` proves this of what the parser takes: USE tests, tests of the target,
negations and disjunctions. `ApplicabilityAt` and what it uses are
`EvaluateKernelRequirements` in three-valued logic. `Bash` is
the reference: it obeys the lines of the function of the phase, under a world that
says which tests are true, and gives the value of `CONFIG_CHECK` at each check. It
does not follow calls to other functions: a loop in a wrapper, as in the test
`kernel_requirements_test.go:310`, is checked where the wrapper is the phase itself.

The forms are fewer than those of bash. In a loop values are appended and nothing
is checked; an array is assigned outside blocks; an eclass has no functions, and
checks are in functions. The search of `kernelFunctionReachable` is given as what is
reached after each round of calls, not as its queue. An evaluation of no phase
(`kernel_evaluation.go:205`) and the error that `RequireComplete` adds to evidence
which is not complete (`kernel_requirements.go:166`) are left out.
Four more things are left out because the code gets them wrong, which TLC shows
as soon as a dialect has them: a static array assigned again with a dynamic
value keeps its old values (`kernel_requirements.go:249`); a literal in a loop over an
empty array is called applicable; an `=` in a loop keeps all values, where bash
keeps the last; and an eclass whose path sorts after the ebuild's is replayed
after it, as is an assignment outside all functions but below one
(`kernel_evaluation.go:151`). `CONFIG_CHECK` set in one function and checked in
another that it calls is matched with no check (`kernel_evaluation.go:199`); the
reference does not follow calls and cannot tell. The repository's `README.md:129-132`
does claim wrapper calls, the variable's state at each invocation, and static arrays
and loops. These deviations are listed as hazards and not as findings because no run
shows them: dialects that have them are not among those of the runs.

What the ebuilds of a run must not be is stated twice. `Dialects` gives TLC the forms
of line that may meet, and three operators say of a dialect what the theorems need:

* `LoopsUnderstood`: where there is a loop there is no function but the phase's,
  since the scanner takes what it knows of an array from one function to the next and
  bash does so only if both run; and only `${name}` is assigned in a loop over what
  may be empty;
* `ConditionsUnmixed`: a block whose test is a `use flag` is not nested with one whose
  test is another (the finding of `kernel_else`: its `else` is given the wrong condition);
* `ValuesUnderstood`: an eclass sorts before the ebuild, what follows a bare `local` is
  an unguarded `+=` (the finding of `kernel_local`), and arrays that are known do not
  meet arrays that are not.

`MCAssumption` has TLC check both of all dialects of the run that passes.

## 3. Runs

| run | question | bounds |
|---|---|---|
| `locks` | agreement with the kernel, error paths, equal paths, mutual wait, return of calls | two readers, one of them with equal paths, one writer in the opposite order, all kinds of file |
| `locks_missing` | *violated*: is a reader with its locks protected when a file is missing? | as `locks`, files missing or present |
| `snapshot_lockless` | existence, the causes of errors, the contract | four cells, five slots, none (three attempts) or two attempts, two changes, with and without candidates, two of which compare equal once the caches have changed, contents that do not come back, two stages that may fail, calls with invalid options |
| `snapshot_locked` | protection and the locked part, return | two cells; a locked call of two attempts beside a writer that makes up to four changes, which may come back, lock files present or unreadable; a lockless call of three attempts beside changes without end, without the writer's locks (`LocksMatter`), which that call does not look at |
| `installed` | cut, empty fields, completeness, modules to build again, termination | two records of three files in two categories, four requests (two workers, the default, two invalid ones), one change, four pairs of data defects |
| `candidates` | what is answered, whole texts, order, operators, dependencies, termination | three files in two repositories and two categories; 175 choices from a pool of eleven versions that hold still, four caches with defects that change, seven that cannot be listed in part; four requests |
| `candidate_ties` | *violated*: does the order of candidates depend on the files only? | 1.0 and 1.00 in one repository, two workers |
| `policy` | the walks on graphs, which layer decides masks, forced flags, system packages, flags and keywords | three profiles in 392 graphs, two repositories in eight forms of `repos.conf`; eleven kinds of dialect, each with files of one to five kinds and up to five contents of each; three packages |
| `policy_references` | *violated*: do references in `USE` reach the flags? | the dialect of variables |
| `kernel` | conservative evidence, exact values, completeness, calls | fifteen dialects of up to nine lines, two of them with loops in the phase's function, one flag, one test of the context, one that is not understood, loops of up to two values |
| `kernel_else` | *violated*: is evidence that bash runs kept, with any `else` in an inner block? | six lines, depth two |
| `kernel_local` | *violated*: is the value exact after a bare `local` and a plain assignment? | six lines |

Why the bounds are enough: two readers and two lock files are the least that
share one lock and wait for the other; a third adds no new kind of conflict. A
mixed observation needs two cells, a read of each and a change between them;
agreement on a mixture needs the same twice, hence four changes. Three attempts
reach the comparison of an observation that is neither the first nor the last.
One change is enough to break a cut of the inventory at each of its reads, and
two workers are the least that read at different times. Two categories have
each a listing and a check of their own, and records in both or in one. Three
versions are the least among which an order can run in a circle, and the pool
has one for each rule of the comparison. Three profiles make a chain, a fork, a diamond and cycles of one, two
and three; two layers and a third that both inherit from are enough for one to
undo what another says. An ebuild needs a block in a block and a line after each
to show that a stack has lost its place; `LoopLimit` is 256 in the code, and with
two an array of three values already exceeds it. Where TLAPS proves the property as
well the bounds do not matter.

`CHECK_DEADLOCK` is on in all runs; a system that has come to its end stutters
explicitly (`Idle`, `Terminated`, `Returned`, and the like).

### Fairness

Weak fairness of the steps of a started call, of its goroutines and of a begun
transaction: the Go scheduler runs what is runnable, the kernel runs Portage.
Nothing else is fair: no context need end, no call or transaction need begin,
no part need fail, nothing need change. Transactions are bounded, since the code
polls and a writer that always retakes its lock between two polls can starve it.
`ReaderReturns` therefore holds for writers that stop, and so does `CallReturns` as far
as it waits for locks. The observations need no such thing: in `snapshot_locked` a
lockless call returns though the state changes for ever, its contents come back, and no
two observations agree; without the bound on the attempts it would not. With lock
orders that do not agree a reader and a writer may wait for each other for ever:
`ReaderReturns` names that wait (`MutualWait`) as the only alternative to a return,
and `ContextEndsWait` says that a call whose context ends returns even then.

## 4. Findings

1. `locks_missing`: a lock file that does not exist is passed over without a
   lock, and a writer that creates it is not kept out. The documentation says
   that locked consistency means that the locks were held (`COMPATIBILITY.md:24`).
2. `candidate_ties`: the sort key of candidates is package, version and repository,
   and different versions may compare equal (1.0 and 1.00, 1 and 1-r0). Such
   candidates stay in the order in which workers deliver them
   (`candidates.go:128`), where the README says that scans are deterministic
   (`README.md:118`). Two observations of unchanged caches may then differ, and a
   snapshot reports `ErrConcurrentMutation`, which `snapshot.go:57` and `README.md:98`
   promise for persistent change only. `SnapshotContract` therefore allows it for
   candidates that compare equal, too.
3. `kernel_else`: an `else`, `elif` or `fi` of a block that is no plain USE test
   inverts or drops the USE condition of the block around it
   (`kernel_requirements.go:301`), and an assignment that bash runs is called
   inapplicable, where `COMPATIBILITY.md` promises conservative evidence.
4. `kernel_local`: the reset that a bare `local CONFIG_CHECK` leaves pending
   survives a plain assignment (`kernel_requirements.go:371`) and makes the next
   append drop what was assigned.
5. `policy_references`: flag changes are read off the assignments as written, so
   `USE="${BASE}"` expands in `Variables` and changes no flag (`config.go:291`);
   `CHANGELOG.md` says that references are expanded.

Known and not counted as a finding: two equal lockless observations can be the
same mixture of two states when contents change and change back between them.
The documentation promises two equal observations and no more;
`SnapshotExisted` and the contract are therefore stated for contents that do not
come back, and under locks `LockedPartExisted` holds without that restriction.

## 5. Proofs

All theorems hold for every value of the constants that satisfies the
assumptions of their modules (`LockAssumption`, `SortedAssumption`,
`SnapshotAssumption`, `ScanAssumption`, `ModuleAssumption`,
`CandidateAssumption`, `GraphAssumption`, `PolicyAssumption`,
`VersionAssumption`). Most say what the constants are. Four say something of the
code or of what it reads: the lock paths are sorted; the required fields of a
package are not none (`installed.go` names them in a literal list); no file that
ends in `.ko` is named `kernel`; and the files of a cache that have an identity
have different ones, as the identity is their name (`SameFile`).

`StateLocksProofs`. The inductive invariant `LockInv` joins the types with:
`PassedOnly` (a reader remembers only indices it has passed, and none before and
after the call), `InRange` (where `pos` stands for each `rpc`), `Exclusion`,
`HeldIsLocked` itself, and `PassedAreUsable` (a passed path is not unreadable or
broken). `HeldIsLocked` alone is not inductive: a grant must not reuse an index,
which is `PassedOnly`. Each conjunct has a lemma with one step per action.
`NothingLeaks` follows from `PassedOnly` and `HeldIsLocked`, `NeverDegrades` from
`PassedAreUsable` at the end of the paths. `LockedMeansProtected` needs, beside
`LockInv`, that no file is missing: then `CoverInv` (every passed path has a
lock) is invariant. That hypothesis is exactly what the run `locks_missing`
shows to be needed.

`SystemSnapshotProofs`. `SnapshotUsesLocks` proves that every step of the
snapshot is a step of the lock protocol or leaves it alone, so all of the above
applies to it; `ReturnedHoldsNothing` is a corollary. `ErrorHasCause` rests on
`ContextInv`: the error of the observation's context is the caller's or has a
failed goroutine as its cause. `SnapshotExisted` rests on `ReadInv` (what has
been read was in the window, a composed observation has read all that is
wanted, a result follows a whole comparison) and, for contents that do not come
back, on `OrderInv`: what the previous observation read is no later than the
beginning of this one, and what this one read is no earlier; equality puts both
at that beginning, which is the witness. `LockedPartExisted` and
`StableWhileLocked` (nothing under a lock moves while a call holds its locks, which
is proved only) rest on `HoldInv` and `NobodyWrites`: while a locked
observation runs, `LockedMeansProtected` leaves no writer that may write.
`ContractImplemented` maps each step to one of the contract or to a stutter;
`DifferenceShows` justifies `ErrConcurrentMutation`: two observations that differ show
two states of the window, or two orders of one content.

`InstalledScanProofs`. `TypeInv` has beside the types what a worker may be at
(`WorkInv`): a busy one has a record that was listed, no other has it, and it is
neither with the feeder nor in the results. `NothingLost` rests on `LossInv`:
while the context is not done a listed record is with the feeder, with a worker
or in the results (`AllInHand`), workers end after the feeder (`WorkersStay`),
and a record that is not kept has an issue. When the results are drained none
can be left elsewhere. `ScanIsACut` relates the answer to one instant, the end of the
reading, that the code never sees; the argument is that no file gets a version
again. `FilesInv` says that what is read between equal lstats is of their
version (`ReadIsStat`), that an lstat which is still right now was right at the
boundary (`SameIsUnchanged`), and that in the second pool each kept lstat was right
at the boundary or is still to be repeated (`RightOrPending`), which ends as the
property when nothing is to be repeated. `DirsInv` says the same of directories:
a category whose lstat is what it was holds exactly the records that were named,
and one that was not there is not there while the root's lstat is what it was
(`ListingHolds`, and `ListingHeld` after the boundary). `EmptyIsExplained` rests
on `EmptyInv`, which explains every file that a worker has passed: filled in, an issue
of its record, absent, or created during the scan. It needs `created` to grow
only, and at the boundary what is said of the files now becomes what is said of
the files then.

The last part of `InstalledScanProofs` is about `KernelModules`.
`RebuildsAreFoundAlways` draws on `EmptyInv`, `ScanIsACut`
and `NothingLost`, and adds that the two descriptions of a module agree: the code's,
a path whose component after `modules` is the release and which does not contain
`/modules/RELEASE/kernel/` anywhere, and the property's, by the place of each
component. They agree on paths that have one component `modules`
(`PlainPaths`, the theorem's hypothesis, true of the run and of every path that a
kernel's build installs): a module at `/lib/modules/R/x/modules/R/kernel/y.ko` is
taken for one of the kernel's own.

`CandidateScanProofs`. `PlaceInv` says that an entry is in one place: with the
feeder, with one worker, in the channel, collected or in the inventory, once.
The bound on the channel's buffer in `TypeOK` needs it, for it counts entries.
`MetadataIsWhole` rests on `TextInv`: at the second lstat, a file that is what it
was at the first has had one text since it was opened, for versions never come
back. `PositionIsRank` rests on `RankInv`, no later candidate is less than an
earlier one; an insertion keeps it because comparing is a preorder, which is
`CompareIsPreorder` joined lexicographically with packages
and repositories. `OperatorsCutTheOrder` is `RankInv` and `EqualVersionsCompareAlike`.
`SteadyIsAnswered` has four parts, one for each way an entry could be missed:
`VisitInv` (the issues of repositories and categories are those of the visited
ones), `ListedInv` (what did not change was listed), `KeptInv` (a task is
somewhere, or has its issue), `CodeInv` (a file that does not change gets the
result that is due to it). That it is then found also needs that no other entry
answers to its name, which is `SameFile`.

`DepthFirstProofs`. `WalkInv` says that no node has two frames and none whose call
has returned (`CalledOnce`), and that each parent of an open node is done, still
to be called, or open one frame further (`NothingSkipped`); when a frame has
nothing left to call, its parents are therefore done, which is `Ordered` for the
node that is added. `WalkParentsFirst` needs of the constants only that the graphs
are graphs. `WalkOutcome` adds `ReachInv`: what is open, done or still to be
called is above the roots and what is open or done is usable, every root is done
or to be called, and what is still to be called in a frame is above the nodes of all
frames before it. A call of an open node is therefore a cycle; and a walk
that ends has a closed set of nodes in which parents come first, in which there
can be none. `WalkTypeCorrect` needs that the nodes are finite: the type of
`calls` bounds the depth of the recursion by their number, and as no node has two
frames a deeper recursion would contradict it. `PolicyProofs` shows that every step of `Policy` is a step of each of
its two walks or leaves it alone, and draws `WalksInOrderAlways` and
`WalksAreRightAlways` from these proofs, once for masters and once for parents.

`SequenceFolds`. A fold is a recursive function over sets of indices, and most of
the policy code is one. The lemmas say for any operator what a fold gives for the
empty list, for one element more and for two lists joined, that it stays in a set
that is closed under the operator, and that two folds in lockstep keep a
relation; and, for an operator with which some elements put the fold in a set,
some take it out and the others leave it, that the last of the former decides
(`LastDecides`). The library states induction for an operator, which the prover cannot
instantiate; here it is stated for a set of numbers and proved from the least
element of a well-founded order, with the tables of a fold constructed on the way.
`FlattenSeq` and the last element of a kind (`Latest`) get the same.

`PolicyProofs`, beyond the walks. `TypeInv` consists of `OrdersTyped`,
`ReadInv` (what has been read is what the parsers make of files of that kind),
`ShapeInv` (the layers are ones that the files can spell), `FieldInv` (one type
for each field of `config`) and `LayersInStep`. From there:

* `StableOnlyForStableAlways`: layers with their stable lists struck out make the
  same list of force and mask entries for a package that is not stable; the folds
  are then over equal lists.
* `CommandResetsAlways`: what the command says comes last in the list of keywords
  (`CommandInv`), the `-*` that each of its entries starts with leaves nothing of
  what was before (`ResetForgets`), so the last of its entries decides
  (`LastEntryDecides`).
* `DecisionFollowsEvidenceAlways`: both folds of `EvaluateUse` keep a decision and
  its evidence in `ExplainedSet`, where the decision is that of the latest item
  that says something of the flag. For visibility, `EvidenceAgrees` says that a
  keyword is accepted exactly if the latest item about it accepts it, while the
  fold goes through lists and not through items.
* `MergedIsReplayedAlways` relates two computations of the code that are made at
  different times from different data: the lists of forced and masked flags that
  `ReadProfile` merges layer by layer, and what `EvaluateUse` finds when it goes
  through the layers again. `MergedInv` says that the merged lists are what the
  layers in turn say; one file (`FileAgrees`), one layer (`LayerAgrees`), then all
  of them (`LayersAgree`) keep the agreement.
* `NearestSpeaksLastAlways` joins the walks with what is made of the files. Files
  are read in the order of the walks (`OrdersKept`); after each layer, and after
  each repository's `package.mask`, the last of those so far that mentions a name
  has decided (`LayersDecide`, `RepositoriesDecide`, from `LastDecides` for one
  file and then for one file more). And what is above a node of an order does not
  come after it (`AboveIsBefore` of `DepthFirstProofs`: the nodes up to it are
  closed under parents). If all who mention a name are above one who does, that
  one is therefore the last. Nobody may be heard twice, which is `WalksOnce`.
  `systemSelectionSource` searches for a word that adds the package and not for
  the last word about it; that they are the same follows from the package being
  selected.

What `PolicyAssumption` assumes of the files is what their parsers return
(`Parsed`). The prover has no theory of `SelectSeq`: filters whose results matter
are written with `FlattenSeq`, of which `SequenceFolds` has the lemmas.

`CandidateScanProofs` begins with the versions. `CompareIsPreorder` says of any three versions that comparison is
antisymmetric in its signs and transitive, and `EqualVersionsCompareAlike` that
versions which compare equal compare alike with every third, without which a
sort by it would have no meaning. The hard stage is that of the numerals: which rule
applies to a component depends on both numerals, a fraction when either has a
leading zero. The lemmas show that padding keeps the order, so that a fraction with a
leading zero is less than every numeral without one and the two rules never
disagree in a circle; the lists of components, of different lengths, are then
compared lexicographically, and the five stages again.

`KernelScanProofs` is about two machines that read the same lines, the scanner and
bash, and goes by what the scanner's frames say of bash's blocks. `TypeInv` has the
part that is not obvious: each USE condition belongs to a supported frame of an `if`,
in order (`Placed`), though an `elif` drops one and a test that is no `use flag` has
none; without it a `fi` could pop a condition that is not its own. `Sourcing` makes
bash, started anywhere, run to the end of what is written, and `FramesInv` says of
every such run, as long as it follows the line it is at, that each frame's node fits
whether its block runs, and its `prior` whether one before its `else` did (`Matches`).
Every form of line keeps it, for a line is obeyed after all others have been.

* `ApplicableRequirementsRun` adds `LoopsInv` (a loop that is expanded runs, over the
  values it is expanded to, or over an array which is not known; while there is a loop
  `OutsideInv` has all lines outside functions or in the phase's, so that bash obeys
  what the scanner has seen) and `AppliesInv`:
  for each requirement, if its conditions and its expression hold in the world then
  its line has run. What three-valued logic calls applicable holds, whatever is told.
* `ActiveEvidenceIsKept` is the other direction and needs `ConditionsInv`: the USE
  conditions are those of the frames they are placed at, and hold where these execute.
  `KeepsInv` says that no evidence whose line has run is denied by its conditions, its
  expression or its function (`RanInv`: what bash has run is of no function, or of the
  phase's). The invariant fails where a `use` block meets a test of another kind, which is
  the hypothesis of the theorem; the run `KernelElse` shows the property violated without it.
* `CompleteEvaluationIsSettled`: if bash runs an unread assignment before a check, then
  neither is denied, by the former; the phase is reachable from itself; and the two are
  related by line unless they are of different files. So `Blocking` finds it and the
  evaluation is not complete. `LocatedInv` and `DefinedInv` say where evidence is.
* `SearchIsExact`: the search goes through the calls in as many rounds as there are
  functions. The set that round *k* reaches grows or is closed (`RoundsSuffice`), so
  after that many rounds it is closed under calls, and what is closed contains all that
  is called from the phase.
* `AppliedRequirementsAreTheValue` goes by the line. The code never computes a value: it
  keeps assignments with their conditions, and picks at a check those that apply and that
  no later `=` replaces. `ValueInv` says that after each line bash has exactly what the
  requirements so far that apply (`Applied`) make when replayed on the value before the
  file (`ValueOf`), except between a bare `local` and its assignment, and that each check
  saw what those before it make (`SeenMatch`). A line adds its requirements to the replay
  exactly if bash runs it (`ValueStep`): that it ran if they apply is argued as for
  `AppliesInv`; that they apply if it ran needs `ConditionsInv`; and that each value of a
  loop has its requirement needs `EachInv` (a block has the values of the innermost loop
  that is expanded). `FirstInv` and `OrderInv` say where functions and bare locals may
  stand, so that what the ebuild assigns outside of functions comes before all of them.
  Last, `ReplayedInOrder` takes the code's one replay of both files apart into that of
  the eclass and that of the ebuild on what it leaves, and `AppliesAtCheck` gives what an
  invocation is matched with. The run `kernel_local` shows the property violated by an
  ebuild that is not `ValuesUnderstood`.

Every safety invariant and action property of the passing runs is stated by a theorem.
Only the liveness properties are model-checked and not proved, as fairness is out of
the prover's reach.

## 6. Plan

1. `KernelScan`: a reference that follows calls, and dialects in which a loop resets.

## 7. Not modelled

* Lexical parsing of atoms, identities, assignments, `CONTENTS` and shell lines:
  what a text means is where the models begin. The parsers are sequential and
  keep no state between calls.
* `news.go` reads a list of items and a list of those unread, `preserved.go` decodes
  one JSON file, `paths.go` joins paths: one pass each, with nothing beside them
  that could interleave and no state that could go wrong over several calls.
* The lines of the world file, beyond being read in one step; how locations are rebased beneath a root.
* Changes of a file that keep its inode, size and mtime (`installed.go:515`): the
  comparison assumes that there are none, and so do the models.
