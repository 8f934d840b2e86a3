-------------------------- MODULE InstalledScanProofs --------------------------
(***************************************************************************)
(* Proofs about InstalledScan: what the scan reports was on disk at one    *)
(* instant, nothing of it is lost, and what is empty is so for a reason,   *)
(* for any number of records and workers and whatever changes meanwhile.   *)
(* The last part is about KernelModules: which packages must be built      *)
(* again is what the database said at that instant, for any lines of       *)
(* CONTENTS and any target.                                                *)
(***************************************************************************)
EXTENDS KernelModules, FiniteSetTheorems, SequenceTheorems, TLAPS

Files == {ReadOrder[i] : i \in DOMAIN ReadOrder}
InspectedFiles == {Inspected[i] : i \in DOMAIN Inspected}
Busy(w) == wpc[w] \notin {"idle", "exited"}

-----------------------------------------------------------------------------
(* The order of the files                                                  *)

(***************************************************************************)
(* A worker's index stays in the order it follows: there is a file to      *)
(* read, and not less than there are to inspect, but one.                  *)
(***************************************************************************)
LEMMA OrderFacts ==
  /\ Inspected \in Seq(FileSet) /\ Len(Inspected) >= 1
  /\ ReadOrder \in Seq(FileSet) /\ Len(ReadOrder) >= 1
  /\ Len(Inspected) <= Len(ReadOrder) + 1
<1>. DEFINE Name == STRING \cup {CONTENTS}
<1>1. Required \in Seq(Name) /\ Len(Required) \in Nat /\ Len(Required) >= 1
  BY ScanAssumption, SeqMonotonic
<1>2. Optional \in Seq(Name) /\ Len(Optional) \in Nat
  BY ScanAssumption, SeqMonotonic
<1>. HIDE DEF Name
<1>3. Inspected \in Seq(Name) /\ Len(Inspected) = Len(Required) + 1 /\ CONTENTS = Inspected[1]
      /\ \A i \in 1..Len(Required) : Required[i] = Inspected[i + 1]
  <2>1. ASSUME NEW S, NEW x \in S PROVE <<x>> \in Seq(S) /\ Len(<<x>>) = 1 /\ <<x>>[1] = x
    OBVIOUS
  <2>2. <<CONTENTS>> \in Seq(Name) /\ Len(<<CONTENTS>>) = 1 /\ <<CONTENTS>>[1] = CONTENTS
    BY <2>1 DEF Name
  <2>3. \A i \in 1..1 + Len(Required) :
          Inspected[i] = IF i <= 1 THEN <<CONTENTS>>[i] ELSE Required[i - 1]
    BY <1>1, <2>2, ConcatProperties DEF Inspected
  <2>4. Inspected \in Seq(Name) /\ Len(Inspected) = 1 + Len(Required)
    BY <1>1, <2>2, ConcatProperties DEF Inspected
  <2>5. ASSUME NEW i \in 1..Len(Required) PROVE Required[i] = Inspected[i + 1]
    <3>1. i + 1 \in 1..1 + Len(Required) /\ ~(i + 1 <= 1) /\ (i + 1) - 1 = i
      BY <1>1
    <3>. QED BY <2>3, <3>1
  <2>6. Inspected[1] = CONTENTS
    <3>1. 1 \in 1..1 + Len(Required) /\ 1 <= 1
      BY <1>1
    <3>. QED BY <2>2, <2>3, <3>1
  <2>. QED BY <1>1, <2>4, <2>5, <2>6
<1>4. \A i \in DOMAIN Required : Required[i] = Inspected[i + 1] /\ i + 1 \in DOMAIN Inspected
  BY <1>1, <1>3
<1>5. Inspected \in Seq(FileSet)
  BY <1>3 DEF FileSet
<1>6. Required \in Seq(FileSet) /\ Optional \in Seq(FileSet) /\ CONTENTS \in FileSet
  <2>1. \A i \in DOMAIN Required : Required[i] \in FileSet
    BY <1>4 DEF FileSet
  <2>2. \A i \in DOMAIN Optional : Optional[i] \in FileSet
    BY DEF FileSet
  <2>3. ASSUME NEW S, NEW T, NEW s \in Seq(S), \A i \in DOMAIN s : s[i] \in T PROVE s \in Seq(T)
    BY <2>3
  <2>4. 1 \in DOMAIN Inspected
    BY <1>1, <1>3
  <2>. QED BY <1>1, <1>2, <1>3, <2>1, <2>2, <2>3, <2>4 DEF FileSet
<1>7. ReadOrder \in Seq(FileSet) /\ Len(ReadOrder) >= Len(Required)
  <2>. DEFINE Extra == IF request.includeContents THEN <<CONTENTS>> ELSE <<>>
  <2>1. Extra \in Seq(FileSet) /\ Len(Extra) \in Nat
    BY <1>6
  <2>2. ReadOrder = (Required \o Extra) \o Optional
    BY DEF ReadOrder
  <2>. HIDE DEF Extra
  <2>3. Required \o Extra \in Seq(FileSet) /\ Len(Required \o Extra) = Len(Required) + Len(Extra)
    BY <1>6, <2>1, ConcatProperties
  <2>. DEFINE First == Required \o Extra
  <2>. HIDE DEF First
  <2>4. First \o Optional \in Seq(FileSet) /\ Len(First \o Optional) = Len(First) + Len(Optional)
    BY <1>6, <2>3, ConcatProperties DEF First
  <2>. QED BY <1>1, <1>2, <2>1, <2>2, <2>3, <2>4 DEF First
<1>. QED
  BY <1>1, <1>3, <1>5, <1>7
-----------------------------------------------------------------------------
(* Types                                                                   *)

WorldTypeOK ==
  /\ dir \in SUBSET Records /\ file \in [Records -> [FileSet -> 0..clock]]
  /\ defect \in Defects /\ request \in Requests
  /\ stamp \in [Directories -> 0..clock] /\ clock \in 1..MaxChange + 1
  /\ created \subseteq Records \X FileSet
  /\ done \in BOOLEAN

ListTypeOK ==
  /\ phase \in {"start", "root", "listing", "category", "reading", "validating", "returned"}
  /\ dirStat \in [Directories -> 0..clock]
  /\ unlisted \in SUBSET Categories /\ listed \in SUBSET Records
  /\ toFeed \subseteq listed /\ feeding \in BOOLEAN
  /\ completed \subseteq listed /\ collected \subseteq listed
  /\ result \in {"none", "ok", "incomplete", "canceled", "failed", "invalid"}

WorkTypeOK ==
  /\ wpc \in [Workers -> {"exited", "idle", "inspect", "stat", "read", "check", "kept",
                          "dropped", "compare"}]
  /\ task \in [Workers -> listed \cup {0}] /\ step \in [Workers -> 1..Len(ReadOrder) + 1]
  /\ stat \in [Workers -> 0..clock] /\ data \in [Workers -> 0..clock]
  /\ rest \in [Workers -> SUBSET (FileSet \X (1..clock))]

Codes == {"malformed", "interrupted", "unreadable", "mutation", "corrupt", "invalid"}

RecTypeOK ==
  /\ value \in [Records -> [FileSet -> 0..clock]]
  /\ snaps \in [Records -> SUBSET (FileSet \X (1..clock))]
  /\ ok \in [Records -> BOOLEAN]
  /\ issues \subseteq (Records \cup Directories) \X Codes

\* The steps a worker takes fit the phase, and what it holds fits the step.
WorkInv ==
  /\ phase \in {"start", "root", "listing", "category"} =>
       AllExited /\ ~feeding /\ toFeed = {} /\ completed = {} /\ collected = {}
  /\ phase \notin {"start", "returned"} => request.workers >= 0
  /\ phase # "returned" => result = "none"
  /\ \A w \in Workers :
       /\ phase = "returned" => wpc[w] = "exited"
       /\ phase = "validating" => wpc[w] \in {"exited", "idle", "compare"}
       /\ phase # "validating" => wpc[w] # "compare"
       /\ Busy(w) => task[w] \in listed
       /\ wpc[w] = "inspect" => step[w] <= Len(Inspected)
       /\ wpc[w] \in {"stat", "read", "check"} => step[w] <= Len(ReadOrder)
       /\ wpc[w] = "kept" => step[w] = Len(ReadOrder) + 1
       /\ wpc[w] \in {"read", "check"} => stat[w] # 0
       /\ wpc[w] = "check" => data[w] # 0

TypeInv == WorldTypeOK /\ ListTypeOK /\ WorkTypeOK /\ RecTypeOK /\ WorkInv

(***************************************************************************)
(* The types of the scan are those of the world, the lists, the workers    *)
(* and the records.                                                        *)
(***************************************************************************)
LEMMA TypeParts == TypeOK <=> WorldTypeOK /\ ListTypeOK /\ WorkTypeOK /\ RecTypeOK
BY DEF TypeOK, WorldTypeOK, ListTypeOK, WorkTypeOK, RecTypeOK, Codes

(***************************************************************************)
(* The initial states are well typed.                                      *)
(***************************************************************************)
LEMMA TypeInit == Init => TypeInv
<1> SUFFICES ASSUME Init PROVE TypeInv
  OBVIOUS
<1>0. clock = 1 /\ 0 \in 0..1 /\ 1 \in 0..1
  BY DEF Init
<1>1. WorldTypeOK
  <2>1. file \in [Records -> [FileSet -> 0..clock]]
    BY <1>0 DEF Init
  <2>2. stamp \in [Directories -> 0..clock]
    BY <1>0 DEF Init
  <2>3. clock \in 1..MaxChange + 1
    BY <1>0, ScanAssumption
  <2>. QED BY <2>1, <2>2, <2>3 DEF Init, WorldTypeOK
<1>2. ListTypeOK
  <2>1. dirStat \in [Directories -> 0..clock]
    BY <1>0 DEF Init
  <2>. QED BY <2>1 DEF Init, ListTypeOK
<1>3. WorkTypeOK
  BY OrderFacts DEF Init, WorkTypeOK
<1>4. RecTypeOK
  BY DEF Init, RecTypeOK, NoFiles
<1>5. WorkInv
  BY DEF Init, WorkInv, AllExited, Busy
<1>. QED BY <1>1, <1>2, <1>3, <1>4, <1>5 DEF TypeInv

(***************************************************************************)
(* A change of the database leaves all the scan holds well typed: versions *)
(* only grow.                                                              *)
(***************************************************************************)
LEMMA ClockGrows ==
  ASSUME TypeInv, clock' \in clock..MaxChange + 1,
         UNCHANGED <<request, phase, listVars, poolVars, wpc, workVars, recVars, result>>
  PROVE  ListTypeOK' /\ WorkTypeOK' /\ RecTypeOK' /\ WorkInv'
<1>1. clock \in Nat /\ clock' \in Nat /\ clock <= clock' /\ 0..clock \subseteq 0..clock'
      /\ 1..clock \subseteq 1..clock'
  BY ScanAssumption DEF TypeInv, WorldTypeOK
<1>. DEFINE old == clock
<1>. DEFINE new == clock'
<1>2. ListTypeOK'
  BY <1>1 DEF TypeInv, ListTypeOK, listVars, poolVars
<1>3. WorkTypeOK'
  <2>1. ReadOrder' = ReadOrder
    BY DEF ReadOrder
  <2>2. SUBSET (FileSet \X (1..clock)) \subseteq SUBSET (FileSet \X (1..clock'))
    BY <1>1
  <2>. QED BY <1>1, <2>1, <2>2 DEF TypeInv, WorkTypeOK, workVars, listVars
<1>4. RecTypeOK'
  <2>1. SUBSET (FileSet \X (1..clock)) \subseteq SUBSET (FileSet \X (1..clock'))
    BY <1>1
  <2>2. [FileSet -> 0..clock] \subseteq [FileSet -> 0..clock']
    BY <1>1
  <2>. QED BY <2>1, <2>2 DEF TypeInv, RecTypeOK, recVars
<1>5. WorkInv'
  <2>1. ReadOrder' = ReadOrder
    BY DEF ReadOrder
  <2>. QED BY <2>1 DEF TypeInv, WorkInv, AllExited, Busy, workVars, listVars, poolVars
<1>. QED BY <1>2, <1>3, <1>4, <1>5

(***************************************************************************)
(* A busy worker is on a listed record, and on a file of its order.        *)
(***************************************************************************)
LEMMA WorkerFacts ==
  ASSUME TypeInv, NEW w \in Workers, Busy(w)
  PROVE  /\ task[w] \in listed /\ task[w] \in Records /\ phase \in {"reading", "validating"}
         /\ Here(w) \in [FileSet -> 0..clock]
         /\ wpc[w] = "inspect" => InspectedFile(w) \in FileSet
         /\ wpc[w] \in {"stat", "read", "check"} =>
              step[w] \in 1..Len(ReadOrder) /\ CurrentFile(w) \in FileSet
<1>1. task[w] \in listed /\ task[w] \in Records
  BY DEF TypeInv, WorkInv, ListTypeOK
<1>2. phase \in {"reading", "validating"}
  BY DEF TypeInv, WorkInv, ListTypeOK, AllExited, Busy
<1>3. Here(w) \in [FileSet -> 0..clock]
  BY <1>1 DEF Here, TypeInv, WorldTypeOK
<1>4. step[w] \in 1..Len(ReadOrder) + 1
  BY DEF TypeInv, WorkTypeOK
<1>5. ASSUME wpc[w] = "inspect" PROVE InspectedFile(w) \in FileSet
  <2>1. step[w] \in 1..Len(Inspected)
    BY <1>4, <1>5, OrderFacts DEF TypeInv, WorkInv
  <2>. QED BY <2>1, OrderFacts DEF InspectedFile
<1>6. ASSUME wpc[w] \in {"stat", "read", "check"}
      PROVE  step[w] \in 1..Len(ReadOrder) /\ CurrentFile(w) \in FileSet
  <2>1. step[w] \in 1..Len(ReadOrder)
    BY <1>4, <1>6, OrderFacts DEF TypeInv, WorkInv
  <2>. QED BY <2>1, OrderFacts DEF CurrentFile
<1>. QED BY <1>1, <1>2, <1>3, <1>5, <1>6

(***************************************************************************)
(* A record that is dropped is well typed.                                 *)
(***************************************************************************)
LEMMA DropTyped ==
  ASSUME TypeInv, NEW w \in Workers, Busy(w), phase = "reading",
         NEW code \in Codes, Drop(w, code),
         UNCHANGED <<worldVars, phase, listVars, poolVars, task, rest, done, result>>,
         stat' \in [Workers -> 0..clock], data' \in [Workers -> 0..clock],
         \A v \in Workers \ {w} : stat'[v] = stat[v] /\ data'[v] = data[v]
  PROVE  TypeInv'
<1>. USE DEF worldVars, listVars, poolVars
<1>1. ReadOrder' = ReadOrder
  BY DEF ReadOrder
<1>2. WorldTypeOK' /\ ListTypeOK'
  BY DEF TypeInv, WorldTypeOK, ListTypeOK
<1>3. WorkTypeOK'
  BY <1>1 DEF TypeInv, WorkTypeOK, Drop
<1>4. RecTypeOK'
  <2>1. NoFiles \in [FileSet -> 0..clock]
    BY DEF NoFiles, TypeInv, WorldTypeOK
  <2>. QED BY <2>1, WorkerFacts DEF TypeInv, RecTypeOK, Drop
<1>5. WorkInv'
  BY <1>1 DEF TypeInv, WorkTypeOK, WorkInv, Drop, Busy
<1>. QED BY <1>2, <1>3, <1>4, <1>5 DEF TypeInv

(***************************************************************************)
(* A worker that goes on to the next file, or has read the last, is well   *)
(* typed.                                                                  *)
(***************************************************************************)
LEMMA AdvanceTyped ==
  ASSUME TypeInv, NEW w \in Workers, wpc[w] \in {"stat", "read", "check"}, phase = "reading",
         Advance(w),
         UNCHANGED <<worldVars, phase, listVars, poolVars, task, rest, done, result>>,
         stat' \in [Workers -> 0..clock], data' \in [Workers -> 0..clock],
         \A v \in Workers \ {w} : stat'[v] = stat[v] /\ data'[v] = data[v],
         RecTypeOK'
  PROVE  TypeInv'
<1>. USE DEF worldVars, listVars, poolVars
<1>1. ReadOrder' = ReadOrder
  BY DEF ReadOrder
<1>2. WorldTypeOK' /\ ListTypeOK'
  BY DEF TypeInv, WorldTypeOK, ListTypeOK
<1>3. step[w] \in 1..Len(ReadOrder) /\ Len(ReadOrder) \in Nat
  <2>1. Busy(w)
    BY DEF Busy
  <2>2. step[w] \in 1..Len(ReadOrder)
    BY <2>1, WorkerFacts
  <2>3. Len(ReadOrder) \in Nat
    BY OrderFacts
  <2>. QED BY <2>2, <2>3
<1>4. WorkTypeOK'
  <2>1. step[w] + 1 \in 1..Len(ReadOrder) + 1
    BY <1>3
  <2>2. step' \in [Workers -> 1..Len(ReadOrder) + 1]
    BY <2>1 DEF TypeInv, WorkTypeOK, Advance
  <2>. QED BY <1>1, <2>2 DEF TypeInv, WorkTypeOK, Advance
<1>5. WorkInv'
  <2>1. \A v \in Workers \ {w} : wpc'[v] = wpc[v] /\ step'[v] = step[v]
    BY DEF TypeInv, WorkTypeOK, Advance
  <2>2. step'[w] = step[w] + 1 /\ wpc'[w] = IF step[w] = Len(ReadOrder) THEN "kept" ELSE "stat"
    BY DEF TypeInv, WorkTypeOK, Advance
  <2>3. step'[w] <= Len(ReadOrder) + 1 /\ (wpc'[w] = "kept" => step'[w] = Len(ReadOrder) + 1)
        /\ (wpc'[w] = "stat" => step'[w] <= Len(ReadOrder))
    BY <1>3, <2>2
  <2>. QED BY <1>1, <2>1, <2>2, <2>3 DEF TypeInv, WorkInv, Busy
<1>. QED BY <1>2, <1>4, <1>5 DEF TypeInv

(***************************************************************************)
(* A file that a record cannot use drops the record or is passed with an   *)
(* issue: either way the types hold.                                       *)
(***************************************************************************)
LEMMA UnusableTyped ==
  ASSUME TypeInv, NEW w \in Workers, wpc[w] \in {"stat", "read", "check"}, phase = "reading",
         NEW code \in Codes, Unusable(w, code),
         UNCHANGED <<worldVars, phase, listVars, poolVars, task, rest, done, result>>,
         stat' \in [Workers -> 0..clock], data' \in [Workers -> 0..clock],
         \A v \in Workers \ {w} : stat'[v] = stat[v] /\ data'[v] = data[v]
  PROVE  TypeInv'
<1>1. Busy(w)
  BY DEF Busy
<1>2. CASE IsRequired(w)
  BY <1>1, <1>2, DropTyped DEF Unusable
<1>3. CASE ~IsRequired(w)
  <2>1. task[w] \in Records
    BY <1>1, WorkerFacts
  <2>2. RecTypeOK'
    BY <1>3, <2>1 DEF Unusable, TypeInv, RecTypeOK, worldVars
  <2>. QED BY <1>3, <2>2, AdvanceTyped DEF Unusable
<1>. QED BY <1>2, <1>3

(***************************************************************************)
(* The lstat of a required file, kept for the validation, is well typed.   *)
(***************************************************************************)
LEMMA InspectTyped ==
  ASSUME TypeInv, NEW w \in Workers, Inspect(w)
  PROVE  TypeInv'
<1>. DEFINE f == InspectedFile(w)
<1>1. Busy(w) /\ task[w] \in Records /\ f \in FileSet /\ Here(w)[f] \in 0..clock
  BY WorkerFacts DEF Inspect, Busy
<1>2. phase = "reading"
  BY <1>1, WorkerFacts DEF TypeInv, WorkInv, Inspect
<1>3. UNCHANGED <<worldVars, phase, listVars, poolVars, task, rest, done, result, stat, data>>
      /\ wpc[w] = "inspect"
  BY DEF Inspect
<1>4. stat' \in [Workers -> 0..clock] /\ data' \in [Workers -> 0..clock]
  BY <1>3 DEF TypeInv, WorkTypeOK
<1>5. ASSUME NEW code \in Codes, Drop(w, code) PROVE TypeInv'
  BY <1>1, <1>2, <1>3, <1>4, <1>5, DropTyped
<1>6. CASE /\ Here(w)[f] # 0
           /\ Keep(w, f, Here(w)[f])
           /\ step' = [step EXCEPT ![w] = IF @ = Len(Inspected) THEN 1 ELSE @ + 1]
           /\ wpc' = [wpc EXCEPT ![w] = IF step[w] = Len(Inspected) THEN "stat" ELSE @]
           /\ UNCHANGED <<value, ok, issues>>
  <2>. USE DEF worldVars, listVars, poolVars
  <2>1. ReadOrder' = ReadOrder /\ Len(Inspected) \in Nat /\ Len(ReadOrder) \in Nat
    BY <1>3, OrderFacts DEF ReadOrder
  <2>2. WorldTypeOK' /\ ListTypeOK'
    BY <1>3 DEF TypeInv, WorldTypeOK, ListTypeOK
  <2>3. step[w] \in 1..Len(Inspected)
    BY <1>3, <2>1 DEF TypeInv, WorkTypeOK, WorkInv
  <2>4. step'[w] \in 1..Len(Inspected) /\ (wpc'[w] = "stat" => step'[w] = 1)
    BY <1>3, <1>6, <2>1, <2>3 DEF TypeInv, WorkTypeOK
  <2>5. Len(Inspected) <= Len(ReadOrder) + 1 /\ 1 <= Len(ReadOrder)
    BY OrderFacts
  <2>6. step' \in [Workers -> 1..Len(ReadOrder) + 1]
    BY <1>6, <2>1, <2>4, <2>5 DEF TypeInv, WorkTypeOK
  <2>7. WorkTypeOK'
    BY <1>3, <1>4, <1>6, <2>1, <2>6 DEF TypeInv, WorkTypeOK
  <2>8. RecTypeOK'
    <3>1. <<f, Here(w)[f]>> \in FileSet \X (1..clock)
      BY <1>1, <1>6 DEF TypeInv, WorldTypeOK
    <3>. QED BY <1>1, <1>3, <1>6, <3>1 DEF TypeInv, RecTypeOK, Keep
  <2>9. WorkInv'
    <3>1. \A v \in Workers \ {w} : wpc'[v] = wpc[v] /\ step'[v] = step[v]
      BY <1>6 DEF TypeInv, WorkTypeOK
    <3>2. wpc'[w] \in {"inspect", "stat"}
      BY <1>3, <1>6 DEF TypeInv, WorkTypeOK
    <3>3. step'[w] <= Len(Inspected) /\ (wpc'[w] = "stat" => step'[w] <= Len(ReadOrder))
      BY <2>1, <2>4, <2>5
    <3>. QED BY <1>1, <1>2, <1>3, <2>1, <3>1, <3>2, <3>3 DEF TypeInv, WorkInv, Busy
  <2>. QED BY <2>2, <2>7, <2>8, <2>9 DEF TypeInv
<1>. QED BY <1>5, <1>6 DEF Inspect, Codes

(***************************************************************************)
(* The lstat of a file that is about to be read is well typed.             *)
(***************************************************************************)
LEMMA StatTyped ==
  ASSUME TypeInv, NEW w \in Workers, Stat(w)
  PROVE  TypeInv'
<1>. DEFINE f == CurrentFile(w)
<1>1. Busy(w) /\ task[w] \in Records /\ f \in FileSet /\ Here(w)[f] \in 0..clock
      /\ step[w] \in 1..Len(ReadOrder)
  BY WorkerFacts DEF Stat, Busy
<1>2. phase = "reading" /\ wpc[w] = "stat"
  BY <1>1, WorkerFacts DEF TypeInv, WorkInv, Stat
<1>3. UNCHANGED <<worldVars, phase, listVars, poolVars, task, rest, done, result, data>>
  BY DEF Stat
<1>4. stat \in [Workers -> 0..clock] /\ data' \in [Workers -> 0..clock]
  BY <1>3 DEF TypeInv, WorkTypeOK
<1>5. ASSUME NEW code \in Codes, Drop(w, code), UNCHANGED stat PROVE TypeInv'
  BY <1>1, <1>2, <1>3, <1>4, <1>5, DropTyped
<1>6. ASSUME Advance(w), UNCHANGED recVars, UNCHANGED stat PROVE TypeInv'
  <2>1. RecTypeOK'
    BY <1>3, <1>6 DEF TypeInv, RecTypeOK, recVars, worldVars
  <2>. QED BY <1>2, <1>3, <1>4, <1>6, <2>1, AdvanceTyped
<1>7. ASSUME NEW code \in Codes, Unusable(w, code), UNCHANGED stat PROVE TypeInv'
  BY <1>2, <1>3, <1>4, <1>7, UnusableTyped
<1>8. CASE /\ Here(w)[f] # 0
           /\ stat' = [stat EXCEPT ![w] = Here(w)[f]]
           /\ wpc' = [wpc EXCEPT ![w] = "read"]
           /\ UNCHANGED <<step, recVars>>
  <2>. USE DEF worldVars, listVars, poolVars, recVars
  <2>1. ReadOrder' = ReadOrder
    BY <1>3 DEF ReadOrder
  <2>2. WorldTypeOK' /\ ListTypeOK' /\ RecTypeOK'
    BY <1>3, <1>8 DEF TypeInv, WorldTypeOK, ListTypeOK, RecTypeOK
  <2>3. WorkTypeOK'
    BY <1>1, <1>3, <1>4, <1>8, <2>1 DEF TypeInv, WorkTypeOK
  <2>4. WorkInv'
    BY <1>1, <1>2, <1>3, <1>4, <1>8, <2>1 DEF TypeInv, WorkTypeOK, WorkInv, Busy
  <2>. QED BY <2>2, <2>3, <2>4 DEF TypeInv
<1>. QED BY <1>5, <1>6, <1>7, <1>8 DEF Stat, Codes

(***************************************************************************)
(* What is read of a file is well typed.                                   *)
(***************************************************************************)
LEMMA ReadTyped ==
  ASSUME TypeInv, NEW w \in Workers, Read(w)
  PROVE  TypeInv'
<1>. DEFINE f == CurrentFile(w)
<1>1. Busy(w) /\ task[w] \in Records /\ f \in FileSet /\ Here(w)[f] \in 0..clock
      /\ step[w] \in 1..Len(ReadOrder)
  BY WorkerFacts DEF Read, Busy
<1>2. phase = "reading" /\ wpc[w] = "read"
  BY <1>1, WorkerFacts DEF TypeInv, WorkInv, Read
<1>3. UNCHANGED <<worldVars, phase, listVars, poolVars, task, rest, done, result>>
      /\ data' = [data EXCEPT ![w] = Here(w)[f]]
  BY DEF Read
<1>4. stat \in [Workers -> 0..clock] /\ data' \in [Workers -> 0..clock] /\ 0 \in 0..clock
      /\ \A v \in Workers \ {w} : data'[v] = data[v]
  BY <1>1, <1>3 DEF TypeInv, WorkTypeOK, WorldTypeOK
<1>5. CASE Unusable(w, "unreadable") /\ stat' = [stat EXCEPT ![w] = 0]
  <2>1. stat' \in [Workers -> 0..clock] /\ \A v \in Workers \ {w} : stat'[v] = stat[v]
    BY <1>4, <1>5
  <2>. QED BY <1>2, <1>3, <1>4, <1>5, <2>1, UnusableTyped DEF Codes
<1>6. CASE Here(w)[f] # 0 /\ wpc' = [wpc EXCEPT ![w] = "check"] /\ UNCHANGED <<step, stat, recVars>>
  <2>. USE DEF worldVars, listVars, poolVars, recVars
  <2>1. ReadOrder' = ReadOrder
    BY <1>3 DEF ReadOrder
  <2>2. WorldTypeOK' /\ ListTypeOK' /\ RecTypeOK'
    BY <1>3, <1>6 DEF TypeInv, WorldTypeOK, ListTypeOK, RecTypeOK
  <2>3. WorkTypeOK'
    BY <1>3, <1>4, <1>6, <2>1 DEF TypeInv, WorkTypeOK
  <2>4. WorkInv'
    BY <1>1, <1>2, <1>3, <1>4, <1>6, <2>1 DEF TypeInv, WorkTypeOK, WorkInv, Busy
  <2>. QED BY <2>2, <2>3, <2>4 DEF TypeInv
<1>. QED BY <1>5, <1>6 DEF Read

(***************************************************************************)
(* A file whose lstat is repeated gives a well typed field.                *)
(***************************************************************************)
LEMMA CheckTyped ==
  ASSUME TypeInv, NEW w \in Workers, Check(w)
  PROVE  TypeInv'
<1>. DEFINE f == CurrentFile(w)
<1>1. Busy(w) /\ task[w] \in Records /\ f \in FileSet
  BY WorkerFacts DEF Check, Busy
<1>2. phase = "reading" /\ wpc[w] = "check" /\ stat[w] # 0
  BY <1>1, WorkerFacts DEF TypeInv, WorkInv, Check
<1>3. UNCHANGED <<worldVars, phase, listVars, poolVars, task, rest, done, result>>
      /\ stat' = [stat EXCEPT ![w] = 0] /\ data' = [data EXCEPT ![w] = 0]
  BY DEF Check
<1>4. stat' \in [Workers -> 0..clock] /\ data' \in [Workers -> 0..clock]
      /\ \A v \in Workers \ {w} : stat'[v] = stat[v] /\ data'[v] = data[v]
  BY <1>3 DEF TypeInv, WorkTypeOK, WorldTypeOK
<1>5. ASSUME NEW code \in Codes, Unusable(w, code) PROVE TypeInv'
  BY <1>2, <1>3, <1>4, <1>5, UnusableTyped
<1>6. ASSUME NEW code \in Codes, Drop(w, code) PROVE TypeInv'
  BY <1>1, <1>2, <1>3, <1>4, <1>6, DropTyped
<1>7. CASE /\ value' = [value EXCEPT ![task[w]][f] = data[w]]
           /\ Keep(w, f, stat[w])
           /\ Advance(w)
           /\ UNCHANGED <<ok, issues>>
  <2>1. <<f, stat[w]>> \in FileSet \X (1..clock)
    BY <1>1, <1>2 DEF TypeInv, WorkTypeOK, WorldTypeOK
  <2>2. data[w] \in 0..clock
    BY DEF TypeInv, WorkTypeOK
  <2>3. RecTypeOK'
    BY <1>1, <1>3, <1>7, <2>1, <2>2 DEF TypeInv, RecTypeOK, Keep, worldVars
  <2>. QED BY <1>2, <1>3, <1>4, <1>7, <2>3, AdvanceTyped
<1>. QED BY <1>5, <1>6, <1>7 DEF Check, Codes

(***************************************************************************)
(* The feeding of the workers, the results they send and their end are     *)
(* well typed.                                                             *)
(***************************************************************************)
LEMMA PoolTyped ==
  ASSUME TypeInv, NEW w \in Workers, Feed(w) \/ WorkerExits(w) \/ Send(w) \/ Abandon(w) \/ Compare(w)
  PROVE  TypeInv'
<1>. USE DEF worldVars, listVars, poolVars, recVars, workVars
<1>1. ReadOrder' = ReadOrder
  BY DEF Feed, WorkerExits, Send, Deliver, Abandon, Compare, ReadOrder
<1>2. WorldTypeOK'
  BY DEF Feed, WorkerExits, Send, Deliver, Abandon, Compare, TypeInv, WorldTypeOK
<1>3. CASE Feed(w)
  <2>1. PICK t \in toFeed : toFeed' = toFeed \ {t} /\ task' = [task EXCEPT ![w] = t]
    BY <1>3 DEF Feed
  <2>2. t \in listed /\ t \in Records /\ task'[w] = t
    BY <2>1 DEF TypeInv, ListTypeOK, WorkTypeOK
  <2>3. phase \in {"reading", "validating"}
    BY <1>3 DEF Feed, TypeInv, WorkInv, ListTypeOK
  <2>4. ListTypeOK' /\ RecTypeOK'
    BY <1>3, <2>1 DEF Feed, TypeInv, ListTypeOK, RecTypeOK
  <2>5. rest' \in [Workers -> SUBSET (FileSet \X (1..clock))]
    BY <1>3, <2>2 DEF Feed, TypeInv, WorkTypeOK, RecTypeOK
  <2>6. WorkTypeOK'
    <3>1. 1 \in 1..Len(ReadOrder) + 1
      BY OrderFacts
    <3>. QED BY <1>1, <1>3, <2>1, <2>2, <2>5, <3>1 DEF Feed, TypeInv, WorkTypeOK
  <2>7. WorkInv'
    <3>1. 1 <= Len(Inspected)
      BY OrderFacts
    <3>. QED BY <1>1, <1>3, <2>1, <2>2, <2>3, <3>1 DEF Feed, TypeInv, WorkTypeOK, WorkInv, Busy, AllExited
  <2>. QED BY <1>2, <2>4, <2>6, <2>7 DEF TypeInv
<1>4. CASE WorkerExits(w)
  BY <1>1, <1>2, <1>4 DEF WorkerExits, TypeInv, ListTypeOK, WorkTypeOK, RecTypeOK, WorkInv, Busy, AllExited
<1>5. CASE Abandon(w)
  BY <1>1, <1>2, <1>5 DEF Abandon, TypeInv, ListTypeOK, WorkTypeOK, RecTypeOK, WorkInv, Busy, AllExited
<1>6. CASE Send(w)
  <2>1. Busy(w) /\ task[w] \in listed /\ task[w] \in Records /\ phase = "reading"
    <3>1. Busy(w) /\ wpc[w] \in {"kept", "dropped"}
      BY <1>6 DEF Send, HasResult, Busy
    <3>. QED BY <3>1, WorkerFacts DEF TypeInv, WorkInv
  <2>2. ListTypeOK'
    BY <1>6, <2>1 DEF Send, Deliver, TypeInv, ListTypeOK
  <2>3. WorkTypeOK'
    BY <1>1, <1>6 DEF Send, Deliver, TypeInv, WorkTypeOK
  <2>4. RecTypeOK'
    BY <1>6, <2>1 DEF Send, Deliver, TypeInv, RecTypeOK, Codes
  <2>5. WorkInv'
    BY <1>1, <1>6, <2>1 DEF Send, Deliver, TypeInv, WorkTypeOK, WorkInv, Busy, AllExited
  <2>. QED BY <1>2, <2>2, <2>3, <2>4, <2>5 DEF TypeInv
<1>7. CASE Compare(w)
  <2>1. Busy(w) /\ task[w] \in listed /\ task[w] \in Records /\ phase = "validating"
    <3>1. Busy(w) /\ wpc[w] = "compare"
      BY <1>7 DEF Compare, Busy
    <3>. QED BY <3>1, WorkerFacts DEF TypeInv, WorkInv
  <2>2. ListTypeOK'
    BY <1>7 DEF Compare, TypeInv, ListTypeOK
  <2>3. rest' \in [Workers -> SUBSET (FileSet \X (1..clock))]
    <3>1. rest[w] \in SUBSET (FileSet \X (1..clock)) /\ {} \in SUBSET (FileSet \X (1..clock))
      BY DEF TypeInv, WorkTypeOK
    <3>2. rest' = rest \/ \E r \in SUBSET (FileSet \X (1..clock)) : rest' = [rest EXCEPT ![w] = r]
      <4>1. \A s : rest[w] \ {s} \in SUBSET (FileSet \X (1..clock))
        BY <3>1
      <4>. QED BY <1>7, <3>1, <4>1 DEF Compare
    <3>. QED BY <1>2, <1>7, <3>2 DEF Compare, TypeInv, WorkTypeOK
  <2>4. task' \in [Workers -> listed \cup {0}]
    BY <1>7 DEF Compare, TypeInv, WorkTypeOK
  <2>5. WorkTypeOK'
    BY <1>1, <1>7, <2>3, <2>4 DEF Compare, TypeInv, WorkTypeOK
  <2>6. RecTypeOK'
    <3>1. ok' \in [Records -> BOOLEAN]
      BY <1>7, <2>1 DEF Compare, TypeInv, RecTypeOK
    <3>2. issues' \subseteq (Records \cup Directories) \X Codes
      <4>1. <<task[w], "mutation">> \in (Records \cup Directories) \X Codes
        BY <2>1 DEF Codes
      <4>. QED BY <1>7, <4>1 DEF Compare, TypeInv, RecTypeOK
    <3>. QED BY <1>7, <3>1, <3>2 DEF Compare, TypeInv, RecTypeOK
  <2>7. WorkInv'
    BY <1>1, <1>7, <2>1 DEF Compare, TypeInv, WorkTypeOK, WorkInv, Busy, AllExited
  <2>. QED BY <1>2, <2>2, <2>5, <2>6, <2>7 DEF TypeInv
<1>. QED BY <1>3, <1>4, <1>5, <1>6, <1>7

(***************************************************************************)
(* The steps of the call itself are well typed.                            *)
(***************************************************************************)
LEMMA ScanTyped ==
  ASSUME TypeInv, ScanStep
  PROVE  TypeInv'
<1>. USE DEF worldVars, listVars, poolVars, recVars, workVars, Return, GoOn
<1>1. ReadOrder' = ReadOrder
  BY DEF ScanStep, Start, ListRoot, StatCategory, ListCategory, StartReading, StopFeeding,
     Collect, StartValidation, Finish, ReadOrder
<1>2. WorldTypeOK'
  BY DEF ScanStep, Start, ListRoot, StatCategory, ListCategory, StartReading, StopFeeding,
     Collect, StartValidation, Finish, TypeInv, WorldTypeOK
<1>3. request \in RequestSet
  BY ScanAssumption DEF TypeInv, WorldTypeOK
<1>4. CASE Start
  <2>1. Root \in Directories /\ stamp[Root] \in 0..clock
    BY DEF Root, Directories, TypeInv, WorldTypeOK
  <2>2. WorkTypeOK' /\ RecTypeOK'
    BY <1>1, <1>4 DEF Start, TypeInv, WorkTypeOK, RecTypeOK
  <2>3. ListTypeOK'
    BY <1>4, <2>1 DEF Start, Lstat, TypeInv, ListTypeOK
  <2>4. WorkInv'
    BY <1>1, <1>3, <1>4 DEF Start, RequestSet, TypeInv, WorkInv, Busy, AllExited
  <2>. QED BY <1>2, <2>2, <2>3, <2>4 DEF TypeInv
<1>5. CASE ListRoot
  BY <1>1, <1>2, <1>5 DEF ListRoot, TypeInv, ListTypeOK, WorkTypeOK, RecTypeOK, WorkInv, Busy, AllExited
<1>6. CASE StatCategory
  <2>1. WorkTypeOK' /\ RecTypeOK'
    BY <1>1, <1>6 DEF StatCategory, TypeInv, WorkTypeOK, RecTypeOK
  <2>2. \A c \in Categories : c \in Directories /\ stamp[c] \in 0..clock
    BY DEF Directories, TypeInv, WorldTypeOK
  <2>3. ListTypeOK'
    BY <1>6, <2>2 DEF StatCategory, Lstat, TypeInv, ListTypeOK
  <2>4. WorkInv'
    BY <1>1, <1>6 DEF StatCategory, TypeInv, WorkInv, Busy, AllExited
  <2>. QED BY <1>2, <2>1, <2>3, <2>4 DEF TypeInv
<1>7. CASE ListCategory
  <2>1. listed \subseteq listed' /\ listed' \subseteq Records
    BY <1>7 DEF ListCategory, Merged, TypeInv, ListTypeOK, WorldTypeOK
  <2>2. WorkTypeOK'
    BY <1>1, <1>7, <2>1 DEF ListCategory, TypeInv, WorkTypeOK
  <2>3. RecTypeOK'
    BY <1>7 DEF ListCategory, Merged, TypeInv, RecTypeOK, WorldTypeOK, Codes
  <2>4. ListTypeOK'
    BY <1>7, <2>1 DEF ListCategory, TypeInv, ListTypeOK
  <2>5. WorkInv'
    BY <1>1, <1>7, <2>1 DEF ListCategory, TypeInv, WorkInv, Busy, AllExited
  <2>. QED BY <1>2, <2>2, <2>3, <2>4, <2>5 DEF TypeInv
<1>8. CASE StartReading
  BY <1>1, <1>2, <1>8 DEF StartReading, TypeInv, ListTypeOK, WorkTypeOK, RecTypeOK, WorkInv, Busy, AllExited
<1>9. CASE StopFeeding
  BY <1>1, <1>2, <1>9 DEF StopFeeding, TypeInv, ListTypeOK, WorkTypeOK, RecTypeOK, WorkInv, Busy, AllExited
<1>10. CASE Collect
  BY <1>1, <1>2, <1>10 DEF Collect, TypeInv, ListTypeOK, WorkTypeOK, RecTypeOK, WorkInv, Busy, AllExited
<1>11. CASE StartValidation
  <2>1. ListTypeOK' /\ RecTypeOK'
    BY <1>11 DEF StartValidation, ReadingOver, TypeInv, ListTypeOK, RecTypeOK
  <2>2. WorkTypeOK'
    BY <1>1, <1>11 DEF StartValidation, ReadingOver, TypeInv, WorkTypeOK
  <2>3. WorkInv'
    BY <1>1, <1>11 DEF StartValidation, ReadingOver, TypeInv, WorkInv, Busy, AllExited
  <2>. QED BY <1>2, <2>1, <2>2, <2>3 DEF TypeInv
<1>12. CASE Finish
  <2>1. ListTypeOK' /\ WorkTypeOK'
    BY <1>1, <1>12 DEF Finish, ValidationOver, TypeInv, ListTypeOK, WorkTypeOK
  <2>2. RecTypeOK'
    BY <1>12 DEF Finish, TypeInv, RecTypeOK, WorldTypeOK, Codes
  <2>3. WorkInv'
    BY <1>1, <1>12 DEF Finish, ValidationOver, TypeInv, WorkInv, Busy, AllExited
  <2>. QED BY <1>2, <2>1, <2>2, <2>3 DEF TypeInv
<1>. QED BY <1>4, <1>5, <1>6, <1>7, <1>8, <1>9, <1>10, <1>11, <1>12 DEF ScanStep

(***************************************************************************)
(* A change of the database is well typed.                                 *)
(***************************************************************************)
LEMMA ChangeTyped ==
  ASSUME TypeInv,
         \/ \E t \in Records : ChangeRecord(t) \/ \E f \in FileSet : ChangeFile(t, f)
         \/ \E c \in Categories : RemoveCategory(c)
  PROVE  TypeInv'
<1>1. clock' = clock + 1 /\ clock + 1 \in 1..MaxChange + 1 /\ clock \in Nat
      /\ UNCHANGED AtRest /\ 0..clock \subseteq 0..clock' /\ clock' \in 0..clock'
  BY ScanAssumption DEF ChangeRecord, ChangeFile, Changing, RemoveCategory, TypeInv, WorldTypeOK
<1>2. ListTypeOK' /\ WorkTypeOK' /\ RecTypeOK' /\ WorkInv'
  <2>1. clock' \in clock..MaxChange + 1
    BY <1>1
  <2>. QED BY <1>1, <2>1, ClockGrows DEF AtRest
<1>3. WorldTypeOK'
  <2>1. [FileSet -> 0..clock] \subseteq [FileSet -> 0..clock']
    BY <1>1
  <2>2. ASSUME NEW t \in Records, NEW files \in [FileSet -> 0..clock'], Changing(t, files)
        PROVE  file' \in [Records -> [FileSet -> 0..clock']] /\ created' \subseteq Records \X FileSet
    BY <2>1, <2>2 DEF Changing, TypeInv, WorldTypeOK
  <2>3. NoFiles \in [FileSet -> 0..clock'] /\ [f \in FileSet |-> clock + 1] \in [FileSet -> 0..clock']
    BY <1>1 DEF NoFiles
  <2>4. ASSUME NEW t \in Records, ChangeRecord(t) PROVE WorldTypeOK'
    <3>1. file' \in [Records -> [FileSet -> 0..clock']] /\ created' \subseteq Records \X FileSet
      BY <2>2, <2>3, <2>4 DEF ChangeRecord
    <3>2. stamp' \in [Directories -> 0..clock']
      BY <1>1, <2>4 DEF ChangeRecord, TypeInv, WorldTypeOK
    <3>. QED BY <1>1, <2>4, <3>1, <3>2 DEF ChangeRecord, AtRest, TypeInv, WorldTypeOK
  <2>5. ASSUME NEW t \in Records, NEW f \in FileSet, ChangeFile(t, f) PROVE WorldTypeOK'
    <3>1. [file[t] EXCEPT ![f] = clock + 1] \in [FileSet -> 0..clock']
          /\ [file[t] EXCEPT ![f] = 0] \in [FileSet -> 0..clock']
      BY <1>1, <2>1 DEF TypeInv, WorldTypeOK
    <3>2. file' \in [Records -> [FileSet -> 0..clock']] /\ created' \subseteq Records \X FileSet
      BY <2>2, <2>5, <3>1 DEF ChangeFile
    <3>3. stamp' \in [Directories -> 0..clock']
      BY <1>1, <2>5 DEF ChangeFile, TypeInv, WorldTypeOK
    <3>. QED BY <1>1, <2>5, <3>2, <3>3 DEF ChangeFile, AtRest, TypeInv, WorldTypeOK
  <2>6. ASSUME NEW c \in Categories, RemoveCategory(c) PROVE WorldTypeOK'
    <3>1. stamp' \in [Directories -> 0..clock']
      <4>1. stamp \in [Directories -> 0..clock'] /\ 0 \in 0..clock' /\ c \in Directories
        BY <1>1 DEF Directories, TypeInv, WorldTypeOK
      <4>2. stamp' = [[stamp EXCEPT ![c] = 0] EXCEPT ![Root] = clock + 1]
        BY <2>6 DEF RemoveCategory
      <4>. QED BY <1>1, <4>1, <4>2
    <3>2. file' \in [Records -> [FileSet -> 0..clock']]
      BY <2>1, <2>6 DEF RemoveCategory, TypeInv, WorldTypeOK
    <3>. QED BY <1>1, <2>6, <3>1, <3>2 DEF RemoveCategory, AtRest, TypeInv, WorldTypeOK
  <2>. QED BY <2>4, <2>5, <2>6
<1>. QED BY <1>2, <1>3 DEF TypeInv

(***************************************************************************)
(* Every step of the scan beside its environment preserves the types.      *)
(***************************************************************************)
LEMMA TypeStep == TypeInv /\ [Next]_vars => TypeInv'
<1> SUFFICES ASSUME TypeInv, [Next]_vars PROVE TypeInv'
  OBVIOUS
<1>1. ASSUME NEW w \in Workers, WorkerStep(w) PROVE TypeInv'
  BY <1>1, InspectTyped, StatTyped, ReadTyped, CheckTyped, PoolTyped DEF WorkerStep
<1>2. CASE ContextDone
  <2>. USE DEF worldVars, listVars, poolVars, recVars, workVars
  <2>1. ReadOrder' = ReadOrder
    BY <1>2 DEF ContextDone, ReadOrder
  <2>. QED BY <1>2, <2>1 DEF ContextDone, TypeInv, WorldTypeOK, ListTypeOK, WorkTypeOK, RecTypeOK,
           WorkInv, Busy, AllExited
<1>3. CASE UNCHANGED vars
  <2>. USE DEF worldVars, listVars, poolVars, recVars, workVars, vars
  <2>1. ReadOrder' = ReadOrder
    BY <1>3 DEF ReadOrder
  <2>. QED BY <1>3, <2>1 DEF TypeInv, WorldTypeOK, ListTypeOK, WorkTypeOK, RecTypeOK,
           WorkInv, Busy, AllExited
<1>. QED BY <1>1, <1>2, <1>3, ScanTyped, ChangeTyped DEF Next, Terminated

(***************************************************************************)
(* The scan's state is always of its type: no worker reads past the end of *)
(* its files, and none is on a record that was not listed.                 *)
(***************************************************************************)
THEOREM ScanTypeCorrect == Spec => []TypeOK
<1>1. TypeInv => TypeOK
  BY TypeParts DEF TypeInv
<1>. QED BY <1>1, TypeInit, TypeStep, PTL DEF Spec

-----------------------------------------------------------------------------
(* What the steps do                                                       *)

\* Record t has an issue after the step.
HasIssueNext(t) == \E i \in issues' : i[1] = t

\* Worker w has dropped its record, with an issue.
Dropped(w) ==
  /\ wpc'[w] = "dropped" /\ HasIssueNext(task[w])
  /\ value' = [value EXCEPT ![task[w]] = NoFiles]
  /\ snaps' = [snaps EXCEPT ![task[w]] = {}]

\* Worker w has gone on, and the fields of its record are as they were.
WentOn(w) ==
  /\ wpc'[w] # "dropped" /\ UNCHANGED value
  /\ \A t \in Records : snaps[t] \subseteq snaps'[t]

\* Worker w has filled in a field, and keeps the lstat of its file.
FilledIn(w) ==
  /\ wpc[w] = "check" /\ wpc'[w] # "dropped"
  /\ Here(w)[CurrentFile(w)] = stat[w]
  /\ value' = [value EXCEPT ![task[w]][CurrentFile(w)] = data[w]]
  /\ snaps' = [snaps EXCEPT ![task[w]] = @ \cup {<<CurrentFile(w), stat[w]>>}]

IsReading(w) == Inspect(w) \/ Stat(w) \/ Read(w) \/ Check(w)

(***************************************************************************)
(* The reading of a record is a matter of its worker and of the record:    *)
(* nothing else changes.                                                   *)
(***************************************************************************)
LEMMA ReadingFrame ==
  ASSUME TypeInv, NEW w \in Workers, IsReading(w)
  PROVE  /\ UNCHANGED <<worldVars, boundary, done, phase, listVars, poolVars, task, rest, ok, result>>
         /\ phase = "reading" /\ wpc[w] \in {"inspect", "stat", "read", "check"}
         /\ wpc'[w] \in {"inspect", "stat", "read", "check", "kept", "dropped"}
         /\ \A v \in Workers \ {w} :
              wpc'[v] = wpc[v] /\ step'[v] = step[v] /\ stat'[v] = stat[v] /\ data'[v] = data[v]
         /\ issues \subseteq issues' /\ \A i \in issues' \ issues : i[1] = task[w]
         /\ \A t \in Records : t # task[w] => value'[t] = value[t] /\ snaps'[t] = snaps[t]
<1>. USE DEF recVars
<1>1. wpc[w] \in {"inspect", "stat", "read", "check"}
  BY DEF IsReading, Inspect, Stat, Read, Check
<1>2. task[w] \in Records /\ phase = "reading"
  BY <1>1, WorkerFacts DEF Busy, TypeInv, WorkInv
<1>3. UNCHANGED <<worldVars, boundary, done, phase, listVars, poolVars, task, rest, ok, result>>
  BY DEF IsReading, Inspect, Stat, Read, Check, Drop, Unusable
<1>4. issues \subseteq issues' /\ \A i \in issues' \ issues : i[1] = task[w]
  BY DEF IsReading, Inspect, Stat, Read, Check, Drop, Unusable
<1>5. \A t \in Records : t # task[w] => value'[t] = value[t] /\ snaps'[t] = snaps[t]
  BY <1>2 DEF IsReading, Inspect, Stat, Read, Check, Drop, Unusable, Keep, TypeInv, RecTypeOK
<1>6. /\ wpc'[w] \in {"inspect", "stat", "read", "check", "kept", "dropped"}
      /\ \A v \in Workers \ {w} : wpc'[v] = wpc[v] /\ step'[v] = step[v]
  BY <1>1 DEF IsReading, Inspect, Stat, Read, Check, Drop, Unusable, Advance, TypeInv, WorkTypeOK
<1>7. \A v \in Workers \ {w} : stat'[v] = stat[v] /\ data'[v] = data[v]
  BY DEF IsReading, Inspect, Stat, Read, Check, TypeInv, WorkTypeOK
<1>. QED BY <1>1, <1>2, <1>3, <1>4, <1>5, <1>6, <1>7

(***************************************************************************)
(* Of a record that is read, a step drops all, keeps all, or fills in one  *)
(* field.                                                                  *)
(***************************************************************************)
LEMMA ReadingOutcome ==
  ASSUME TypeInv, NEW w \in Workers, IsReading(w)
  PROVE  Dropped(w) \/ WentOn(w) \/ FilledIn(w)
<1>. USE DEF recVars
<1>1. wpc[w] \in {"inspect", "stat", "read", "check"}
  BY DEF IsReading, Inspect, Stat, Read, Check
<1>2. task' = task
  BY DEF IsReading, Inspect, Stat, Read, Check
<1>3. ASSUME NEW code, Drop(w, code) PROVE Dropped(w)
  <2>1. wpc'[w] = "dropped"
    BY <1>3 DEF Drop, TypeInv, WorkTypeOK
  <2>2. <<task[w], code>> \in issues' /\ <<task[w], code>>[1] = task[w]
    BY <1>3 DEF Drop
  <2>. QED BY <1>2, <1>3, <2>1, <2>2 DEF Drop, Dropped, HasIssueNext
<1>4. ASSUME Advance(w), UNCHANGED <<value, snaps>> PROVE WentOn(w)
  BY <1>4 DEF Advance, WentOn, TypeInv, WorkTypeOK
<1>5. ASSUME NEW code, Unusable(w, code) PROVE Dropped(w) \/ WentOn(w)
  BY <1>3, <1>4, <1>5 DEF Unusable
<1>6. ASSUME NEW f, NEW v, Keep(w, f, v) PROVE \A t \in Records : snaps[t] \subseteq snaps'[t]
  BY <1>6 DEF Keep, TypeInv, RecTypeOK
<1>7. CASE Inspect(w)
  <2>1. CASE \E code : Drop(w, code)
    BY <1>3, <2>1
  <2>2. CASE /\ Keep(w, InspectedFile(w), Here(w)[InspectedFile(w)])
             /\ wpc' = [wpc EXCEPT ![w] = IF step[w] = Len(Inspected) THEN "stat" ELSE @]
             /\ UNCHANGED value
    BY <1>6, <1>7, <2>2 DEF Inspect, WentOn, TypeInv, WorkTypeOK
  <2>. QED BY <1>7, <2>1, <2>2 DEF Inspect
<1>8. CASE Stat(w)
  <2>1. CASE wpc' = [wpc EXCEPT ![w] = "read"] /\ UNCHANGED recVars
    BY <2>1 DEF WentOn, TypeInv, WorkTypeOK
  <2>. QED BY <1>3, <1>4, <1>5, <1>8, <2>1 DEF Stat
<1>9. CASE Read(w)
  <2>1. CASE wpc' = [wpc EXCEPT ![w] = "check"] /\ UNCHANGED recVars
    BY <2>1 DEF WentOn, TypeInv, WorkTypeOK
  <2>. QED BY <1>5, <1>9, <2>1 DEF Read
<1>10. CASE Check(w)
  <2>1. CASE /\ Here(w)[CurrentFile(w)] = stat[w]
             /\ value' = [value EXCEPT ![task[w]][CurrentFile(w)] = data[w]]
             /\ Keep(w, CurrentFile(w), stat[w])
             /\ Advance(w)
    BY <1>10, <2>1 DEF Check, Keep, Advance, FilledIn, TypeInv, WorkTypeOK
  <2>. QED BY <1>3, <1>5, <1>10, <2>1 DEF Check
<1>. QED BY <1>7, <1>8, <1>9, <1>10 DEF IsReading

\* A change of the database, or of the context, beside the scan.
Outside ==
  \/ ContextDone
  \/ \E t \in Records : ChangeRecord(t) \/ \E f \in FileSet : ChangeFile(t, f)
  \/ \E c \in Categories : RemoveCategory(c)

(***************************************************************************)
(* What happens outside leaves the scan alone, and a file or a directory   *)
(* that it changes gets a version it never had, or none.                   *)
(***************************************************************************)
LEMMA OutsideFrame ==
  ASSUME TypeInv, Outside
  PROVE  /\ UNCHANGED <<defect, request, boundary, phase, listVars, poolVars, wpc, workVars, recVars, result>>
         /\ done => done'
         /\ created \subseteq created'
         /\ \A t \in Records, f \in FileSet :
              \/ file'[t][f] = file[t][f]
              \/ file'[t][f] = 0
              \/ file'[t][f] > clock /\ (file[t][f] = 0 => <<t, f>> \in created')
         /\ \A d \in Directories : stamp'[d] = stamp[d] \/ stamp'[d] = 0 \/ stamp'[d] > clock
<1>1. CASE ContextDone
  BY <1>1 DEF ContextDone, worldVars
<1>2. ASSUME NEW t \in Records, NEW files, Changing(t, files),
             \A f \in FileSet : files[f] = file[t][f] \/ files[f] = 0 \/ files[f] = clock + 1
      PROVE  /\ created \subseteq created' /\ UNCHANGED AtRest
             /\ \A u \in Records, f \in FileSet :
                  \/ file'[u][f] = file[u][f]
                  \/ file'[u][f] = 0
                  \/ file'[u][f] > clock /\ (file[u][f] = 0 => <<u, f>> \in created')
  <2>1. file' = [file EXCEPT ![t] = files] /\ file \in [Records -> [FileSet -> 0..clock]] /\ clock \in Nat
    BY <1>2 DEF Changing, TypeInv, WorldTypeOK
  <2>2. ASSUME NEW f \in FileSet, files[f] = clock + 1, file[t][f] = 0 PROVE <<t, f>> \in created'
    BY <1>2, <2>1, <2>2 DEF Changing
  <2>3. clock + 1 > clock
    BY <2>1
  <2>. QED BY <1>2, <2>1, <2>2, <2>3 DEF Changing
<1>3. ASSUME NEW t \in Records, ChangeRecord(t)
      PROVE  /\ \E files : Changing(t, files) /\ (\A f \in FileSet :
                  files[f] = file[t][f] \/ files[f] = 0 \/ files[f] = clock + 1)
             /\ \A d \in Directories : stamp'[d] = stamp[d] \/ stamp'[d] = 0 \/ stamp'[d] > clock
  <2>1. clock \in Nat /\ clock + 1 > clock
    BY DEF TypeInv, WorldTypeOK
  <2>. QED BY <1>3, <2>1 DEF ChangeRecord, NoFiles
<1>4. ASSUME NEW t \in Records, NEW f \in FileSet, ChangeFile(t, f)
      PROVE  /\ \E files : Changing(t, files) /\ \A g \in FileSet :
                files[g] = file[t][g] \/ files[g] = 0 \/ files[g] = clock + 1
             /\ UNCHANGED stamp
  <2>1. file[t] \in [FileSet -> 0..clock]
    BY DEF TypeInv, WorldTypeOK
  <2>. QED BY <1>4, <2>1 DEF ChangeFile
<1>5. ASSUME NEW c \in Categories, RemoveCategory(c)
      PROVE  /\ UNCHANGED <<file, created, AtRest>>
             /\ \A d \in Directories : stamp'[d] = stamp[d] \/ stamp'[d] = 0 \/ stamp'[d] > clock
  <2>1. clock \in Nat /\ clock + 1 > clock /\ stamp \in [Directories -> 0..clock]
    BY DEF TypeInv, WorldTypeOK
  <2>2. stamp' = [[stamp EXCEPT ![c] = 0] EXCEPT ![Root] = clock + 1]
    BY <1>5 DEF RemoveCategory
  <2>. QED BY <1>5, <2>1, <2>2 DEF RemoveCategory
<1>. QED BY <1>1, <1>2, <1>3, <1>4, <1>5 DEF Outside, AtRest

-----------------------------------------------------------------------------
(* Nothing is lost                                                         *)

\* While the context is not done, a listed record is with the feeder, with a
\* worker, in the channel of results or collected.
AllInHand ==
  phase = "reading" /\ ~done =>
    \A t \in listed : \/ t \in toFeed \cup completed \cup collected
                      \/ \E w \in Workers : Busy(w) /\ task[w] = t

\* Workers end after the feeder, and the feeder after the last record.
WorkersStay == phase = "reading" /\ feeding /\ ~done => \A w \in Active : wpc[w] # "exited"
AllIsFed == phase \in {"reading", "validating"} /\ ~feeding /\ ~done => toFeed = {}

AllCollected == phase = "validating" \/ Answered => listed \subseteq collected

\* A record that is not kept has an issue.
DroppedHasIssue == \A w \in Workers : wpc[w] = "dropped" => HasIssue(task[w])
KeptOrIssue == \A t \in completed \cup collected : ok[t] \/ HasIssue(t)

LossInv ==
  AllInHand /\ WorkersStay /\ AllIsFed /\ AllCollected /\ DroppedHasIssue /\ KeptOrIssue

(***************************************************************************)
(* There is a worker when there is a record to read, and not more workers  *)
(* than records: installedWorkerCount.                                     *)
(***************************************************************************)
LEMMA ActiveFacts ==
  ASSUME TypeInv, phase = "listing" \/ phase = "reading"
  PROVE  Active \subseteq Workers /\ (listed # {} => 1 \in Active)
<1>1. IsFiniteSet(Records) /\ listed \in SUBSET Records
  BY ScanAssumption DEF TypeInv, ListTypeOK
<1>2. /\ Cardinality(listed) \in Nat /\ Cardinality(Records) \in Nat
      /\ Cardinality(listed) <= Cardinality(Records)
      /\ listed # {} => Cardinality(listed) # 0
  BY <1>1, FS_CardinalityType, FS_Subset, FS_EmptySet
<1>3. request.workers \in Int /\ request.workers >= 0
  BY ScanAssumption DEF TypeInv, WorldTypeOK, WorkInv, RequestSet
<1>4. ASSUME NEW n \in Nat
      PROVE  WorkerCount(n) \in 0..n /\ (n # 0 => WorkerCount(n) >= 1)
  BY <1>3, ScanAssumption DEF WorkerCount
<1>. QED BY <1>2, <1>4 DEF Active, Workers

(***************************************************************************)
(* The reading of a record loses none.                                     *)
(***************************************************************************)
LEMMA ReadingLoss ==
  ASSUME TypeInv, LossInv, NEW w \in Workers, IsReading(w)
  PROVE  LossInv'
<1>1. Active' = Active
  BY ReadingFrame DEF Active, WorkerCount, listVars, worldVars
<1>2. \A v \in Workers : Busy(v) <=> Busy(v)'
  BY ReadingFrame DEF Busy
<1>3. \A t : HasIssue(t) => HasIssue(t)'
  BY ReadingFrame DEF HasIssue
<1>4. AllInHand' /\ AllIsFed' /\ AllCollected' /\ KeptOrIssue'
  BY <1>2, <1>3, ReadingFrame
  DEF LossInv, AllInHand, AllIsFed, AllCollected, KeptOrIssue, Answered, poolVars, listVars
<1>5. WorkersStay'
  BY <1>1, ActiveFacts, ReadingFrame DEF LossInv, WorkersStay, poolVars
<1>6. DroppedHasIssue'
  <2>1. wpc'[w] = "dropped" => HasIssueNext(task[w])
    BY ReadingOutcome DEF Dropped, WentOn, FilledIn
  <2>2. task' = task /\ \A v \in Workers \ {w} : wpc'[v] = wpc[v]
    BY ReadingFrame
  <2>. QED BY <1>3, <2>1, <2>2 DEF LossInv, DroppedHasIssue, HasIssue, HasIssueNext
<1>. QED BY <1>4, <1>5, <1>6 DEF LossInv

(***************************************************************************)
(* The handing out of records and results loses none.                      *)
(***************************************************************************)
LEMMA PoolLoss ==
  ASSUME TypeInv, LossInv, NEW w \in Workers,
         Feed(w) \/ WorkerExits(w) \/ Send(w) \/ Abandon(w) \/ Compare(w)
  PROVE  LossInv'
<1>. USE DEF worldVars, listVars, poolVars, recVars, workVars
<1>1. Active' = Active
  BY DEF Feed, WorkerExits, Send, Deliver, Abandon, Compare, Active, WorkerCount
<1>2. issues \subseteq issues'
  BY DEF Feed, WorkerExits, Send, Deliver, Abandon, Compare
<1>3. \A t : HasIssue(t) => HasIssue(t)'
  BY <1>2 DEF HasIssue
<1>4. CASE Feed(w)
  <2>1. PICK t \in toFeed : toFeed' = toFeed \ {t} /\ task' = [task EXCEPT ![w] = t]
    BY <1>4 DEF Feed
  <2>2. wpc[w] = "idle" /\ wpc' = [wpc EXCEPT ![w] = IF phase = "reading" THEN "inspect" ELSE "compare"]
        /\ UNCHANGED <<listVars, phase, feeding, done, completed, collected, recVars, result>>
    BY <1>4 DEF Feed
  <2>3. task'[w] = t /\ Busy(w)' /\ ~Busy(w)
        /\ \A v \in Workers \ {w} : task'[v] = task[v] /\ wpc'[v] = wpc[v] /\ (Busy(v) <=> Busy(v)')
    BY <2>1, <2>2 DEF TypeInv, WorkTypeOK, Busy
  <2>4. AllInHand'
    BY <2>1, <2>2, <2>3 DEF LossInv, AllInHand
  <2>5. WorkersStay' /\ AllIsFed' /\ AllCollected' /\ KeptOrIssue'
    BY <1>1, <1>3, <1>4, <2>1, <2>2, <2>3
    DEF Feed, LossInv, WorkersStay, AllIsFed, AllCollected, Answered, KeptOrIssue, TypeInv, WorkTypeOK
  <2>6. DroppedHasIssue'
    <3>1. wpc'[w] # "dropped"
      BY <2>2 DEF TypeInv, WorkTypeOK
    <3>. QED BY <2>2, <2>3, <3>1 DEF LossInv, DroppedHasIssue, HasIssue
  <2>. QED BY <2>4, <2>5, <2>6 DEF LossInv
<1>5. CASE WorkerExits(w)
  <2>1. wpc[w] = "idle" /\ wpc' = [wpc EXCEPT ![w] = "exited"] /\ ~feeding
    BY <1>5 DEF WorkerExits
  <2>2. \A v \in Workers : (Busy(v) <=> Busy(v)') /\ (wpc'[v] = "dropped" => wpc[v] = "dropped")
    BY <2>1 DEF Busy, TypeInv, WorkTypeOK
  <2>. QED BY <1>5, <2>1, <2>2
       DEF WorkerExits, LossInv, AllInHand, WorkersStay, AllIsFed, AllCollected, Answered, KeptOrIssue,
           DroppedHasIssue, HasIssue
<1>6. CASE Abandon(w)
  <2>1. wpc' = [wpc EXCEPT ![w] = "exited"] /\ done /\ done'
    BY <1>6 DEF Abandon
  <2>2. \A v \in Workers : wpc'[v] = "dropped" => wpc[v] = "dropped"
    BY <2>1 DEF TypeInv, WorkTypeOK
  <2>. QED BY <1>6, <2>1, <2>2
       DEF Abandon, LossInv, AllInHand, WorkersStay, AllIsFed, AllCollected, Answered, KeptOrIssue,
           DroppedHasIssue, HasIssue
<1>7. CASE Send(w)
  <2>1. /\ wpc[w] \in {"kept", "dropped"} /\ completed' = completed \cup {task[w]}
        /\ wpc' = [wpc EXCEPT ![w] = "idle"] /\ task' = [task EXCEPT ![w] = 0]
        /\ ok' = [ok EXCEPT ![task[w]] = wpc[w] = "kept"]
        /\ UNCHANGED <<listVars, phase, feeding, done, toFeed, collected, result>>
    BY <1>7 DEF Send, Deliver, HasResult
  <2>2. task[w] \in Records
    BY <2>1, WorkerFacts DEF Busy
  <2>3. \A v \in Workers \ {w} : task'[v] = task[v] /\ wpc'[v] = wpc[v] /\ (Busy(v) <=> Busy(v)')
    BY <2>1 DEF TypeInv, WorkTypeOK, Busy
  <2>4. wpc'[w] = "idle"
    BY <2>1 DEF TypeInv, WorkTypeOK
  <2>5. AllInHand'
    BY <2>1, <2>3 DEF LossInv, AllInHand
  <2>6. WorkersStay' /\ AllIsFed' /\ AllCollected'
    BY <1>1, <2>1, <2>3, <2>4 DEF LossInv, WorkersStay, AllIsFed, AllCollected, Answered
  <2>7. KeptOrIssue'
    <3>1. ok'[task[w]] = (wpc[w] = "kept") /\ \A t \in Records : t # task[w] => ok'[t] = ok[t]
      BY <2>1, <2>2 DEF TypeInv, RecTypeOK
    <3>2. wpc[w] = "dropped" => HasIssueNext(task[w])
      BY <1>2 DEF LossInv, DroppedHasIssue, HasIssue, HasIssueNext
    <3>3. completed \cup collected \subseteq Records
      BY DEF TypeInv, ListTypeOK
    <3>4. \A t \in Records : HasIssueNext(t) <=> HasIssue(t)'
      BY DEF HasIssue, HasIssueNext
    <3>5. ok'[task[w]] \/ HasIssueNext(task[w])
      BY <2>1, <3>1, <3>2
    <3>6. ASSUME NEW t \in completed \cup collected \cup {task[w]} PROVE ok'[t] \/ HasIssueNext(t)
      <4>1. CASE t = task[w]
        BY <3>5, <4>1
      <4>2. CASE t # task[w]
        <5>1. t \in completed \cup collected /\ ok'[t] = ok[t] /\ t \in Records
          BY <3>1, <3>3, <4>2
        <5>. QED BY <1>2, <5>1 DEF LossInv, KeptOrIssue, HasIssue, HasIssueNext
      <4>. QED BY <4>1, <4>2
    <3>. QED BY <2>1, <3>6 DEF KeptOrIssue, HasIssue, HasIssueNext
  <2>8. DroppedHasIssue'
    BY <1>3, <2>3, <2>4 DEF LossInv, DroppedHasIssue, HasIssue
  <2>. QED BY <2>5, <2>6, <2>7, <2>8 DEF LossInv
<1>8. CASE Compare(w)
  <2>1. phase = "validating" /\ task[w] \in Records
    <3>1. wpc[w] = "compare"
      BY <1>8 DEF Compare
    <3>. QED BY <3>1, WorkerFacts DEF Busy, TypeInv, WorkInv
  <2>2. \A v \in Workers : wpc'[v] # "dropped"
    BY <1>8, <2>1 DEF Compare, TypeInv, WorkInv, WorkTypeOK
  <2>3. AllInHand' /\ WorkersStay' /\ AllIsFed' /\ AllCollected' /\ DroppedHasIssue'
    BY <1>8, <2>1, <2>2
    DEF Compare, LossInv, AllInHand, WorkersStay, AllIsFed, AllCollected, Answered, DroppedHasIssue
  <2>4. \/ ok' = ok
        \/ ok' = [ok EXCEPT ![task[w]] = FALSE] /\ <<task[w], "mutation">> \in issues'
    BY <1>8 DEF Compare
  <2>5. KeptOrIssue'
    <3>1. \A t \in Records : ok'[t] = ok[t] \/ (t = task[w] /\ <<task[w], "mutation">> \in issues')
      BY <2>1, <2>4 DEF TypeInv, RecTypeOK
    <3>2. completed \cup collected \subseteq Records
      BY DEF TypeInv, ListTypeOK
    <3>3. UNCHANGED <<completed, collected>>
      BY <1>8 DEF Compare
    <3>4. \A t \in Records : <<t, "mutation">> \in issues' => HasIssue(t)'
      BY DEF HasIssue
    <3>. QED BY <1>3, <2>1, <3>1, <3>2, <3>3, <3>4 DEF LossInv, KeptOrIssue
  <2>. QED BY <2>3, <2>5 DEF LossInv
<1>. QED BY <1>4, <1>5, <1>6, <1>7, <1>8

(***************************************************************************)
(* The steps of the call lose none: it goes on to the validation with all  *)
(* the records, or returns canceled.                                       *)
(***************************************************************************)
LEMMA ScanLoss ==
  ASSUME TypeInv, LossInv, ScanStep
  PROVE  LossInv'
<1>. USE DEF worldVars, listVars, poolVars, recVars, workVars, Return, GoOn
<1>1. CASE Start \/ ListRoot \/ StatCategory \/ ListCategory
  <2>1. phase \in {"start", "root", "listing", "category"}
        /\ phase' \in {"root", "listing", "category", "returned"} /\ ~Answered'
    BY <1>1 DEF Start, ListRoot, StatCategory, ListCategory, Answered, TypeInv, WorkInv
  <2>2. AllExited /\ UNCHANGED wpc /\ completed' = {} /\ collected' = {}
    BY <1>1, <2>1 DEF Start, ListRoot, StatCategory, ListCategory, TypeInv, WorkInv
  <2>. QED BY <2>1, <2>2 DEF AllExited, LossInv, AllInHand, WorkersStay, AllIsFed, AllCollected,
       DroppedHasIssue, KeptOrIssue
<1>2. CASE StartReading
  <2>1. Active' = Active /\ Active \subseteq Workers
    BY <1>2, ActiveFacts DEF StartReading, Active, WorkerCount
  <2>2. /\ phase = "listing" /\ phase' = "reading" /\ toFeed' = listed /\ feeding' = TRUE
        /\ wpc' = [w \in Workers |-> IF w \in Active THEN "idle" ELSE "exited"]
        /\ completed' = {} /\ collected' = {} /\ ~Answered'
    BY <1>2 DEF StartReading, Answered, TypeInv, WorkInv
  <2>. QED BY <1>2, <2>1, <2>2
       DEF StartReading, LossInv, AllInHand, WorkersStay, AllIsFed, AllCollected, DroppedHasIssue, KeptOrIssue
<1>3. CASE StopFeeding
  <2>1. Active' = Active
    BY <1>3 DEF StopFeeding, Active, WorkerCount
  <2>. QED BY <1>3, <2>1
       DEF StopFeeding, LossInv, AllInHand, WorkersStay, AllIsFed, AllCollected, Answered,
           DroppedHasIssue, KeptOrIssue, HasIssue, Busy
<1>4. CASE Collect
  <2>1. Active' = Active
    BY <1>4 DEF Collect, Active, WorkerCount
  <2>. QED BY <1>4, <2>1
       DEF Collect, LossInv, AllInHand, WorkersStay, AllIsFed, AllCollected, Answered,
           DroppedHasIssue, KeptOrIssue, HasIssue, Busy
<1>5. CASE StartValidation
  <2>1. phase = "reading" /\ AllExited /\ completed = {} /\ UNCHANGED <<listed, completed, collected, done, recVars>>
        /\ Active' = Active
    BY <1>5 DEF StartValidation, ReadingOver, Active, WorkerCount
  <2>2. DroppedHasIssue' /\ KeptOrIssue'
    BY <1>5, <2>1 DEF StartValidation, AllExited, LossInv, DroppedHasIssue, KeptOrIssue, HasIssue
  <2>3. CASE done /\ listed # {}
    BY <1>5, <2>2, <2>3
    DEF StartValidation, Answered, LossInv, AllInHand, WorkersStay, AllIsFed, AllCollected
  <2>4. CASE ~(done /\ listed # {})
    <3>1. listed \subseteq collected
      <4>1. CASE listed = {}
        BY <4>1
      <4>2. CASE ~done /\ ~feeding
        BY <2>1, <4>2 DEF LossInv, AllInHand, AllIsFed, AllExited, Busy
      <4>3. CASE ~done /\ feeding /\ listed # {}
        BY <2>1, <4>3, ActiveFacts DEF LossInv, WorkersStay, AllExited
      <4>. QED BY <2>4, <4>1, <4>2, <4>3 DEF TypeInv, ListTypeOK
    <3>. QED BY <1>5, <2>1, <2>2, <2>4, <3>1
         DEF StartValidation, LossInv, AllInHand, WorkersStay, AllIsFed, AllCollected
  <2>. QED BY <2>3, <2>4
<1>6. CASE Finish
  <2>1. phase = "validating" /\ phase' = "returned" /\ listed \subseteq collected
        /\ UNCHANGED <<listed, completed, collected, wpc, task, ok>> /\ issues \subseteq issues'
    BY <1>6 DEF Finish, ValidationOver, LossInv, AllCollected
  <2>. QED BY <1>6, <2>1
       DEF LossInv, AllInHand, WorkersStay, AllIsFed, AllCollected, DroppedHasIssue, KeptOrIssue, HasIssue
<1>. QED BY <1>1, <1>2, <1>3, <1>4, <1>5, <1>6 DEF ScanStep

(***************************************************************************)
(* Every step of the scan beside its environment loses no record.          *)
(***************************************************************************)
LEMMA LossStep == TypeInv /\ LossInv /\ [Next]_vars => LossInv'
<1> SUFFICES ASSUME TypeInv, LossInv, [Next]_vars PROVE LossInv'
  OBVIOUS
<1>1. ASSUME NEW w \in Workers, WorkerStep(w) PROVE LossInv'
  BY <1>1, ReadingLoss, PoolLoss DEF WorkerStep, IsReading
<1>2. CASE Outside \/ UNCHANGED vars
  <2>1. /\ UNCHANGED <<request, phase, listVars, poolVars, wpc, task, ok, issues, result>>
        /\ done => done'
    BY <1>2, OutsideFrame DEF vars, worldVars, workVars, recVars
  <2>2. Active' = Active
    BY <2>1 DEF Active, WorkerCount, listVars
  <2>. QED BY <2>1, <2>2
       DEF listVars, poolVars, LossInv, AllInHand, WorkersStay, AllIsFed, AllCollected, Answered,
           DroppedHasIssue, KeptOrIssue, HasIssue, Busy
<1>. QED BY <1>1, <1>2, ScanLoss DEF Next, Terminated, Outside

(***************************************************************************)
(* The initial states have nothing to lose.                                *)
(***************************************************************************)
LEMMA LossInit == Init => LossInv
BY DEF Init, LossInv, AllInHand, WorkersStay, AllIsFed, AllCollected, Answered, DroppedHasIssue, KeptOrIssue

(***************************************************************************)
(* An answer speaks of every record that was listed: it is in the          *)
(* inventory, or it was read and has an issue, whatever the number of      *)
(* workers and however their results come in.                              *)
(***************************************************************************)
THEOREM NothingLostAlways == Spec => []NothingLost
<1>1. TypeInv /\ LossInv => NothingLost
  BY DEF LossInv, AllCollected, KeptOrIssue, NothingLost, Packages, Answered
<1>2. Init => TypeInv /\ LossInv
  BY TypeInit, LossInit
<1>3. TypeInv /\ LossInv /\ [Next]_vars => (TypeInv /\ LossInv)'
  BY TypeStep, LossStep
<1>. QED BY <1>1, <1>2, <1>3, PTL DEF Spec

-----------------------------------------------------------------------------
(* The files are a cut                                                     *)

\* The lstat s of a file of record t is what the file was when the reading ended.
AtBoundary(t, s) == boundary.file[t][s[1]] = s[2]

\* What was read between two equal lstats is of their version.
ReadIsStat ==
  \A w \in Workers : wpc[w] = "check" /\ Here(w)[CurrentFile(w)] = stat[w] => data[w] = stat[w]

\* Every field that is filled in has its lstat kept.
ValueIsKept ==
  \A t \in Records, f \in FileSet : value[t][f] # 0 => <<f, value[t][f]>> \in snaps[t]

\* A file that still is what it was when it was read was so at the boundary:
\* no file gets a version again.
SameIsUnchanged ==
  phase = "validating" =>
    \A t \in Records : \A s \in snaps[t] : file[t][s[1]] = s[2] => AtBoundary(t, s)

RestIsKept == \A w \in Workers : wpc[w] = "compare" => rest[w] \subseteq snaps[task[w]]

\* The second pool: a kept lstat was right at the boundary, or is still to be repeated.
RightOrPending ==
  phase = "validating" =>
    \A t \in collected : ok[t] =>
      \A s \in snaps[t] :
        \/ AtBoundary(t, s) \/ t \in toFeed
        \/ \E w \in Workers : wpc[w] = "compare" /\ task[w] = t /\ s \in rest[w]

AnsweredIsRight ==
  Answered => \A t \in collected : ok[t] => \A s \in snaps[t] : AtBoundary(t, s)

FilesInv ==
  ReadIsStat /\ ValueIsKept /\ SameIsUnchanged /\ RestIsKept /\ RightOrPending /\ AnsweredIsRight

(***************************************************************************)
(* A kept lstat is of a file of the record and of a version it had.        *)
(***************************************************************************)
LEMMA SnapFacts ==
  ASSUME TypeInv, NEW t \in Records, NEW s \in snaps[t]
  PROVE  s[1] \in FileSet /\ s[2] \in 1..clock /\ s[2] # 0 /\ s[2] <= clock
         /\ file[t][s[1]] \in 0..clock /\ clock \in Nat
<1>1. s \in FileSet \X (1..clock) /\ clock \in Nat
  BY DEF TypeInv, RecTypeOK, WorldTypeOK
<1>2. s[1] \in FileSet /\ s[2] \in 1..clock
  BY <1>1
<1>. QED BY <1>1, <1>2 DEF TypeInv, WorldTypeOK

(***************************************************************************)
(* The reading of a record keeps the lstat of each field it fills in.      *)
(***************************************************************************)
LEMMA ReadingFiles ==
  ASSUME TypeInv, FilesInv, NEW w \in Workers, IsReading(w)
  PROVE  FilesInv'
<1>1. phase' = "reading" /\ phase = "reading" /\ ~Answered'
  BY ReadingFrame DEF TypeInv, WorkInv, Answered
<1>2. ReadIsStat'
  <2>1. ASSUME NEW v \in Workers, v # w PROVE (wpc[v] = "check" /\ Here(v)[CurrentFile(v)] = stat[v] => data[v] = stat[v])'
    <3>1. wpc'[v] = wpc[v] /\ step'[v] = step[v] /\ stat'[v] = stat[v] /\ data'[v] = data[v]
          /\ UNCHANGED <<file, task, request>>
      BY <2>1, ReadingFrame DEF worldVars
    <3>. QED BY <3>1 DEF FilesInv, ReadIsStat, Here, CurrentFile, ReadOrder
  <2>2. ASSUME wpc'[w] = "check" PROVE (Here(w)[CurrentFile(w)] = stat[w] => data[w] = stat[w])'
    <3>1. Read(w) /\ UNCHANGED <<step, stat, file, task, request>>
          /\ data' = [data EXCEPT ![w] = Here(w)[CurrentFile(w)]]
      BY <2>2, ReadingFrame
      DEF IsReading, Inspect, Stat, Read, Check, Drop, Unusable, Advance, TypeInv, WorkTypeOK, worldVars
    <3>2. Here(w)' = Here(w) /\ CurrentFile(w)' = CurrentFile(w)
      BY <3>1 DEF Here, CurrentFile, ReadOrder
    <3>3. data'[w] = Here(w)[CurrentFile(w)]
      BY <3>1 DEF TypeInv, WorkTypeOK
    <3>. QED BY <3>1, <3>2, <3>3
  <2>. QED BY <2>1, <2>2 DEF ReadIsStat
<1>3. ValueIsKept'
  <2>1. task[w] \in Records
    BY ReadingFrame, WorkerFacts DEF Busy
  <2>2. CASE Dropped(w)
    BY <2>1, <2>2, ReadingFrame DEF Dropped, NoFiles, FilesInv, ValueIsKept, TypeInv, RecTypeOK
  <2>3. CASE WentOn(w)
    BY <2>3 DEF WentOn, FilesInv, ValueIsKept
  <2>4. CASE FilledIn(w)
    <3>1. CurrentFile(w) \in FileSet /\ data[w] = stat[w]
      BY <2>4, WorkerFacts DEF FilledIn, Busy, FilesInv, ReadIsStat
    <3>2. ASSUME NEW t \in Records, NEW f \in FileSet, value'[t][f] # 0
          PROVE  <<f, value'[t][f]>> \in snaps'[t]
      <4>1. CASE t = task[w] /\ f = CurrentFile(w)
        BY <2>1, <2>4, <3>1, <4>1 DEF FilledIn, TypeInv, RecTypeOK
      <4>2. CASE ~(t = task[w] /\ f = CurrentFile(w))
        <5>1. value'[t][f] = value[t][f] /\ snaps[t] \subseteq snaps'[t]
          BY <2>1, <2>4, <3>1, <4>2 DEF FilledIn, TypeInv, RecTypeOK
        <5>. QED BY <3>2, <5>1 DEF FilesInv, ValueIsKept
      <4>. QED BY <4>1, <4>2
    <3>. QED BY <3>2 DEF ValueIsKept
  <2>. QED BY <2>2, <2>3, <2>4, ReadingOutcome
<1>4. RestIsKept'
  BY <1>1, ReadingFrame DEF RestIsKept, TypeInv, WorkInv
<1>. QED BY <1>1, <1>2, <1>3, <1>4
     DEF FilesInv, SameIsUnchanged, RightOrPending, AnsweredIsRight

(***************************************************************************)
(* A lstat that is repeated and found the same was right at the boundary.  *)
(***************************************************************************)
LEMMA CompareFiles ==
  ASSUME TypeInv, FilesInv, NEW w \in Workers, Compare(w)
  PROVE  FilesInv'
<1>. USE DEF worldVars, listVars, poolVars
<1>1. wpc[w] = "compare" /\ phase = "validating" /\ task[w] \in Records /\ rest[w] \subseteq snaps[task[w]]
  <2>1. wpc[w] = "compare"
    BY DEF Compare
  <2>. QED BY <2>1, WorkerFacts DEF Busy, TypeInv, WorkInv, FilesInv, RestIsKept
<1>2. UNCHANGED <<file, request, boundary, phase, collected, toFeed, step, stat, data, value, snaps, result>>
  BY DEF Compare
<1>3. \A v \in Workers \ {w} : wpc'[v] = wpc[v] /\ task'[v] = task[v] /\ rest'[v] = rest[v]
  BY DEF Compare, TypeInv, WorkTypeOK
<1>4. ReadIsStat'
  BY <1>1, <1>2, TypeStep DEF ReadIsStat, TypeInv, WorkInv, Next, WorkerStep
<1>5. RestIsKept' /\ RightOrPending'
  <2>1. CASE /\ rest[w] = {} /\ wpc' = [wpc EXCEPT ![w] = "idle"] /\ task' = [task EXCEPT ![w] = 0]
             /\ UNCHANGED <<rest, ok>>
    <3>1. wpc'[w] = "idle"
      BY <2>1 DEF TypeInv, WorkTypeOK
    <3>. QED BY <1>2, <1>3, <2>1, <3>1 DEF FilesInv, RestIsKept, RightOrPending, AtBoundary
  <2>2. ASSUME NEW s \in rest[w], Here(w)[s[1]] = s[2], rest' = [rest EXCEPT ![w] = @ \ {s}],
               UNCHANGED <<task, wpc, ok>>
        PROVE  RestIsKept' /\ RightOrPending'
    <3>1. rest'[w] = rest[w] \ {s}
      BY <2>2 DEF TypeInv, WorkTypeOK
    <3>2. AtBoundary(task[w], s)
      BY <1>1, <2>2 DEF Here, FilesInv, SameIsUnchanged
    <3>3. RestIsKept'
      BY <1>2, <1>3, <2>2, <3>1 DEF FilesInv, RestIsKept
    <3>4. RightOrPending'
      <4>1. ASSUME NEW t \in collected, ok[t], NEW z \in snaps[t]
            PROVE  \/ AtBoundary(t, z) \/ t \in toFeed
                   \/ \E v \in Workers : wpc[v] = "compare" /\ task[v] = t /\ z \in rest'[v]
        BY <1>1, <1>3, <3>1, <3>2, <4>1 DEF FilesInv, RightOrPending
      <4>. QED BY <1>2, <2>2, <4>1 DEF RightOrPending, AtBoundary
    <3>. QED BY <3>3, <3>4
  <2>3. CASE /\ ok' = [ok EXCEPT ![task[w]] = FALSE] /\ rest' = [rest EXCEPT ![w] = {}]
             /\ UNCHANGED <<task, wpc>>
    <3>1. rest'[w] = {} /\ ~ok'[task[w]] /\ \A t \in Records : t # task[w] => ok'[t] = ok[t]
      BY <1>1, <2>3 DEF TypeInv, WorkTypeOK, RecTypeOK
    <3>2. RestIsKept'
      BY <1>2, <1>3, <2>3, <3>1 DEF FilesInv, RestIsKept
    <3>3. RightOrPending'
      <4>1. ASSUME NEW t \in collected, ok'[t], NEW z \in snaps[t]
            PROVE  \/ AtBoundary(t, z) \/ t \in toFeed
                   \/ \E v \in Workers : wpc[v] = "compare" /\ task[v] = t /\ z \in rest'[v]
        <5>1. t # task[w] /\ t \in Records
          BY <3>1, <4>1 DEF TypeInv, ListTypeOK
        <5>. QED BY <1>1, <1>3, <3>1, <4>1, <5>1 DEF FilesInv, RightOrPending
      <4>. QED BY <1>2, <2>3, <4>1 DEF RightOrPending, AtBoundary
    <3>. QED BY <3>2, <3>3
  <2>. QED BY <2>1, <2>2, <2>3 DEF Compare
<1>. QED BY <1>1, <1>2, <1>4, <1>5
     DEF FilesInv, ValueIsKept, SameIsUnchanged, AnsweredIsRight, AtBoundary, Answered, TypeInv, WorkInv

(***************************************************************************)
(* The feeder hands a record of the second pool out with all its lstats.   *)
(***************************************************************************)
LEMMA PoolFiles ==
  ASSUME TypeInv, FilesInv, NEW w \in Workers,
         Feed(w) \/ WorkerExits(w) \/ Send(w) \/ Abandon(w)
  PROVE  FilesInv'
<1>. USE DEF worldVars, listVars, poolVars, recVars
<1>1. UNCHANGED <<file, request, boundary, phase, collected, stat, data, value, snaps, result>>
  BY DEF Feed, WorkerExits, Send, Deliver, Abandon, workVars
<1>2. \A v \in Workers \ {w} :
        wpc'[v] = wpc[v] /\ task'[v] = task[v] /\ step'[v] = step[v] /\ rest'[v] = rest[v]
  BY DEF Feed, WorkerExits, Send, Deliver, Abandon, TypeInv, WorkTypeOK, workVars
<1>3. wpc'[w] # "check"
  BY DEF Feed, WorkerExits, Send, Deliver, Abandon, TypeInv, WorkTypeOK
<1>4. ReadIsStat' /\ ValueIsKept' /\ SameIsUnchanged'
  BY <1>1, <1>2, <1>3
  DEF FilesInv, ReadIsStat, ValueIsKept, SameIsUnchanged, AtBoundary, Here, CurrentFile, ReadOrder
<1>5. CASE phase # "validating"
  <2>1. \A v \in Workers : wpc'[v] # "compare"
    BY <1>1, <1>5, TypeStep DEF TypeInv, WorkInv, Next, WorkerStep
  <2>2. AnsweredIsRight'
    <3>1. Answered => phase = "returned" /\ wpc[w] = "exited"
      BY DEF Answered, TypeInv, WorkInv
    <3>2. ok' # ok => Send(w)
      BY DEF Feed, WorkerExits, Abandon
    <3>3. Send(w) => wpc[w] # "exited"
      BY DEF Send, HasResult
    <3>. QED BY <1>1, <3>1, <3>2, <3>3 DEF FilesInv, AnsweredIsRight, AtBoundary, Answered
  <2>. QED BY <1>1, <1>4, <1>5, <2>1, <2>2 DEF FilesInv, RestIsKept, RightOrPending
<1>6. CASE phase = "validating"
  <2>1. wpc[w] \notin {"kept", "dropped"} /\ ~Answered
    BY <1>6 DEF TypeInv, WorkInv, Answered
  <2>2. Feed(w) \/ (UNCHANGED <<toFeed, ok, task, rest>> /\ wpc[w] = "idle" /\ wpc'[w] = "exited")
    BY <2>1 DEF WorkerExits, Send, Abandon, HasResult, workVars, TypeInv, WorkTypeOK
  <2>3. CASE Feed(w)
    <3>1. PICK t \in toFeed : toFeed' = toFeed \ {t} /\ task' = [task EXCEPT ![w] = t]
      BY <2>3 DEF Feed
    <3>2. task'[w] = t /\ wpc'[w] = "compare" /\ wpc[w] = "idle" /\ ok' = ok
          /\ rest'[w] = IF ok[t] THEN snaps[t] ELSE {}
      <4>1. task'[w] = t
        BY <3>1 DEF TypeInv, WorkTypeOK
      <4>. QED BY <1>6, <2>3, <4>1 DEF Feed, TypeInv, WorkTypeOK
    <3>3. RestIsKept'
      BY <1>1, <1>2, <3>2 DEF FilesInv, RestIsKept
    <3>4. RightOrPending'
      BY <1>1, <1>2, <3>1, <3>2 DEF FilesInv, RightOrPending, AtBoundary
    <3>. QED BY <1>1, <1>4, <2>1, <3>3, <3>4 DEF FilesInv, AnsweredIsRight, Answered
  <2>4. CASE UNCHANGED <<toFeed, ok, task, rest>> /\ wpc[w] = "idle" /\ wpc'[w] = "exited"
    BY <1>1, <1>2, <1>4, <2>1, <2>4
    DEF FilesInv, RestIsKept, RightOrPending, AnsweredIsRight, Answered, AtBoundary
  <2>. QED BY <2>2, <2>3, <2>4
<1>. QED BY <1>5, <1>6

(***************************************************************************)
(* The reading ends at the boundary, and an answer is given when every     *)
(* lstat has been repeated.                                                *)
(***************************************************************************)
LEMMA ScanFiles ==
  ASSUME TypeInv, LossInv, FilesInv, ScanStep
  PROVE  FilesInv'
<1>. USE DEF worldVars, listVars, poolVars, workVars, Return, GoOn
<1>1. UNCHANGED <<file, request, task, step, stat, data, rest, value, snaps, ok>>
  BY DEF ScanStep, Start, ListRoot, StatCategory, ListCategory, StartReading, StopFeeding,
     Collect, StartValidation, Finish, recVars
<1>2. ReadIsStat'
  <2>1. \A w \in Workers : wpc'[w] = "check" => wpc[w] = "check"
    BY DEF ScanStep, Start, ListRoot, StatCategory, ListCategory, StartReading, StopFeeding,
       Collect, StartValidation, Finish
  <2>. QED BY <1>1, <2>1 DEF FilesInv, ReadIsStat, Here, CurrentFile, ReadOrder
<1>3. ValueIsKept'
  BY <1>1 DEF FilesInv, ValueIsKept
<1>4. RestIsKept'
  <2>1. \A w \in Workers : wpc'[w] = "compare" => wpc[w] = "compare"
    BY DEF ScanStep, Start, ListRoot, StatCategory, ListCategory, StartReading, StopFeeding,
       Collect, StartValidation, Finish
  <2>. QED BY <1>1, <2>1 DEF FilesInv, RestIsKept
<1>5. CASE Start \/ ListRoot \/ StatCategory \/ ListCategory \/ StartReading
  <2>1. phase' # "validating" /\ ~Answered'
    BY <1>5 DEF Start, ListRoot, StatCategory, ListCategory, StartReading, Answered, TypeInv, WorkInv
  <2>. QED BY <1>2, <1>3, <1>4, <2>1 DEF FilesInv, SameIsUnchanged, RightOrPending, AnsweredIsRight
<1>6. CASE StopFeeding \/ Collect
  <2>1. UNCHANGED <<boundary, phase, toFeed, wpc, result>> /\ (phase # "reading" => UNCHANGED collected)
    BY <1>6 DEF StopFeeding, Collect
  <2>2. phase = "reading" => ~Answered
    BY DEF TypeInv, WorkInv, Answered
  <2>. QED BY <1>1, <1>2, <1>3, <1>4, <2>1, <2>2
       DEF FilesInv, SameIsUnchanged, RightOrPending, AnsweredIsRight, Answered, AtBoundary
<1>7. CASE StartValidation
  <2>1. boundary'.file = file /\ ~Answered' /\ UNCHANGED collected
    BY <1>7 DEF StartValidation, ReadingOver, Database, Answered, TypeInv, WorkInv
  <2>2. phase' = "validating" => toFeed' = collected
    BY <1>7 DEF StartValidation
  <2>. QED BY <1>1, <1>2, <1>3, <1>4, <2>1, <2>2
       DEF FilesInv, SameIsUnchanged, RightOrPending, AnsweredIsRight, AtBoundary
<1>8. CASE Finish
  <2>1. phase = "validating" /\ ~feeding /\ AllExited /\ phase' = "returned"
        /\ UNCHANGED <<boundary, collected>> /\ (Answered' => ~done \/ collected = {})
    BY <1>8 DEF Finish, ValidationOver, Answered
  <2>2. AnsweredIsRight'
    <3>1. CASE ~done
      <4>1. toFeed = {}
        BY <2>1, <3>1 DEF LossInv, AllIsFed
      <4>. QED BY <1>1, <2>1, <4>1 DEF FilesInv, RightOrPending, AllExited, AnsweredIsRight, AtBoundary
    <3>. QED BY <2>1, <3>1 DEF AnsweredIsRight
  <2>. QED BY <1>2, <1>3, <1>4, <2>1, <2>2 DEF FilesInv, SameIsUnchanged, RightOrPending
<1>. QED BY <1>5, <1>6, <1>7, <1>8 DEF ScanStep

(***************************************************************************)
(* A change outside gives no file a version that was read.                 *)
(***************************************************************************)
LEMMA OutsideFiles ==
  ASSUME TypeInv, FilesInv, Outside
  PROVE  FilesInv'
<1>. USE DEF listVars, poolVars, workVars, recVars
<1>1. /\ UNCHANGED <<request, boundary, phase, toFeed, collected, wpc, task, step, stat, data, rest, value, snaps, ok, result>>
      /\ \A t \in Records, f \in FileSet :
           file'[t][f] = file[t][f] \/ file'[t][f] = 0 \/ file'[t][f] > clock
  BY OutsideFrame
<1>2. ReadIsStat'
  <2>1. ASSUME NEW w \in Workers, wpc[w] = "check", Here(w)'[CurrentFile(w)] = stat[w]
        PROVE  data[w] = stat[w]
    <3>1. task[w] \in Records /\ CurrentFile(w) \in FileSet /\ stat[w] # 0
      BY <2>1, WorkerFacts DEF Busy, TypeInv, WorkInv
    <3>2. stat[w] \in 0..clock /\ clock \in Nat
      BY DEF TypeInv, WorkTypeOK, WorldTypeOK
    <3>3. Here(w)'[CurrentFile(w)] = file'[task[w]][CurrentFile(w)]
      BY <1>1 DEF Here
    <3>4. file'[task[w]][CurrentFile(w)] = file[task[w]][CurrentFile(w)]
      BY <1>1, <2>1, <3>1, <3>2, <3>3
    <3>. QED BY <2>1, <3>3, <3>4 DEF Here, FilesInv, ReadIsStat
  <2>2. \A w \in Workers : CurrentFile(w)' = CurrentFile(w)
    BY <1>1 DEF CurrentFile, ReadOrder
  <2>. QED BY <1>1, <2>1, <2>2 DEF ReadIsStat
<1>3. SameIsUnchanged'
  <2>1. ASSUME NEW t \in Records, NEW s \in snaps[t], file'[t][s[1]] = s[2]
        PROVE  file[t][s[1]] = s[2]
    BY <1>1, <2>1, SnapFacts
  <2>. QED BY <1>1, <2>1 DEF FilesInv, SameIsUnchanged, AtBoundary
<1>. QED BY <1>1, <1>2, <1>3
     DEF FilesInv, ValueIsKept, RestIsKept, RightOrPending, AnsweredIsRight, Answered, AtBoundary

(***************************************************************************)
(* Every step of the scan beside its environment keeps the files a cut.    *)
(***************************************************************************)
LEMMA FilesStep == TypeInv /\ LossInv /\ FilesInv /\ [Next]_vars => FilesInv'
<1> SUFFICES ASSUME TypeInv, LossInv, FilesInv, [Next]_vars PROVE FilesInv'
  OBVIOUS
<1>1. ASSUME NEW w \in Workers, WorkerStep(w) PROVE FilesInv'
  BY <1>1, ReadingFiles, PoolFiles, CompareFiles DEF WorkerStep, IsReading
<1>2. CASE UNCHANGED vars
  <2>1. UNCHANGED <<file, request, boundary, phase, toFeed, collected, wpc, task, step, stat, data, rest,
                    value, snaps, ok, result>>
    BY <1>2 DEF vars, worldVars, listVars, poolVars, workVars, recVars
  <2>2. ReadIsStat'
    BY <2>1 DEF FilesInv, ReadIsStat, Here, CurrentFile, ReadOrder
  <2>3. ValueIsKept' /\ SameIsUnchanged' /\ RestIsKept'
    BY <2>1 DEF FilesInv, ValueIsKept, SameIsUnchanged, RestIsKept, AtBoundary
  <2>4. RightOrPending' /\ AnsweredIsRight'
    BY <2>1 DEF FilesInv, RightOrPending, AnsweredIsRight, Answered, AtBoundary
  <2>. QED BY <2>2, <2>3, <2>4 DEF FilesInv
<1>. QED BY <1>1, <1>2, ScanFiles, OutsideFiles DEF Next, Terminated, Outside

(***************************************************************************)
(* The initial states hold no file.                                        *)
(***************************************************************************)
LEMMA FilesInit == Init => FilesInv
<1> SUFFICES ASSUME Init PROVE FilesInv
  OBVIOUS
<1>1. ValueIsKept
  BY DEF Init, NoFiles, ValueIsKept
<1>2. ReadIsStat /\ RestIsKept
  BY DEF Init, ReadIsStat, RestIsKept
<1>3. SameIsUnchanged /\ RightOrPending /\ AnsweredIsRight
  BY DEF Init, SameIsUnchanged, RightOrPending, AnsweredIsRight, Answered
<1>. QED BY <1>1, <1>2, <1>3 DEF FilesInv

-----------------------------------------------------------------------------
(* The directories are a cut                                               *)

\* The scan has seen record t in the listing of its category.
Named(t) == t \in listed \/ (HasIssue(t) /\ IsMalformed(t))

MergedHasCategory == \A t \in dir : stamp[CategoryOf[t]] # 0
IssueIsNamed == \A t \in Records : HasIssue(t) => Named(t)

\* How far the listing is: the root has its lstat, and so has each category
\* before its records are named.
NotBegun ==
  phase \in {"start", "root"} =>
    /\ unlisted = {} /\ \A t \in Records : ~Named(t)
    /\ \A c \in Categories : dirStat[c] = 0
RootSeen == phase \notin {"start", "returned"} => dirStat[Root] # 0
CategorySeen == phase = "category" => \A c \in Categories : NextCategory(c) => dirStat[c] # 0
NamedIsListed ==
  \A t \in Records : Named(t) => CategoryOf[t] \notin unlisted /\ dirStat[CategoryOf[t]] # 0
AllListed == phase \in {"reading", "validating"} => unlisted = {}

\* A category whose lstat is what it was holds the records that were named; one
\* that had none has none, while the root's is what it was.
ListingHolds ==
  phase \in {"listing", "category", "reading"} =>
    \A c \in Categories \ unlisted :
      /\ stamp[c] = dirStat[c] => \A t \in Records : CategoryOf[t] = c => (t \in dir <=> Named(t))
      /\ stamp[Root] = dirStat[Root] /\ dirStat[c] = 0 => stamp[c] = 0

ListingHeld ==
  phase = "validating" =>
    \A t \in Records :
      stamp[Root] = dirStat[Root] /\ dirStat[CategoryOf[t]] \in {0, stamp[CategoryOf[t]]} =>
        (t \in boundary.dir <=> Named(t))

AnsweredIsNamed ==
  Answered => \A t \in Records : Unchanged(CategoryOf[t]) => (t \in boundary.dir <=> Named(t))

DirsInv ==
  /\ MergedHasCategory /\ IssueIsNamed /\ NotBegun /\ RootSeen /\ CategorySeen
  /\ NamedIsListed /\ AllListed /\ ListingHolds /\ ListingHeld /\ AnsweredIsNamed

(***************************************************************************)
(* The root is no category, and no directory is a record.                  *)
(***************************************************************************)
LEMMA DirectoryFacts ==
  /\ Root \in Directories /\ Root \notin Categories
  /\ Categories \subseteq Directories
  /\ \A t \in Records : t \notin Directories /\ CategoryOf[t] \in Categories
BY ScanAssumption DEF Root, Directories

(***************************************************************************)
(* A step that leaves the directories and the listing alone, and finds     *)
(* issues of listed records only, names what was named.                    *)
(***************************************************************************)
LEMMA QuietDirs ==
  ASSUME TypeInv, DirsInv,
         UNCHANGED <<dir, stamp, defect, dirStat, unlisted, listed, phase, boundary, result>>,
         issues \subseteq issues', \A i \in issues' \ issues : i[1] \in listed
  PROVE  DirsInv'
<1>1. \A t \in Records : Named(t)' <=> Named(t)
  BY DEF Named, HasIssue, IsMalformed
<1>2. IssueIsNamed'
  BY DEF DirsInv, IssueIsNamed, Named, HasIssue, IsMalformed
<1>3. \A c : Unchanged(c)' => Unchanged(c)
  BY DEF Unchanged, HasIssue
<1>4. MergedHasCategory' /\ NotBegun' /\ RootSeen' /\ CategorySeen' /\ NamedIsListed' /\ AllListed'
  BY <1>1 DEF DirsInv, MergedHasCategory, NotBegun, RootSeen, CategorySeen, NextCategory, NamedIsListed, AllListed
<1>5. ListingHolds' /\ ListingHeld'
  BY <1>1 DEF DirsInv, ListingHolds, ListingHeld
<1>6. AnsweredIsNamed'
  BY <1>1, <1>3 DEF DirsInv, AnsweredIsNamed, Answered
<1>. QED BY <1>2, <1>4, <1>5, <1>6 DEF DirsInv

(***************************************************************************)
(* The steps of a worker are quiet.                                        *)
(***************************************************************************)
LEMMA WorkerDirs ==
  ASSUME TypeInv, DirsInv, NEW w \in Workers, WorkerStep(w)
  PROVE  DirsInv'
<1>1. CASE IsReading(w)
  <2>1. task[w] \in listed
    BY <1>1, ReadingFrame, WorkerFacts DEF Busy
  <2>. QED BY <1>1, <2>1, ReadingFrame, QuietDirs DEF worldVars, listVars
<1>2. CASE Feed(w) \/ WorkerExits(w) \/ Abandon(w)
  BY <1>2, QuietDirs DEF Feed, WorkerExits, Abandon, worldVars, listVars, recVars
<1>3. CASE Send(w) \/ Compare(w)
  <2>1. task[w] \in listed
    <3>1. Busy(w)
      BY <1>3 DEF Send, HasResult, Compare, Busy
    <3>. QED BY <3>1, WorkerFacts
  <2>2. issues \subseteq issues' /\ \A i \in issues' \ issues : i[1] = task[w]
    BY <1>3 DEF Send, Deliver, Compare
  <2>. QED BY <1>3, <2>1, <2>2, QuietDirs DEF Send, Deliver, Compare, worldVars, listVars
<1>. QED BY <1>1, <1>2, <1>3 DEF WorkerStep, IsReading

(***************************************************************************)
(* The listing names the records that are in a category at one instant     *)
(* after its lstat.                                                        *)
(***************************************************************************)
LEMMA ListingDirs ==
  ASSUME TypeInv, DirsInv, Start \/ ListRoot \/ StatCategory \/ ListCategory
  PROVE  DirsInv'
<1>. USE DEF worldVars, recVars, Return, GoOn
<1>0. UNCHANGED <<dir, stamp, defect>> /\ ~Answered' /\ phase' # "validating"
      /\ phase \in {"start", "root", "listing", "category"}
  BY DEF Start, ListRoot, StatCategory, ListCategory, Answered, TypeInv, WorkInv
<1>a. MergedHasCategory' /\ ListingHeld' /\ AnsweredIsNamed' /\ AllListed'
  BY <1>0 DEF DirsInv, MergedHasCategory, ListingHeld, AnsweredIsNamed, AllListed,
     Start, ListRoot, StatCategory, ListCategory
<1>1. CASE Start
  <2>1. UNCHANGED <<unlisted, listed, issues>> /\ \A t \in Records : Named(t)' <=> Named(t)
    BY <1>0, <1>1 DEF Start, Named, HasIssue, IsMalformed
  <2>2. /\ \A c \in Categories : dirStat'[c] = dirStat[c]
        /\ phase' # "returned" => phase' = "root" /\ dirStat'[Root] # 0
    BY <1>1, DirectoryFacts DEF Start, Lstat, TypeInv, ListTypeOK
  <2>3. phase = "start" /\ phase' \in {"root", "returned"}
    BY <1>1 DEF Start
  <2>4. IssueIsNamed' /\ NotBegun' /\ RootSeen' /\ CategorySeen' /\ ListingHolds'
    BY <2>1, <2>2, <2>3 DEF DirsInv, IssueIsNamed, HasIssue, NotBegun, RootSeen, CategorySeen, ListingHolds
  <2>5. NamedIsListed'
    BY <2>1, <2>2, DirectoryFacts DEF DirsInv, NamedIsListed
  <2>. QED BY <1>a, <2>4, <2>5 DEF DirsInv
<1>2. CASE ListRoot
  <2>1. /\ UNCHANGED <<dirStat, listed, issues>> /\ \A t \in Records : Named(t)' <=> Named(t)
        /\ unlisted' = {c \in Categories : stamp[c] # 0}
        /\ phase = "root" /\ phase' = "listing"
    BY <1>0, <1>2 DEF ListRoot, Named, HasIssue, IsMalformed, listVars
  <2>2. /\ \A t \in Records : ~Named(t)
        /\ \A c \in Categories : dirStat[c] = 0
        /\ dirStat[Root] # 0
    BY <2>1 DEF DirsInv, NotBegun, RootSeen
  <2>3. \A t \in Records : stamp[CategoryOf[t]] = 0 => t \notin dir
    BY DEF DirsInv, MergedHasCategory
  <2>4. ListingHolds'
    BY <1>0, <2>1, <2>2, <2>3 DEF ListingHolds
  <2>. QED BY <1>a, <2>1, <2>2, <2>4
       DEF DirsInv, IssueIsNamed, HasIssue, NotBegun, RootSeen, CategorySeen, NamedIsListed
<1>3. CASE StatCategory
  <2>1. UNCHANGED <<unlisted, listed, issues>> /\ \A t \in Records : Named(t)' <=> Named(t)
    BY <1>0, <1>3 DEF StatCategory, Named, HasIssue, IsMalformed
  <2>2. PICK c \in unlisted :
          /\ NextCategory(c)
          /\ \/ phase' = "returned" /\ UNCHANGED dirStat
             \/ phase' = "category" /\ stamp[c] # 0 /\ dirStat' = [dirStat EXCEPT ![c] = stamp[c]]
    BY <1>3 DEF StatCategory, Lstat
  <2>3. c \in Categories /\ c # Root /\ c \in Directories
    BY DirectoryFacts DEF TypeInv, ListTypeOK
  <2>4. \A d \in Categories : NextCategory(d) => d = c
    <3>1. \A d \in unlisted : d \in Nat
      BY ScanAssumption DEF TypeInv, ListTypeOK
    <3>. QED BY <2>2, <3>1 DEF NextCategory
  <2>5. CASE phase' = "returned" /\ UNCHANGED dirStat
    BY <1>a, <2>1, <2>5
    DEF DirsInv, IssueIsNamed, HasIssue, NotBegun, RootSeen, CategorySeen, NamedIsListed, ListingHolds
  <2>6. CASE phase' = "category" /\ stamp[c] # 0 /\ dirStat' = [dirStat EXCEPT ![c] = stamp[c]]
    <3>1. dirStat'[c] # 0 /\ \A d \in Directories : d # c => dirStat'[d] = dirStat[d]
      BY <2>3, <2>6 DEF TypeInv, ListTypeOK
    <3>2. RootSeen' /\ CategorySeen'
      <4>1. dirStat[Root] # 0
        BY <1>3 DEF StatCategory, DirsInv, RootSeen
      <4>2. \A d \in Categories : NextCategory(d)' => NextCategory(d)
        BY <2>1 DEF NextCategory
      <4>. QED BY <2>3, <2>4, <3>1, <4>1, <4>2, DirectoryFacts DEF RootSeen, CategorySeen
    <3>3. NamedIsListed'
      BY <2>1, <2>3, <3>1, DirectoryFacts DEF DirsInv, NamedIsListed
    <3>4. ListingHolds'
      <4>1. phase = "listing"
        BY <1>3 DEF StatCategory
      <4>2. \A d \in Categories \ unlisted : d # c /\ dirStat'[d] = dirStat[d]
        BY <2>2, <3>1, DirectoryFacts
      <4>3. dirStat'[Root] = dirStat[Root]
        BY <2>3, <3>1, DirectoryFacts
      <4>. QED BY <1>0, <2>1, <4>1, <4>2, <4>3 DEF DirsInv, ListingHolds
    <3>. QED BY <1>a, <2>1, <2>6, <3>2, <3>3, <3>4 DEF DirsInv, IssueIsNamed, HasIssue, NotBegun
  <2>. QED BY <2>2, <2>5, <2>6
<1>4. CASE ListCategory
  <2>1. PICK c \in unlisted :
          /\ NextCategory(c)
          /\ \/ phase' = "returned" /\ UNCHANGED <<unlisted, listed, issues>>
             \/ /\ phase' = "listing"
                /\ stamp[c] # 0
                /\ listed' = listed \cup {t \in Merged(c) : ~IsMalformed(t)}
                /\ issues' = issues \cup {<<t, "malformed">> : t \in {u \in Merged(c) : IsMalformed(u)}}
                /\ unlisted' = unlisted \ {c}
    BY <1>4 DEF ListCategory
  <2>2. c \in Categories /\ dirStat[c] # 0 /\ dirStat[Root] # 0 /\ phase = "category" /\ dirStat' = dirStat
    BY <1>4, <2>1 DEF ListCategory, TypeInv, ListTypeOK, DirsInv, CategorySeen, RootSeen
  <2>3. CASE phase' = "returned" /\ UNCHANGED <<unlisted, listed, issues>>
    <3>1. \A t \in Records : Named(t)' <=> Named(t)
      BY <1>0, <2>3 DEF Named, HasIssue, IsMalformed
    <3>. QED BY <1>a, <2>2, <2>3, <3>1
         DEF DirsInv, IssueIsNamed, HasIssue, NotBegun, RootSeen, CategorySeen, NamedIsListed, ListingHolds
  <2>4. CASE /\ phase' = "listing" /\ stamp[c] # 0
             /\ listed' = listed \cup {t \in Merged(c) : ~IsMalformed(t)}
             /\ issues' = issues \cup {<<t, "malformed">> : t \in {u \in Merged(c) : IsMalformed(u)}}
             /\ unlisted' = unlisted \ {c}
    <3>1. \A t \in Records : HasIssue(t)' <=> HasIssue(t) \/ (t \in Merged(c) /\ IsMalformed(t))
      <4>1. \A i : i \in issues' <=> i \in issues \/ \E u \in Merged(c) : IsMalformed(u) /\ i = <<u, "malformed">>
        BY <2>4
      <4>2. \A u : <<u, "malformed">>[1] = u
        OBVIOUS
      <4>. QED BY <4>1, <4>2 DEF HasIssue
    <3>2. \A t \in Records : Named(t)' <=> Named(t) \/ t \in Merged(c)
      BY <1>0, <2>4, <3>1 DEF Named, IsMalformed
    <3>3. \A t \in Records : t \in Merged(c) <=> t \in dir /\ CategoryOf[t] = c
      BY DEF Merged
    <3>4. IssueIsNamed'
      BY <3>1, <3>2 DEF DirsInv, IssueIsNamed
    <3>5. NamedIsListed'
      BY <2>2, <2>4, <3>2, <3>3 DEF DirsInv, NamedIsListed
    <3>6. ListingHolds'
      <4>1. ASSUME NEW d \in Categories \ unlisted', stamp[d] = dirStat[d], NEW t \in Records, CategoryOf[t] = d
            PROVE  t \in dir <=> Named(t)'
        <5>1. CASE d = c
          BY <2>1, <3>2, <3>3, <4>1, <5>1 DEF DirsInv, NamedIsListed
        <5>2. CASE d # c
          BY <2>2, <2>4, <3>2, <3>3, <4>1, <5>2 DEF DirsInv, ListingHolds
        <5>. QED BY <5>1, <5>2
      <4>2. ASSUME NEW d \in Categories \ unlisted', stamp[Root] = dirStat[Root], dirStat[d] = 0
            PROVE  stamp[d] = 0
        BY <2>2, <2>4, <4>2 DEF DirsInv, ListingHolds
      <4>. QED BY <1>0, <2>2, <2>4, <4>1, <4>2 DEF ListingHolds
    <3>. QED BY <1>a, <2>2, <2>4, <3>4, <3>5, <3>6 DEF DirsInv, NotBegun, RootSeen, CategorySeen
  <2>. QED BY <2>1, <2>3, <2>4
<1>. QED BY <1>1, <1>2, <1>3, <1>4

(***************************************************************************)
(* The rest of the call takes the listing as it is: at the end every       *)
(* directory that is no longer what it was has an issue.                   *)
(***************************************************************************)
LEMMA RestDirs ==
  ASSUME TypeInv, DirsInv,
         StartReading \/ StopFeeding \/ Collect \/ StartValidation \/ Finish
  PROVE  DirsInv'
<1>. USE DEF worldVars, listVars, recVars, Return, GoOn
<1>1. CASE StopFeeding \/ Collect
  BY <1>1, QuietDirs DEF StopFeeding, Collect
<1>2. UNCHANGED <<dir, stamp, defect, dirStat, unlisted, listed>>
  BY DEF StartReading, StopFeeding, Collect, StartValidation, Finish
<1>3. ASSUME UNCHANGED issues PROVE \A t \in Records : Named(t)' <=> Named(t)
  BY <1>2, <1>3 DEF Named, HasIssue, IsMalformed
<1>4. CASE StartReading
  <2>1. phase = "listing" /\ unlisted = {} /\ phase' = "reading" /\ UNCHANGED issues /\ ~Answered'
    BY <1>4 DEF StartReading, Answered, TypeInv, WorkInv
  <2>. QED BY <1>2, <1>3, <2>1
       DEF DirsInv, MergedHasCategory, IssueIsNamed, HasIssue, NotBegun, RootSeen, CategorySeen, NamedIsListed,
           AllListed, ListingHolds, ListingHeld, AnsweredIsNamed
<1>5. CASE StartValidation
  <2>1. phase = "reading" /\ phase' \in {"validating", "returned"} /\ UNCHANGED issues /\ ~Answered'
        /\ boundary'.dir = dir
    BY <1>5 DEF StartValidation, ReadingOver, Database, Answered, TypeInv, WorkInv
  <2>2. ListingHeld'
    <3>1. ASSUME NEW t \in Records, stamp[Root] = dirStat[Root],
                 dirStat[CategoryOf[t]] \in {0, stamp[CategoryOf[t]]}
          PROVE  t \in dir <=> Named(t)
      <4>1. CategoryOf[t] \in Categories \ unlisted
        BY <2>1, DirectoryFacts DEF DirsInv, AllListed
      <4>. QED BY <2>1, <3>1, <4>1 DEF DirsInv, ListingHolds
    <3>. QED BY <1>2, <1>3, <2>1, <3>1 DEF ListingHeld
  <2>. QED BY <1>2, <1>3, <2>1, <2>2
       DEF DirsInv, MergedHasCategory, IssueIsNamed, HasIssue, NotBegun, RootSeen, CategorySeen, NamedIsListed,
           AllListed, ListingHolds, AnsweredIsNamed
<1>6. CASE Finish
  <2>1. phase = "validating" /\ phase' = "returned" /\ UNCHANGED boundary
    BY <1>6 DEF Finish, ValidationOver
  <2>2. /\ \A t \in Records : HasIssue(t)' <=> HasIssue(t)
        /\ Answered' => \A d \in Directories : dirStat[d] \notin {0, stamp[d]} => HasIssue(d)'
    <3>1. CASE result' = "canceled" /\ UNCHANGED issues
      BY <3>1 DEF HasIssue, Answered
    <3>2. CASE issues' = issues \cup
                 {<<d, "mutation">> : d \in {e \in Directories : dirStat[e] \notin {0, stamp[e]}}}
      <4>1. \A i : i \in issues' <=> i \in issues \/
              \E d \in Directories : dirStat[d] \notin {0, stamp[d]} /\ i = <<d, "mutation">>
        BY <3>2
      <4>2. \A d : <<d, "mutation">>[1] = d
        OBVIOUS
      <4>3. ASSUME NEW t \in Records PROVE HasIssue(t)' <=> HasIssue(t)
        BY <4>1, <4>2, DirectoryFacts DEF HasIssue
      <4>4. ASSUME NEW d \in Directories, dirStat[d] \notin {0, stamp[d]} PROVE HasIssue(d)'
        BY <4>1, <4>2, <4>4 DEF HasIssue
      <4>. QED BY <4>3, <4>4
    <3>. QED BY <1>6, <3>1, <3>2 DEF Finish
  <2>3. \A t \in Records : Named(t)' <=> Named(t)
    BY <1>2, <2>2 DEF Named, IsMalformed
  <2>4. AnsweredIsNamed'
    <3>1. ASSUME Answered', NEW t \in Records, Unchanged(CategoryOf[t])' PROVE t \in boundary.dir <=> Named(t)
      <4>1. stamp[Root] = dirStat[Root]
        BY <2>1, <2>2, <3>1, DirectoryFacts DEF Unchanged, DirsInv, RootSeen
      <4>2. dirStat[CategoryOf[t]] \in {0, stamp[CategoryOf[t]]}
        <5>1. CategoryOf[t] \in Directories
          BY DirectoryFacts
        <5>2. ~HasIssue(CategoryOf[t])'
          BY <3>1 DEF Unchanged
        <5>. QED BY <2>2, <3>1, <5>1, <5>2
      <4>. QED BY <2>1, <4>1, <4>2 DEF DirsInv, ListingHeld
    <3>. QED BY <2>1, <2>3, <3>1 DEF AnsweredIsNamed
  <2>. QED BY <1>2, <2>1, <2>2, <2>3, <2>4
       DEF DirsInv, MergedHasCategory, IssueIsNamed, NotBegun, RootSeen, CategorySeen, NamedIsListed,
           AllListed, ListingHolds, ListingHeld
<1>. QED BY <1>1, <1>4, <1>5, <1>6

(***************************************************************************)
(* A record that is merged or unmerged changes its category, and a         *)
(* category that is created or removed changes the root.                   *)
(***************************************************************************)
LEMMA OutsideDirs ==
  ASSUME TypeInv, DirsInv, Outside
  PROVE  DirsInv'
<1>. USE DEF listVars, recVars
<1>1. UNCHANGED <<defect, phase, dirStat, unlisted, listed, boundary, issues, result>>
  BY OutsideFrame
<1>2. \A t \in Records : Named(t)' <=> Named(t)
  BY <1>1 DEF Named, HasIssue, IsMalformed
<1>3. clock \in Nat /\ \A d \in Directories : dirStat[d] \in 0..clock /\ dirStat[d] # clock + 1
  BY DEF TypeInv, ListTypeOK, WorldTypeOK
<1>4. IssueIsNamed' /\ NotBegun' /\ RootSeen' /\ CategorySeen' /\ NamedIsListed' /\ AllListed' /\ AnsweredIsNamed'
  BY <1>1, <1>2
  DEF DirsInv, IssueIsNamed, HasIssue, NotBegun, RootSeen, CategorySeen, NextCategory, NamedIsListed, AllListed,
      AnsweredIsNamed, Answered, Unchanged
<1>5. CASE UNCHANGED <<dir, stamp>>
  BY <1>1, <1>2, <1>4, <1>5 DEF DirsInv, MergedHasCategory, ListingHolds, ListingHeld
<1>6. ASSUME NEW r \in Records, ChangeRecord(r) PROVE DirsInv'
  <2>1. /\ stamp'[CategoryOf[r]] = clock + 1
        /\ stamp[CategoryOf[r]] = 0 => stamp'[Root] = clock + 1
        /\ \A d \in Categories : d # CategoryOf[r] => stamp'[d] = stamp[d]
        /\ stamp'[Root] \in {stamp[Root], clock + 1}
    BY <1>6, DirectoryFacts DEF ChangeRecord
  <2>2. \A t \in Records : t # r => (t \in dir' <=> t \in dir)
    BY <1>6 DEF ChangeRecord
  <2>3. MergedHasCategory'
    <3>1. dir' \subseteq Records /\ clock + 1 # 0
      BY <1>3, <1>6 DEF ChangeRecord, TypeInv, WorldTypeOK
    <3>. QED BY <2>1, <2>2, <3>1, DirectoryFacts DEF DirsInv, MergedHasCategory
  <2>4. ListingHolds'
    BY <1>1, <1>2, <1>3, <2>1, <2>2, DirectoryFacts DEF DirsInv, ListingHolds
  <2>5. ListingHeld'
    BY <1>1, <1>2, <1>3, <2>1, DirectoryFacts DEF DirsInv, ListingHeld
  <2>. QED BY <1>4, <2>3, <2>4, <2>5 DEF DirsInv
<1>7. ASSUME NEW c \in Categories, RemoveCategory(c) PROVE DirsInv'
  <2>1. /\ stamp'[c] = 0 /\ stamp'[Root] = clock + 1 /\ stamp[c] # 0
        /\ \A d \in Categories : d # c => stamp'[d] = stamp[d]
        /\ UNCHANGED dir
    <3>1. stamp' = [[stamp EXCEPT ![c] = 0] EXCEPT ![Root] = clock + 1]
      BY <1>7 DEF RemoveCategory
    <3>. QED BY <1>7, <3>1, DirectoryFacts DEF RemoveCategory, TypeInv, WorldTypeOK
  <2>2. \A t \in Records : t \in dir => CategoryOf[t] # c
    BY <1>7 DEF RemoveCategory, Merged
  <2>3. MergedHasCategory'
    <3>1. dir \subseteq Records
      BY DEF TypeInv, WorldTypeOK
    <3>. QED BY <2>1, <2>2, <3>1, DirectoryFacts DEF DirsInv, MergedHasCategory
  <2>4. ListingHolds'
    <3>1. phase \in {"listing", "category", "reading"} => dirStat[Root] # stamp'[Root]
      BY <1>3, <2>1, DirectoryFacts
    <3>2. ASSUME phase \in {"listing", "category", "reading"}, NEW d \in Categories \ unlisted,
                 stamp'[d] = dirStat[d], NEW t \in Records, CategoryOf[t] = d
          PROVE  t \in dir <=> Named(t)
      <4>1. CASE d = c
        BY <2>1, <2>2, <3>2, <4>1 DEF DirsInv, NamedIsListed
      <4>2. CASE d # c
        BY <2>1, <3>2, <4>2 DEF DirsInv, ListingHolds
      <4>. QED BY <4>1, <4>2
    <3>. QED BY <1>1, <1>2, <2>1, <3>1, <3>2 DEF ListingHolds
  <2>5. ListingHeld'
    BY <1>1, <1>2, <1>3, <2>1, DirectoryFacts DEF DirsInv, ListingHeld
  <2>. QED BY <1>4, <2>3, <2>4, <2>5 DEF DirsInv
<1>. QED BY <1>5, <1>6, <1>7 DEF Outside, ContextDone, ChangeFile, worldVars

(***************************************************************************)
(* Every step of the scan beside its environment keeps the directories a   *)
(* cut.                                                                    *)
(***************************************************************************)
LEMMA DirsStep == TypeInv /\ DirsInv /\ [Next]_vars => DirsInv'
<1> SUFFICES ASSUME TypeInv, DirsInv, [Next]_vars PROVE DirsInv'
  OBVIOUS
<1>1. CASE ScanStep
  BY <1>1, ListingDirs, RestDirs DEF ScanStep
<1>2. CASE UNCHANGED vars
  BY <1>2, QuietDirs DEF vars, worldVars, listVars, recVars
<1>. QED BY <1>1, <1>2, WorkerDirs, OutsideDirs DEF Next, Terminated, Outside

(***************************************************************************)
(* In the initial states nothing is listed.                                *)
(***************************************************************************)
LEMMA DirsInit == Init => DirsInv
<1> SUFFICES ASSUME Init PROVE DirsInv
  OBVIOUS
<1>1. MergedHasCategory
  <2>1. \A t \in dir : CategoryOf[t] \in Directories
    BY DirectoryFacts DEF Init
  <2>. QED BY <2>1 DEF Init, MergedHasCategory
<1>2. \A t \in Records : ~Named(t) /\ ~HasIssue(t)
  BY DEF Init, Named, HasIssue
<1>. QED BY <1>1, <1>2, DirectoryFacts
     DEF Init, DirsInv, IssueIsNamed, NotBegun, RootSeen, CategorySeen, NamedIsListed, AllListed,
         ListingHolds, ListingHeld, AnsweredIsNamed, Answered

(***************************************************************************)
(* The inventory is a cut: every field it reports, of any package, was on  *)
(* disk when the reading ended, and so were, when no change of a category  *)
(* is reported, exactly the records it names.  The changes beside the scan *)
(* are any at all.                                                         *)
(***************************************************************************)
THEOREM ScanIsACutAlways == Spec => []ScanIsACut
<1>. DEFINE Inv == TypeInv /\ LossInv /\ FilesInv /\ DirsInv
<1>1. Inv => ScanIsACut
  <2> SUFFICES ASSUME Inv, Answered PROVE
        /\ \A t \in Packages : \A f \in FileSet : value[t][f] # 0 => boundary.file[t][f] = value[t][f]
        /\ \A t \in Records : Unchanged(CategoryOf[t]) =>
              (t \in boundary.dir <=> t \in listed \/ (HasIssue(t) /\ IsMalformed(t)))
    BY DEF ScanIsACut
  <2>1. ASSUME NEW t \in Packages, NEW f \in FileSet, value[t][f] # 0
        PROVE  boundary.file[t][f] = value[t][f]
    <3>1. t \in collected /\ ok[t] /\ t \in Records
      BY DEF Packages, TypeInv, ListTypeOK
    <3>2. <<f, value[t][f]>> \in snaps[t]
      BY <2>1, <3>1 DEF FilesInv, ValueIsKept
    <3>3. AtBoundary(t, <<f, value[t][f]>>)
      BY <3>1, <3>2 DEF FilesInv, AnsweredIsRight
    <3>. QED BY <3>3 DEF AtBoundary
  <2>. QED BY <2>1 DEF DirsInv, AnsweredIsNamed, Named
<1>2. Init => Inv
  BY TypeInit, LossInit, FilesInit, DirsInit
<1>3. Inv /\ [Next]_vars => Inv'
  BY TypeStep, LossStep, FilesStep, DirsStep
<1>. QED BY <1>1, <1>2, <1>3, PTL DEF Spec

-----------------------------------------------------------------------------
(* What is empty is explained                                              *)

\* A file that need not be there was not there, or came to be meanwhile.
Absent(t, f) == f \notin InspectedFiles /\ (file[t][f] = 0 \/ <<t, f>> \in created)
AbsentThen(t, f) == f \notin InspectedFiles /\ (boundary.file[t][f] = 0 \/ <<t, f>> \in created)

Explained(t, f) == value[t][f] # 0 \/ HasIssue(t) \/ Absent(t, f)
ExplainedThen(t, f) == value[t][f] # 0 \/ HasIssue(t) \/ AbsentThen(t, f)

\* Each file that a worker has passed is explained, and so are all of a record
\* that is kept, during the reading and, as of its end, after it.
PassedExplained ==
  \A w \in Workers : wpc[w] \in {"stat", "read", "check", "kept"} =>
    \A i \in 1..step[w] - 1 : Explained(task[w], ReadOrder[i])
KeptExplained ==
  phase \notin {"validating", "returned"} => \A t \in Records : ok[t] => \A f \in Files : Explained(t, f)
KeptExplainedThen ==
  phase = "validating" \/ Answered => \A t \in Records : ok[t] => \A f \in Files : ExplainedThen(t, f)

EmptyInv == PassedExplained /\ KeptExplained /\ KeptExplainedThen

(***************************************************************************)
(* The files that are read are files of the record.                        *)
(***************************************************************************)
LEMMA FilesFacts ==
  /\ Files \subseteq FileSet
  /\ \A i \in 1..Len(ReadOrder) : ReadOrder[i] \in Files
  /\ \A f \in Files : \E i \in 1..Len(ReadOrder) : f = ReadOrder[i]
BY OrderFacts DEF Files

(***************************************************************************)
(* The reading of a record explains no file less.                          *)
(***************************************************************************)
LEMMA ReadingExplains ==
  ASSUME TypeInv, NEW w \in Workers, IsReading(w),
         NEW t \in Records, NEW f \in FileSet, Explained(t, f)
  PROVE  Explained(t, f)'
<1>1. UNCHANGED <<file, created>> /\ issues \subseteq issues'
  BY ReadingFrame DEF worldVars
<1>2. HasIssue(t) => HasIssue(t)'
  BY <1>1 DEF HasIssue
<1>3. CASE value[t][f] # 0 /\ t # task[w]
  BY <1>3, ReadingFrame DEF Explained
<1>4. CASE value[t][f] # 0 /\ t = task[w]
  <2>1. CASE Dropped(w)
    BY <1>4, <2>1 DEF Dropped, HasIssueNext, HasIssue, Explained
  <2>2. CASE WentOn(w)
    BY <1>4, <2>2 DEF WentOn, Explained
  <2>3. CASE FilledIn(w)
    <3>1. data[w] # 0
      BY <2>3 DEF FilledIn, TypeInv, WorkInv
    <3>2. value'[t][f] # 0
      BY <1>4, <2>3, <3>1 DEF FilledIn, TypeInv, RecTypeOK
    <3>. QED BY <3>2 DEF Explained
  <2>. QED BY <2>1, <2>2, <2>3, ReadingOutcome
<1>. QED BY <1>1, <1>2, <1>3, <1>4 DEF Explained, Absent

\* The file that a worker leaves behind is filled in, or there is a reason.
PassedNext(w) ==
  \/ value'[task[w]][CurrentFile(w)] # 0
  \/ HasIssueNext(task[w])
  \/ Absent(task[w], CurrentFile(w))

(***************************************************************************)
(* A worker passes a file that is not there, when it need not be, or one   *)
(* that has an issue, or one that it has read.                             *)
(***************************************************************************)
LEMMA PassedIsExplained ==
  ASSUME TypeInv, NEW w \in Workers, IsReading(w),
         wpc'[w] \in {"stat", "read", "check", "kept"}
  PROVE  \/ step'[w] = 1
         \/ wpc[w] \in {"stat", "read", "check"} /\ step'[w] = step[w]
         \/ wpc[w] \in {"stat", "read", "check"} /\ step'[w] = step[w] + 1 /\ PassedNext(w)
<1>. USE DEF recVars
<1>1. wpc \in [Workers -> {"exited", "idle", "inspect", "stat", "read", "check", "kept", "dropped", "compare"}]
      /\ step \in [Workers -> 1..Len(ReadOrder) + 1]
  BY DEF TypeInv, WorkTypeOK
<1>2. ASSUME NEW code PROVE ~Drop(w, code)
  BY <1>1 DEF Drop
<1>3. ASSUME Advance(w) PROVE step'[w] = step[w] + 1
  BY <1>1, <1>3 DEF Advance
<1>4. ASSUME NEW code, Unusable(w, code) PROVE Advance(w) /\ HasIssueNext(task[w])
  <2>1. Advance(w) /\ <<task[w], code>> \in issues' /\ <<task[w], code>>[1] = task[w]
    BY <1>2, <1>4 DEF Unusable
  <2>. QED BY <2>1 DEF HasIssueNext
<1>5. CASE Inspect(w)
  <2>1. /\ wpc[w] = "inspect"
        /\ wpc' = [wpc EXCEPT ![w] = IF step[w] = Len(Inspected) THEN "stat" ELSE @]
        /\ step' = [step EXCEPT ![w] = IF @ = Len(Inspected) THEN 1 ELSE @ + 1]
    BY <1>2, <1>5 DEF Inspect
  <2>. QED BY <1>1, <2>1
<1>6. CASE Stat(w)
  <2>0. wpc[w] = "stat"
    BY <1>6 DEF Stat
  <2>1. CASE Here(w)[CurrentFile(w)] = 0
    <3>1. Advance(w) /\ CurrentFile(w) \notin InspectedFiles
      BY <1>2, <1>6, <2>1 DEF Stat, IsRequired, InspectedFiles
    <3>. QED BY <1>3, <2>0, <2>1, <3>1 DEF PassedNext, Absent, Here
  <2>2. CASE Unusable(w, "corrupt")
    BY <1>3, <1>4, <2>0, <2>2 DEF PassedNext
  <2>3. CASE UNCHANGED step
    BY <1>1, <2>0, <2>3
  <2>. QED BY <1>6, <2>1, <2>2, <2>3 DEF Stat
<1>7. CASE Read(w)
  <2>0. wpc[w] = "read"
    BY <1>7 DEF Read
  <2>1. CASE Unusable(w, "unreadable")
    BY <1>3, <1>4, <2>0, <2>1 DEF PassedNext
  <2>2. CASE UNCHANGED step
    BY <1>1, <2>0, <2>2
  <2>. QED BY <1>7, <2>1, <2>2 DEF Read
<1>8. CASE Check(w)
  <2>0. wpc[w] = "check" /\ data[w] # 0
    BY <1>8 DEF Check, TypeInv, WorkInv
  <2>1. CASE Unusable(w, "mutation")
    BY <1>3, <1>4, <2>0, <2>1 DEF PassedNext
  <2>2. CASE value' = [value EXCEPT ![task[w]][CurrentFile(w)] = data[w]] /\ Advance(w)
    <3>1. task[w] \in Records /\ CurrentFile(w) \in FileSet
      BY <2>0, WorkerFacts DEF Busy
    <3>2. value'[task[w]][CurrentFile(w)] = data[w]
      BY <2>2, <3>1 DEF TypeInv, RecTypeOK
    <3>. QED BY <1>3, <2>0, <2>2, <3>2 DEF PassedNext
  <2>. QED BY <1>2, <1>8, <2>1, <2>2 DEF Check
<1>. QED BY <1>5, <1>6, <1>7, <1>8 DEF IsReading

(***************************************************************************)
(* The reading of a record explains each file that is passed.              *)
(***************************************************************************)
LEMMA ReadingEmpty ==
  ASSUME TypeInv, EmptyInv, NEW w \in Workers, IsReading(w)
  PROVE  EmptyInv'
<1>1. UNCHANGED <<file, created, request, boundary, phase, result, task, ok>>
      /\ phase = "reading" /\ wpc[w] \in {"inspect", "stat", "read", "check"}
  BY ReadingFrame DEF worldVars
<1>2. ReadOrder' = ReadOrder
  BY <1>1 DEF ReadOrder
<1>3. \A t \in Records, f \in FileSet : Explained(t, f) => Explained(t, f)'
  BY ReadingExplains
<1>4. KeptExplained'
  BY <1>1, <1>2, <1>3, FilesFacts DEF EmptyInv, KeptExplained, Files
<1>5. KeptExplainedThen'
  <2>1. result = "none"
    BY <1>1 DEF TypeInv, WorkInv
  <2>. QED BY <1>1, <2>1 DEF KeptExplainedThen, Answered
<1>6. ASSUME NEW v \in Workers, wpc'[v] \in {"stat", "read", "check", "kept"},
             NEW i \in 1..step'[v] - 1
      PROVE  Explained(task[v], ReadOrder[i])'
  <2>1. CASE v # w
    <3>1. wpc'[v] = wpc[v] /\ step'[v] = step[v]
      BY <2>1, ReadingFrame
    <3>2. task[v] \in Records /\ step[v] \in 1..Len(ReadOrder) + 1
      BY <1>6, <3>1, WorkerFacts DEF Busy, TypeInv, WorkTypeOK
    <3>3. ReadOrder[i] \in FileSet
      BY <3>1, <3>2, OrderFacts
    <3>4. Explained(task[v], ReadOrder[i])
      BY <1>6, <3>1 DEF EmptyInv, PassedExplained
    <3>. QED BY <1>1, <1>2, <1>3, <3>2, <3>3, <3>4 DEF Explained, Absent, HasIssue
  <2>2. CASE v = w
    <3>1. task[w] \in Records /\ step[w] \in 1..Len(ReadOrder) + 1
      BY <1>1, WorkerFacts DEF Busy, TypeInv, WorkTypeOK
    <3>2. wpc[w] \in {"stat", "read", "check"} => step[w] <= Len(ReadOrder)
      BY DEF TypeInv, WorkInv
    <3>3. CASE wpc[w] \in {"stat", "read", "check"} /\ i \in 1..step[w] - 1
      <4>1. Explained(task[w], ReadOrder[i]) /\ ReadOrder[i] \in FileSet
        BY <3>1, <3>3, OrderFacts DEF EmptyInv, PassedExplained
      <4>. QED BY <1>1, <1>2, <1>3, <2>2, <3>1, <4>1 DEF Explained, Absent, HasIssue
    <3>4. CASE i = step[w] /\ PassedNext(w)
      BY <1>1, <1>2, <2>2, <3>4 DEF PassedNext, CurrentFile, Explained, Absent, HasIssue, HasIssueNext
    <3>. QED BY <1>6, <2>2, <3>1, <3>3, <3>4, PassedIsExplained
  <2>. QED BY <2>1, <2>2
<1>7. PassedExplained'
  BY <1>6 DEF PassedExplained
<1>. QED BY <1>4, <1>5, <1>7 DEF EmptyInv

(***************************************************************************)
(* A record is kept when its worker has passed every file of it.           *)
(***************************************************************************)
LEMMA PoolEmpty ==
  ASSUME TypeInv, EmptyInv, NEW w \in Workers,
         Feed(w) \/ WorkerExits(w) \/ Send(w) \/ Abandon(w) \/ Compare(w)
  PROVE  EmptyInv'
<1>. USE DEF worldVars, listVars, poolVars, recVars, workVars
<1>1. UNCHANGED <<file, created, request, boundary, phase, result, value>> /\ issues \subseteq issues'
  BY DEF Feed, WorkerExits, Send, Deliver, Abandon, Compare
<1>2. ReadOrder' = ReadOrder /\ Files' = Files
  BY <1>1 DEF ReadOrder, Files
<1>3. \A t \in Records, f \in FileSet : /\ Explained(t, f) => Explained(t, f)'
                                        /\ ExplainedThen(t, f) => ExplainedThen(t, f)'
  BY <1>1 DEF Explained, Absent, ExplainedThen, AbsentThen, HasIssue
<1>4. \A v \in Workers : wpc'[v] \in {"stat", "read", "check", "kept"} =>
         wpc'[v] = wpc[v] /\ step'[v] = step[v] /\ task'[v] = task[v]
  BY DEF Feed, WorkerExits, Send, Deliver, Abandon, Compare, TypeInv, WorkTypeOK
<1>5. PassedExplained'
  <2>1. ASSUME NEW v \in Workers, wpc'[v] \in {"stat", "read", "check", "kept"},
               NEW i \in 1..step'[v] - 1
        PROVE  Explained(task[v], ReadOrder[i])'
    <3>1. task[v] \in Records /\ step[v] \in 1..Len(ReadOrder) + 1
      BY <1>4, <2>1, WorkerFacts DEF Busy, TypeInv, WorkTypeOK
    <3>2. Explained(task[v], ReadOrder[i]) /\ ReadOrder[i] \in FileSet
      BY <1>4, <2>1, <3>1, OrderFacts DEF EmptyInv, PassedExplained
    <3>. QED BY <1>1, <1>2, <1>4, <2>1, <3>1, <3>2 DEF Explained, Absent, HasIssue
  <2>. QED BY <2>1 DEF PassedExplained
<1>6. ASSUME NEW t \in Records, ok'[t], ~ok[t], NEW f \in Files
      PROVE  phase = "reading" /\ Explained(t, f)
  <2>1. Send(w) /\ wpc[w] = "kept" /\ t = task[w]
    <3>1. CASE Send(w)
      BY <1>6, <3>1 DEF Send, Deliver, HasResult, TypeInv, RecTypeOK
    <3>. QED BY <1>6, <3>1 DEF Feed, WorkerExits, Abandon, Compare, TypeInv, RecTypeOK
  <2>2. phase = "reading" /\ step[w] = Len(ReadOrder) + 1
    BY <2>1, WorkerFacts DEF Busy, TypeInv, WorkInv
  <2>3. PICK i \in 1..Len(ReadOrder) : f = ReadOrder[i]
    BY FilesFacts
  <2>4. i \in 1..step[w] - 1
    BY <2>2, <2>3, OrderFacts
  <2>. QED BY <2>1, <2>2, <2>3, <2>4 DEF EmptyInv, PassedExplained
<1>7. KeptExplained'
  BY <1>1, <1>2, <1>3, <1>6, FilesFacts DEF EmptyInv, KeptExplained
<1>8. KeptExplainedThen'
  <2>1. phase = "reading" => ~Answered
    BY DEF TypeInv, WorkInv, Answered
  <2>. QED BY <1>1, <1>2, <1>3, <1>6, <2>1, FilesFacts DEF EmptyInv, KeptExplainedThen, Answered
<1>. QED BY <1>5, <1>7, <1>8 DEF EmptyInv

(***************************************************************************)
(* The steps of the call leave what is read alone; the end of the reading  *)
(* fixes what was there.                                                   *)
(***************************************************************************)
LEMMA ScanEmpty ==
  ASSUME TypeInv, EmptyInv, ScanStep
  PROVE  EmptyInv'
<1>. USE DEF worldVars, listVars, poolVars, recVars, workVars, Return, GoOn
<1>1. UNCHANGED <<file, created, request, value, ok, task, step>> /\ issues \subseteq issues'
  BY DEF ScanStep, Start, ListRoot, StatCategory, ListCategory, StartReading, StopFeeding, Collect,
         StartValidation, Finish
<1>2. ReadOrder' = ReadOrder /\ Files' = Files
  BY <1>1 DEF ReadOrder, Files
<1>3. \A t \in Records, f \in FileSet : Explained(t, f) => Explained(t, f)'
  BY <1>1 DEF Explained, Absent, HasIssue
<1>4. \A v \in Workers : wpc'[v] \in {"stat", "read", "check", "kept"} => wpc'[v] = wpc[v]
  BY DEF ScanStep, Start, ListRoot, StatCategory, ListCategory, StartReading, StopFeeding, Collect,
         StartValidation, Finish
<1>5. PassedExplained'
  <2>1. ASSUME NEW v \in Workers, wpc'[v] \in {"stat", "read", "check", "kept"},
               NEW i \in 1..step'[v] - 1
        PROVE  Explained(task[v], ReadOrder[i])'
    <3>1. task[v] \in Records /\ step[v] \in 1..Len(ReadOrder) + 1
      BY <1>4, <2>1, WorkerFacts DEF Busy, TypeInv, WorkTypeOK
    <3>2. Explained(task[v], ReadOrder[i]) /\ ReadOrder[i] \in FileSet
      BY <1>1, <1>4, <2>1, <3>1, OrderFacts DEF EmptyInv, PassedExplained
    <3>. QED BY <1>1, <1>2, <1>3, <3>1, <3>2 DEF Explained, Absent, HasIssue
  <2>. QED BY <2>1 DEF PassedExplained
<1>6. phase' \notin {"validating", "returned"} => phase \notin {"validating", "returned"}
  BY DEF ScanStep, Start, ListRoot, StatCategory, ListCategory, StartReading, StopFeeding, Collect,
         StartValidation, Finish
<1>7. KeptExplained'
  BY <1>1, <1>2, <1>3, <1>6, FilesFacts DEF EmptyInv, KeptExplained
<1>8. KeptExplainedThen'
  <2>1. CASE StartValidation /\ phase' = "validating"
    <3>1. phase = "reading" /\ boundary'.file = file
      BY <2>1 DEF StartValidation, ReadingOver, Database
    <3>2. \A t \in Records, f \in FileSet : Explained(t, f) => ExplainedThen(t, f)'
      BY <1>1, <3>1 DEF Explained, Absent, ExplainedThen, AbsentThen, HasIssue
    <3>. QED BY <1>1, <1>2, <3>1, <3>2, FilesFacts DEF EmptyInv, KeptExplained, KeptExplainedThen
  <2>2. CASE UNCHANGED boundary /\ (phase' = "validating" \/ Answered' => phase = "validating" \/ Answered)
    <3>1. \A t \in Records, f \in FileSet : ExplainedThen(t, f) => ExplainedThen(t, f)'
      BY <1>1, <2>2 DEF ExplainedThen, AbsentThen, HasIssue
    <3>. QED BY <1>1, <1>2, <2>2, <3>1, FilesFacts DEF EmptyInv, KeptExplainedThen
  <2>3. CASE ~(phase' = "validating" \/ Answered')
    BY <2>3 DEF KeptExplainedThen
  <2>4. CASE StopFeeding \/ Finish
    BY <2>2, <2>4 DEF StopFeeding, Finish, ValidationOver, Answered
  <2>5. CASE Start \/ ListRoot \/ StatCategory \/ ListCategory \/ StartReading \/ Collect
    BY <2>3, <2>5 DEF Start, ListRoot, StatCategory, ListCategory, StartReading, Collect, Answered,
                      TypeInv, WorkInv
  <2>6. CASE StartValidation
    BY <2>1, <2>3, <2>6 DEF StartValidation, ReadingOver, Answered, TypeInv, WorkInv
  <2>. QED BY <2>4, <2>5, <2>6 DEF ScanStep
<1>. QED BY <1>5, <1>7, <1>8 DEF EmptyInv

(***************************************************************************)
(* A file that comes to be outside is among those that were created.       *)
(***************************************************************************)
LEMMA OutsideEmpty ==
  ASSUME TypeInv, EmptyInv, Outside
  PROVE  EmptyInv'
<1>1. UNCHANGED <<request, boundary, phase, wpc, task, step, value, ok, issues, result>>
      /\ created \subseteq created'
  BY OutsideFrame DEF workVars, recVars
<1>2. ReadOrder' = ReadOrder /\ Files' = Files
  BY <1>1 DEF ReadOrder, Files
<1>3. \A t \in Records, f \in FileSet : file[t][f] = 0 => file'[t][f] = 0 \/ <<t, f>> \in created'
  BY OutsideFrame
<1>4. \A t \in Records, f \in FileSet : /\ Explained(t, f) => Explained(t, f)'
                                        /\ ExplainedThen(t, f) => ExplainedThen(t, f)'
  BY <1>1, <1>3 DEF Explained, Absent, ExplainedThen, AbsentThen, HasIssue
<1>5. PassedExplained'
  <2>1. ASSUME NEW v \in Workers, wpc'[v] \in {"stat", "read", "check", "kept"},
               NEW i \in 1..step'[v] - 1
        PROVE  Explained(task[v], ReadOrder[i])'
    <3>1. task[v] \in Records /\ step[v] \in 1..Len(ReadOrder) + 1
      BY <1>1, <2>1, WorkerFacts DEF Busy, TypeInv, WorkTypeOK
    <3>2. Explained(task[v], ReadOrder[i]) /\ ReadOrder[i] \in FileSet
      BY <1>1, <2>1, <3>1, OrderFacts DEF EmptyInv, PassedExplained
    <3>. QED BY <1>1, <1>2, <1>4, <3>1, <3>2 DEF Explained, Absent, HasIssue
  <2>. QED BY <2>1 DEF PassedExplained
<1>6. KeptExplained' /\ KeptExplainedThen'
  BY <1>1, <1>2, <1>4, FilesFacts DEF EmptyInv, KeptExplained, KeptExplainedThen, Answered
<1>. QED BY <1>5, <1>6 DEF EmptyInv

(***************************************************************************)
(* Every step of the scan beside its environment explains what is empty.   *)
(***************************************************************************)
LEMMA EmptyStep == TypeInv /\ EmptyInv /\ [Next]_vars => EmptyInv'
<1> SUFFICES ASSUME TypeInv, EmptyInv, [Next]_vars PROVE EmptyInv'
  OBVIOUS
<1>1. ASSUME NEW w \in Workers, WorkerStep(w) PROVE EmptyInv'
  BY <1>1, ReadingEmpty, PoolEmpty DEF WorkerStep, IsReading
<1>2. CASE UNCHANGED vars
  <2>1. UNCHANGED <<file, created, request, boundary, phase, wpc, task, step, value, ok, issues, result>>
    BY <1>2 DEF vars, worldVars, workVars, recVars
  <2>2. PassedExplained'
    BY <2>1 DEF EmptyInv, PassedExplained, Explained, Absent, HasIssue, ReadOrder
  <2>3. KeptExplained' /\ KeptExplainedThen'
    BY <2>1 DEF EmptyInv, KeptExplained, KeptExplainedThen, Explained, Absent, ExplainedThen,
                AbsentThen, HasIssue, Answered, Files, ReadOrder
  <2>. QED BY <2>2, <2>3 DEF EmptyInv
<1>. QED BY <1>1, <1>2, ScanEmpty, OutsideEmpty DEF Next, Outside, Terminated

(***************************************************************************)
(* In the initial states nothing is kept.                                  *)
(***************************************************************************)
LEMMA EmptyInit == Init => EmptyInv
BY DEF Init, EmptyInv, PassedExplained, KeptExplained, KeptExplainedThen, Answered

(***************************************************************************)
(* The invariant of the scan, as a whole.                                  *)
(***************************************************************************)
LEMMA ScanInvariant == Spec => [](TypeInv /\ LossInv /\ FilesInv /\ DirsInv /\ EmptyInv)
<1>1. Init => TypeInv /\ LossInv /\ FilesInv /\ DirsInv /\ EmptyInv
  BY TypeInit, LossInit, FilesInit, DirsInit, EmptyInit
<1>2. TypeInv /\ LossInv /\ FilesInv /\ DirsInv /\ EmptyInv /\ [Next]_vars
      => (TypeInv /\ LossInv /\ FilesInv /\ DirsInv /\ EmptyInv)'
  BY TypeStep, LossStep, FilesStep, DirsStep, EmptyStep
<1>. QED BY <1>1, <1>2, PTL DEF Spec

(***************************************************************************)
(* A field of a package is empty only for a reason, however its file is    *)
(* created, replaced and removed while it is read.                         *)
(***************************************************************************)
THEOREM EmptyIsExplainedAlways == Spec => []EmptyIsExplained
<1>1. TypeInv /\ EmptyInv => EmptyIsExplained
  <2> SUFFICES ASSUME TypeInv, EmptyInv PROVE EmptyIsExplained
    OBVIOUS
  <2>1. Packages \subseteq Records
    BY DEF Packages, TypeInv, ListTypeOK
  <2>. QED BY <2>1 DEF EmptyInv, KeptExplainedThen, ExplainedThen, AbsentThen, EmptyIsExplained,
                       Packages, Files
<1>. QED BY <1>1, ScanInvariant, PTL

-----------------------------------------------------------------------------
(* Kernel modules: paths                                                   *)

(***************************************************************************)
(* Where three components stand in a path.                                 *)
(***************************************************************************)
LEMMA ThreeInARow ==
  ASSUME NEW path \in Seq(STRING), NEW i \in 1..Len(path), i + 2 <= Len(path)
  PROVE  \A a, b, c :
           SubSeq(path, i, i + 2) = <<a, b, c>>
             <=> path[i] = a /\ path[i + 1] = b /\ path[i + 2] = c
<1> SUFFICES ASSUME NEW a, NEW b, NEW c
             PROVE  SubSeq(path, i, i + 2) = <<a, b, c>>
                      <=> path[i] = a /\ path[i + 1] = b /\ path[i + 2] = c
  OBVIOUS
<1>. DEFINE s == SubSeq(path, i, i + 2)
<1>1. Len(path) \in Nat /\ i \in Int /\ i + 2 \in Int /\ \A k \in i..i + 2 : path[k] \in STRING
  OBVIOUS
<1>2. /\ s \in Seq(STRING)
      /\ Len(s) = (IF i <= i + 2 THEN (i + 2) - i + 1 ELSE 0)
      /\ \A k \in 1..(i + 2) - i + 1 : s[k] = path[i + k - 1]
  BY <1>1, SubSeqProperties
<1>3. Len(s) = 3 /\ s[1] = path[i] /\ s[2] = path[i + 1] /\ s[3] = path[i + 2]
  <2>1. i <= i + 2 /\ (i + 2) - i + 1 = 3 /\ i + 1 - 1 = i /\ i + 2 - 1 = i + 1 /\ i + 3 - 1 = i + 2
    BY <1>1
  <2>. QED BY <1>2, <2>1
<1>. HIDE DEF s
<1>4. ASSUME s[1] = a, s[2] = b, s[3] = c PROVE s = <<a, b, c>>
  <2>1. <<a, b, c>> \in Seq(STRING)
    BY <1>2, <1>3, <1>4
  <2>. QED BY <1>2, <1>3, <1>4, <2>1, SeqEqual
<1>5. s = <<a, b, c>> => s[1] = a /\ s[2] = b /\ s[3] = c
  OBVIOUS
<1>6. s = <<a, b, c>> <=> path[i] = a /\ path[i + 1] = b /\ path[i + 2] = c
  BY <1>3, <1>4, <1>5
<1>. QED BY <1>6 DEF s

(***************************************************************************)
(* A path is strictly below a place when it is longer and begins with it.  *)
(***************************************************************************)
LEMMA Below ==
  ASSUME NEW S, NEW path \in Seq(S), NEW place \in Seq(S), Len(place) < Len(path)
  PROVE  IsStrictPrefix(place, path) <=> \A i \in 1..Len(place) : path[i] = place[i]
<1>. DEFINE n == Len(place)
<1>1. n \in Nat /\ Len(path) \in Nat /\ n <= Len(path) /\ place # path
  OBVIOUS
<1>2. /\ SubSeq(place, 1, n) \in Seq(S) /\ Len(SubSeq(place, 1, n)) = n
      /\ \A i \in 1..n : SubSeq(place, 1, n)[i] = place[i]
  <2>1. \A i \in 1..n : place[i] \in S /\ 1 + i - 1 = i
    OBVIOUS
  <2>2. n - 1 + 1 = n /\ (~(1 <= n) => n = 0)
    BY <1>1
  <2>. QED BY <1>1, <2>1, <2>2, SubSeqProperties
<1>3. /\ SubSeq(path, 1, n) \in Seq(S) /\ Len(SubSeq(path, 1, n)) = n
      /\ \A i \in 1..n : SubSeq(path, 1, n)[i] = path[i]
  <2>1. \A i \in 1..n : path[i] \in S /\ 1 + i - 1 = i
    BY <1>1
  <2>2. n - 1 + 1 = n /\ (~(1 <= n) => n = 0)
    BY <1>1
  <2>. QED BY <1>1, <2>1, <2>2, SubSeqProperties
<1>4. SubSeq(place, 1, n) = SubSeq(path, 1, n) <=> \A i \in 1..n : path[i] = place[i]
  BY <1>1, <1>2, <1>3, SeqEqual
<1>. QED BY <1>1, <1>4 DEF IsStrictPrefix, IsPrefix

(***************************************************************************)
(* The two places, and the component of a path below them that names the   *)
(* release.                                                                *)
(***************************************************************************)
LEMMA PlaceFacts ==
  ASSUME NEW path \in Seq(STRING), path # <<>>
  PROVE  /\ \A q \in Places : Len(q) \in {2, 3}
         /\ \A q \in Places : IsStrictPrefix(q, path) /\ Len(path) > Len(q) + 1 =>
              /\ ReleaseAt(path) = Len(q) + 1 /\ Len(path) > ReleaseAt(path)
              /\ path[1] = "lib" \/ (path[1] = "usr" /\ path[2] = "lib")
              /\ path[Len(q)] = "modules"
         /\ /\ Len(path) > ReleaseAt(path)
            /\ path[1] = "lib" \/ (path[1] = "usr" /\ path[2] = "lib")
            /\ path[ReleaseAt(path) - 1] = "modules"
            => \E q \in Places : /\ IsStrictPrefix(q, path) /\ Len(path) > Len(q) + 1
                                 /\ ReleaseAt(path) = Len(q) + 1
<1>. DEFINE Name == STRING \cup {"lib", "usr", "modules"}
<1>. DEFINE short == <<"lib", "modules">>
<1>. DEFINE long == <<"usr", "lib", "modules">>
<1>1. path \in Seq(Name) /\ Len(path) \in Nat
  BY SeqMonotonic
<1>2. short \in Seq(Name) /\ Len(short) = 2 /\ Len(short) + 1 = 3 /\ short[1] = "lib" /\ short[2] = "modules"
      /\ \A i \in 1..2 : i = 1 \/ i = 2
  OBVIOUS
<1>3. long \in Seq(Name) /\ Len(long) = 3 /\ Len(long) + 1 = 4 /\ long[1] = "usr" /\ long[2] = "lib" /\ long[3] = "modules"
      /\ \A i \in 1..3 : i = 1 \/ i = 2 \/ i = 3
  OBVIOUS
<1>6. Places = {short, long}
  BY DEF Places
<1>. HIDE DEF Name, short, long
<1>4. ASSUME Len(path) > 3
      PROVE  IsStrictPrefix(short, path) <=> path[1] = "lib" /\ path[2] = "modules"
  <2>1. short \in Seq(Name) /\ path \in Seq(Name) /\ Len(short) < Len(path)
    BY <1>1, <1>2, <1>4
  <2>2. IsStrictPrefix(short, path) <=> \A i \in 1..Len(short) : path[i] = short[i]
    BY <2>1, Below
  <2>. QED BY <1>2, <2>2
<1>5. ASSUME Len(path) > 4
      PROVE  IsStrictPrefix(long, path) <=> path[1] = "usr" /\ path[2] = "lib" /\ path[3] = "modules"
  <2>1. long \in Seq(Name) /\ path \in Seq(Name) /\ Len(long) < Len(path)
    BY <1>1, <1>3, <1>5
  <2>2. IsStrictPrefix(long, path) <=> \A i \in 1..Len(long) : path[i] = long[i]
    BY <2>1, Below
  <2>. QED BY <1>3, <2>2
<1>7. ASSUME NEW q \in Places PROVE Len(q) \in {2, 3}
  BY <1>2, <1>3, <1>6, <1>7
<1>8. ASSUME NEW q \in Places, IsStrictPrefix(q, path), Len(path) > Len(q) + 1
      PROVE  /\ ReleaseAt(path) = Len(q) + 1 /\ Len(path) > ReleaseAt(path)
             /\ path[1] = "lib" \/ (path[1] = "usr" /\ path[2] = "lib")
             /\ path[Len(q)] = "modules"
  <2>1. CASE q = short
    <3>1. Len(path) > 3
      BY <1>1, <1>2, <1>8, <2>1
    <3>2. path[1] = "lib" /\ path[2] = "modules"
      BY <1>4, <1>8, <2>1, <3>1
    <3>3. ReleaseAt(path) = 3
      BY <3>2 DEF ReleaseAt
    <3>. QED BY <1>2, <2>1, <3>1, <3>2, <3>3
  <2>2. CASE q = long
    <3>1. Len(path) > 4
      BY <1>1, <1>3, <1>8, <2>2
    <3>2. path[1] = "usr" /\ path[2] = "lib" /\ path[3] = "modules"
      BY <1>5, <1>8, <2>2, <3>1
    <3>3. ReleaseAt(path) = 4
      BY <3>2 DEF ReleaseAt
    <3>. QED BY <1>3, <2>2, <3>1, <3>2, <3>3
  <2>. QED BY <1>6, <2>1, <2>2
<1>9. ASSUME Len(path) > ReleaseAt(path),
             path[1] = "lib" \/ (path[1] = "usr" /\ path[2] = "lib"),
             path[ReleaseAt(path) - 1] = "modules"
      PROVE  \E q \in Places : /\ IsStrictPrefix(q, path) /\ Len(path) > Len(q) + 1
                               /\ ReleaseAt(path) = Len(q) + 1
  <2>1. CASE path[1] = "usr"
    <3>1. ReleaseAt(path) = 4 /\ Len(path) > 4 /\ path[2] = "lib" /\ path[3] = "modules"
      BY <1>9, <2>1 DEF ReleaseAt
    <3>2. long \in Places /\ IsStrictPrefix(long, path)
      BY <1>5, <1>6, <2>1, <3>1
    <3>. QED BY <1>3, <3>1, <3>2
  <2>2. CASE path[1] # "usr"
    <3>1. ReleaseAt(path) = 3 /\ Len(path) > 3 /\ path[1] = "lib" /\ path[2] = "modules"
      BY <1>9, <2>2 DEF ReleaseAt
    <3>2. short \in Places /\ IsStrictPrefix(short, path)
      BY <1>4, <1>6, <3>1
    <3>. QED BY <1>2, <3>1, <3>2
  <2>. QED BY <2>1, <2>2
<1>. QED BY <1>7, <1>8, <1>9

(***************************************************************************)
(* On a plain path the kernel's own modules are those whose release is     *)
(* followed by kernel.                                                     *)
(***************************************************************************)
LEMMA InTree ==
  ASSUME NEW path \in Seq(STRING), path # <<>>, IsModule(path), IsPlain(path)
  PROVE  inTreeKernelModule(path, moduleKernelRelease(path)) <=> path[ReleaseAt(path) + 1] = "kernel"
<1>. DEFINE r == ReleaseAt(path)
<1>1. /\ Len(path) \in Nat /\ r \in {3, 4} /\ Len(path) > r /\ path[r - 1] = "modules"
      /\ path[Len(path)] \in ModuleNames
  BY DEF IsModule, Last, ReleaseAt
<1>. HIDE DEF r
<1>2. ASSUME NEW i \in 1..Len(path) - 3
      PROVE  SubSeq(path, i, i + 2) = <<"modules", path[r], "kernel">>
               <=> path[i] = "modules" /\ path[i + 1] = path[r] /\ path[i + 2] = "kernel"
  <2>1. i \in 1..Len(path) /\ i + 2 <= Len(path)
    BY <1>1, <1>2
  <2>2. \A a, b, c : SubSeq(path, i, i + 2) = <<a, b, c>>
                       <=> path[i] = a /\ path[i + 1] = b /\ path[i + 2] = c
    BY <2>1, ThreeInARow
  <2>. QED BY <2>2
<1>3. inTreeKernelModule(path, path[r])
        <=> \E i \in 1..Len(path) - 3 :
               path[i] = "modules" /\ path[i + 1] = path[r] /\ path[i + 2] = "kernel"
  BY <1>2 DEF inTreeKernelModule
<1>4. ASSUME NEW i \in 1..Len(path) - 3, path[i] = "modules", path[i + 2] = "kernel"
      PROVE  path[r + 1] = "kernel"
  <2>1. i \in 1..Len(path) /\ r - 1 \in 1..Len(path)
    BY <1>1, <1>4
  <2>2. i = r - 1
    BY <1>1, <1>4, <2>1 DEF IsPlain
  <2>3. i + 2 = r + 1
    BY <1>1, <2>2
  <2>. QED BY <1>4, <2>3
<1>5. ASSUME path[r + 1] = "kernel"
      PROVE  \E i \in 1..Len(path) - 3 :
               path[i] = "modules" /\ path[i + 1] = path[r] /\ path[i + 2] = "kernel"
  <2>1. Len(path) # r + 1
    BY <1>1, <1>5, ModuleAssumption
  <2>2. r - 1 \in 1..Len(path) - 3 /\ (r - 1) + 1 = r /\ (r - 1) + 2 = r + 1
    BY <1>1, <2>1
  <2>. QED BY <1>1, <1>5, <2>2
<1>6. inTreeKernelModule(path, path[r]) <=> path[r + 1] = "kernel"
  BY <1>3, <1>4, <1>5
<1>. QED BY <1>6 DEF moduleKernelRelease, r

(***************************************************************************)
(* A path names a release of its own below a place where the code finds a  *)
(* module that is not the kernel's own, and the code reads that release.   *)
(***************************************************************************)
LEMMA OwnPath ==
  ASSUME NEW path \in Seq(STRING), path # <<>>, IsModule(path) => IsPlain(path), NEW release
  PROVE  (\E p \in Places : /\ Last(path) \in ModuleNames
                            /\ IsStrictPrefix(p, path) /\ Len(path) > Len(p) + 1
                            /\ path[Len(p) + 2] # "kernel" /\ release = path[Len(p) + 1])
           <=> /\ IsModule(path) /\ ~inTreeKernelModule(path, moduleKernelRelease(path))
               /\ release = moduleKernelRelease(path)
<1>1. ASSUME NEW p \in Places, Last(path) \in ModuleNames,
             IsStrictPrefix(p, path), Len(path) > Len(p) + 1,
             path[Len(p) + 2] # "kernel", release = path[Len(p) + 1]
      PROVE  /\ IsModule(path) /\ ~inTreeKernelModule(path, moduleKernelRelease(path))
             /\ release = moduleKernelRelease(path)
  <2>1. /\ ReleaseAt(path) = Len(p) + 1 /\ Len(path) > ReleaseAt(path)
        /\ path[1] = "lib" \/ (path[1] = "usr" /\ path[2] = "lib")
        /\ path[Len(p)] = "modules" /\ Len(p) \in {2, 3}
    BY <1>1, PlaceFacts
  <2>2. ReleaseAt(path) - 1 = Len(p) /\ ReleaseAt(path) + 1 = Len(p) + 2
    BY <2>1
  <2>3. IsModule(path)
    BY <1>1, <2>1, <2>2 DEF IsModule
  <2>. QED BY <1>1, <2>1, <2>2, <2>3, InTree DEF moduleKernelRelease
<1>2. ASSUME IsModule(path), ~inTreeKernelModule(path, moduleKernelRelease(path)),
             release = moduleKernelRelease(path)
      PROVE  \E p \in Places : /\ Last(path) \in ModuleNames
                               /\ IsStrictPrefix(p, path) /\ Len(path) > Len(p) + 1
                               /\ path[Len(p) + 2] # "kernel" /\ release = path[Len(p) + 1]
  <2>1. PICK p \in Places : /\ IsStrictPrefix(p, path) /\ Len(path) > Len(p) + 1
                            /\ ReleaseAt(path) = Len(p) + 1
    BY <1>2, PlaceFacts DEF IsModule
  <2>2. Len(p) \in {2, 3} /\ ReleaseAt(path) + 1 = Len(p) + 2
    BY <2>1, PlaceFacts
  <2>3. path[Len(p) + 2] # "kernel"
    BY <1>2, <2>2, InTree
  <2>. QED BY <1>2, <2>1, <2>3 DEF IsModule, moduleKernelRelease
<1>. QED BY <1>1, <1>2

(***************************************************************************)
(* The releases that the code finds among the lines of CONTENTS are those  *)
(* the lines own modules for.                                              *)
(***************************************************************************)
LEMMA ReleasesAgree ==
  ASSUME NEW lines, \A l \in lines : IsLine(l),
         \A l \in lines : l[1] = "obj" /\ IsModule(l[2]) => IsPlain(l[2])
  PROVE  OwnReleases(lines) = {moduleKernelRelease(path) : path \in moduleFilesFromContents(lines)}
<1>. DEFINE Objects == {l[2] : l \in {k \in lines : k[1] = "obj"}}
<1>1. \A path \in Objects : path \in Seq(STRING) /\ path # <<>> /\ (IsModule(path) => IsPlain(path))
  BY DEF IsLine
<1>2. moduleFilesFromContents(lines) =
        {path \in Objects : IsModule(path) /\ ~inTreeKernelModule(path, moduleKernelRelease(path))}
  BY DEF moduleFilesFromContents
<1>3. \A p : OwnModules(lines, p) =
               {path \in Objects : /\ Last(path) \in ModuleNames
                                   /\ IsStrictPrefix(p, path) /\ Len(path) > Len(p) + 1
                                   /\ path[Len(p) + 2] # "kernel"}
  BY DEF OwnModules
<1>. HIDE DEF Objects
<1>4. ASSUME NEW release
      PROVE  release \in OwnReleases(lines)
               <=> \E path \in Objects : \E p \in Places :
                     /\ Last(path) \in ModuleNames
                     /\ IsStrictPrefix(p, path) /\ Len(path) > Len(p) + 1
                     /\ path[Len(p) + 2] # "kernel" /\ release = path[Len(p) + 1]
  BY <1>3 DEF OwnReleases
<1>5. ASSUME NEW release
      PROVE  release \in {moduleKernelRelease(path) : path \in moduleFilesFromContents(lines)}
               <=> \E path \in Objects :
                     /\ IsModule(path) /\ ~inTreeKernelModule(path, moduleKernelRelease(path))
                     /\ release = moduleKernelRelease(path)
  BY <1>2
<1>6. ASSUME NEW release
      PROVE  release \in OwnReleases(lines)
               <=> release \in {moduleKernelRelease(path) : path \in moduleFilesFromContents(lines)}
  <2>1. ASSUME NEW path \in Objects
        PROVE  (\E p \in Places : /\ Last(path) \in ModuleNames
                                  /\ IsStrictPrefix(p, path) /\ Len(path) > Len(p) + 1
                                  /\ path[Len(p) + 2] # "kernel" /\ release = path[Len(p) + 1])
                 <=> /\ IsModule(path) /\ ~inTreeKernelModule(path, moduleKernelRelease(path))
                     /\ release = moduleKernelRelease(path)
    BY <1>1, OwnPath
  <2>. QED BY <1>4, <1>5, <2>1
<1>. QED BY <1>6

-----------------------------------------------------------------------------
(* The answer                                                              *)

(***************************************************************************)
(* CONTENTS must be there, and is read when it is asked for.               *)
(***************************************************************************)
LEMMA ContentsFacts ==
  /\ CONTENTS \in FileSet /\ CONTENTS \in InspectedFiles
  /\ request.includeContents => CONTENTS \in Files
<1>. DEFINE Name == STRING \cup {CONTENTS}
<1>. DEFINE one == <<CONTENTS>>
<1>1. /\ Required \in Seq(Name) /\ Optional \in Seq(Name)
      /\ Len(Required) \in Nat /\ Len(Optional) \in Nat
  BY ScanAssumption, SeqMonotonic
<1>2. one \in Seq(Name) /\ Len(one) = 1 /\ one[1] = CONTENTS
  <2>1. ASSUME NEW S, NEW x \in S PROVE <<x>> \in Seq(S) /\ Len(<<x>>) = 1 /\ <<x>>[1] = x
    OBVIOUS
  <2>. QED BY <2>1
<1>. HIDE DEF Name, one
<1>3. CONTENTS \in InspectedFiles
  <2>1. (one \o Required)[1] = CONTENTS /\ Len(one \o Required) = 1 + Len(Required)
        /\ one \o Required \in Seq(Name)
    <3>1. 1 \in 1..Len(one) + Len(Required) /\ 1 <= Len(one)
      BY <1>1, <1>2
    <3>2. /\ one \o Required \in Seq(Name) /\ Len(one \o Required) = Len(one) + Len(Required)
          /\ (one \o Required)[1] = IF 1 <= Len(one) THEN one[1] ELSE Required[1 - Len(one)]
      BY <1>1, <1>2, <3>1, ConcatProperties
    <3>. QED BY <1>2, <3>2
  <2>2. Inspected = one \o Required
    BY DEF Inspected, one
  <2>3. 1 \in DOMAIN Inspected
    BY <1>1, <2>1, <2>2
  <2>. QED BY <2>1, <2>2, <2>3 DEF InspectedFiles
<1>4. ASSUME request.includeContents PROVE CONTENTS \in Files
  <2>. DEFINE n == Len(Required) + 1
  <2>. DEFINE first == Required \o one
  <2>1. /\ first \in Seq(Name) /\ Len(first) = n /\ n \in Nat /\ n >= 1
        /\ first[n] = CONTENTS
    <3>1. n \in 1..Len(Required) + Len(one) /\ ~(n <= Len(Required)) /\ n - Len(Required) = 1
      BY <1>1, <1>2
    <3>2. /\ Required \o one \in Seq(Name) /\ Len(Required \o one) = Len(Required) + Len(one)
          /\ (Required \o one)[n] = IF n <= Len(Required) THEN Required[n] ELSE one[n - Len(Required)]
      BY <1>1, <1>2, <3>1, ConcatProperties
    <3>. QED BY <1>1, <1>2, <3>1, <3>2
  <2>2. ReadOrder = first \o Optional
    BY <1>4 DEF ReadOrder, one
  <2>. HIDE DEF first, n
  <2>3. n \in 1..Len(first) + Len(Optional) /\ n <= Len(first)
    BY <1>1, <2>1
  <2>4. /\ first \o Optional \in Seq(Name) /\ Len(first \o Optional) = Len(first) + Len(Optional)
        /\ (first \o Optional)[n] = CONTENTS
    BY <1>1, <2>1, <2>3, ConcatProperties
  <2>5. n \in DOMAIN ReadOrder /\ ReadOrder[n] = CONTENTS
    BY <2>2, <2>3, <2>4
  <2>. QED BY <2>5 DEF Files
<1>. QED BY <1>3, <1>4 DEF InspectedFiles, FileSet

(***************************************************************************)
(* A package that is in the answer has the lines of CONTENTS it had at the *)
(* end of the reading, when it has no issue.                               *)
(***************************************************************************)
LEMMA LinesAreKept ==
  ASSUME TypeInv, ScanIsACut, EmptyInv, Answered, request.includeContents,
         NEW t \in Packages, ~HasIssue(t)
  PROVE  /\ t \in Records
         /\ value[t][CONTENTS] \in VersionNumbers /\ value[t][CONTENTS] # 0
         /\ boundary.file[t][CONTENTS] = value[t][CONTENTS]
         /\ LinesOf(t) = Lines[t][boundary.file[t][CONTENTS]]
<1>1. t \in Records /\ ok[t]
  BY DEF Packages, TypeInv, ListTypeOK
<1>2. value[t][CONTENTS] # 0
  BY <1>1, ContentsFacts DEF EmptyInv, KeptExplainedThen, ExplainedThen, AbsentThen
<1>3. value[t][CONTENTS] \in 0..clock /\ clock \in 1..MaxChange + 1
  BY <1>1, ContentsFacts DEF TypeInv, RecTypeOK, WorldTypeOK
<1>4. value[t][CONTENTS] \in VersionNumbers
  BY <1>2, <1>3, ScanAssumption DEF VersionNumbers
<1>5. boundary.file[t][CONTENTS] = value[t][CONTENTS]
  BY <1>2, ContentsFacts DEF ScanIsACut
<1>. QED BY <1>1, <1>2, <1>4, <1>5 DEF LinesOf

(***************************************************************************)
(* A package must be built again, by the code, when the lines it owns name *)
(* a release and not the target.                                           *)
(***************************************************************************)
LEMMA RebuildOf ==
  ASSUME PlainPaths, NEW t \in Records, NEW v \in VersionNumbers, NEW target, target # "",
         LinesOf(t) = Lines[t][v]
  PROVE  Rebuild(Modules(t), target) = "target_missing"
           <=> OwnReleases(Lines[t][v]) # {} /\ target \notin OwnReleases(Lines[t][v])
<1>. DEFINE lines == Lines[t][v]
<1>1. OwnReleases(lines) = {moduleKernelRelease(path) : path \in moduleFilesFromContents(lines)}
  <2>1. \A l \in lines : IsLine(l) /\ (l[1] = "obj" /\ IsModule(l[2]) => IsPlain(l[2]))
    BY ModuleAssumption DEF PlainPaths
  <2>. HIDE DEF lines
  <2>. QED BY <2>1, ReleasesAgree
<1>2. Modules(t) = moduleFilesFromContents(lines)
  BY DEF Modules
<1>. QED BY <1>1, <1>2 DEF Rebuild, hasModuleForKernel

(***************************************************************************)
(* The packages that the code says must be built again for a target are    *)
(* those that, at the end of the reading, owned modules and none for it:   *)
(* every package without an issue in a category that did not change.       *)
(***************************************************************************)
THEOREM RebuildsAreFoundAlways == PlainPaths => (Spec => []RebuildsAreFound)
<1>1. ASSUME PlainPaths, TypeInv, EmptyInv, ScanIsACut, NothingLost PROVE RebuildsAreFound
  <2>1. SUFFICES ASSUME Answered, request.includeContents,
                        NEW t \in Records, NEW target \in Targets \ {""},
                        ~HasIssue(t), Unchanged(CategoryOf[t])
                 PROVE  [package |-> t, rebuild |-> "target_missing"]
                          \in ClassifyInstalledKernelModules(target) <=> MustRebuild(t, target)
    BY DEF RebuildsAreFound
  <2>2. t \in Packages <=> t \in boundary.dir
    BY <1>1, <2>1 DEF ScanIsACut, NothingLost, Packages, TypeInv, ListTypeOK
  <2>3. [package |-> t, rebuild |-> "target_missing"] \in ClassifyInstalledKernelModules(target)
          <=> /\ t \in Packages /\ (LinuxMod(t) \/ Modules(t) # {})
              /\ Rebuild(Modules(t), target) = "target_missing"
    BY DEF ClassifyInstalledKernelModules
  <2>4. Rebuild(Modules(t), target) = "target_missing" => Modules(t) # {}
    BY DEF Rebuild
  <2>5. CASE t \in Packages
    <3>1. /\ value[t][CONTENTS] \in VersionNumbers /\ value[t][CONTENTS] # 0
          /\ boundary.file[t][CONTENTS] = value[t][CONTENTS]
          /\ LinesOf(t) = Lines[t][boundary.file[t][CONTENTS]]
      BY <1>1, <2>1, <2>5, LinesAreKept
    <3>2. boundary.file[t][CONTENTS] # 0
      BY <3>1
    <3>3. Rebuild(Modules(t), target) = "target_missing"
            <=> LET own == OwnReleases(Lines[t][boundary.file[t][CONTENTS]])
                IN own # {} /\ target \notin own
      BY <1>1, <2>1, <3>1, RebuildOf
    <3>. QED BY <2>2, <2>3, <2>4, <2>5, <3>2, <3>3 DEF MustRebuild
  <2>6. CASE t \notin Packages
    BY <2>2, <2>3, <2>6 DEF MustRebuild
  <2>. QED BY <2>5, <2>6
<1>2. ASSUME PlainPaths PROVE Spec => []RebuildsAreFound
  <2>1. TypeInv /\ EmptyInv /\ ScanIsACut /\ NothingLost => RebuildsAreFound
    BY <1>1, <1>2
  <2>. QED BY <2>1, ScanInvariant, ScanIsACutAlways, NothingLostAlways, PTL
<1>. QED BY <1>2
=============================================================================
