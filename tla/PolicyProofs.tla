----------------------------- MODULE PolicyProofs -----------------------------
(***************************************************************************)
(* The two walks of Policy are walks of DepthFirst, so what is proved of   *)
(* those holds of them.                                                    *)
(***************************************************************************)
EXTENDS Policy, TLAPS

MastersProofs == INSTANCE DepthFirstProofs WITH
  Nodes <- Repositories, Top <- Caller, Graphs <- RepositoryGraphs, graph <- repositoryGraph,
  calls <- repositoryCalls, order <- repositoryOrder, outcome <- repositoryOutcome
ParentsProofs == INSTANCE DepthFirstProofs WITH
  Nodes <- Directories, Top <- Caller, Graphs <- ProfileGraphs, graph <- profileGraph,
  calls <- profileCalls, order <- profileOrder, outcome <- profileOutcome

\* Every step of Policy is a step of the walk over repositories or leaves it alone.
LEMMA StepOfMasters == [Next]_vars => [Masters!WalkNext]_masterVars
<1>. SUFFICES ASSUME [Next]_vars PROVE [Masters!WalkNext]_masterVars
  OBVIOUS
<1>1. CASE WalkMasters
  BY <1>1 DEF WalkMasters
<1>2. CASE Next /\ ~WalkMasters
  BY <1>2 DEF Next, RepositoriesKnown, ReadGlobals, WalkParents, ProfileKnown, MergeLayer, LayersMerged,
    ReadDefaults, DefaultsRead, ReadMakeConf, ReadPackageUse, applyConfigEnvironment, ReadPackageKeywords,
    MaskRepository, RepositoriesMasked, MaskDirectory, DirectoriesMasked, MaskUser, Fail, Returned, vars
<1>3. CASE UNCHANGED vars
  BY <1>3 DEF vars
<1>. QED BY <1>1, <1>2, <1>3

\* Every step of Policy is a step of the walk over profiles or leaves it alone.
LEMMA StepOfParents == [Next]_vars => [Parents!WalkNext]_parentVars
<1>. SUFFICES ASSUME [Next]_vars PROVE [Parents!WalkNext]_parentVars
  OBVIOUS
<1>1. CASE WalkParents
  BY <1>1 DEF WalkParents
<1>2. CASE Next /\ ~WalkParents
  BY <1>2 DEF Next, WalkMasters, RepositoriesKnown, ReadGlobals, ProfileKnown, MergeLayer, LayersMerged,
    ReadDefaults, DefaultsRead, ReadMakeConf, ReadPackageUse, applyConfigEnvironment, ReadPackageKeywords,
    MaskRepository, RepositoriesMasked, MaskDirectory, DirectoriesMasked, MaskUser, Fail, Returned, vars
<1>3. CASE UNCHANGED vars
  BY <1>3 DEF vars
<1>. QED BY <1>1, <1>2, <1>3

\* The invariant of the walk over repositories, from the proofs of DepthFirst.
LEMMA MastersInductive ==
  /\ Masters!WalkInit => MastersProofs!WalkInv
  /\ MastersProofs!WalkInv /\ [Masters!WalkNext]_masterVars => MastersProofs!WalkInv'
  /\ MastersProofs!WalkInv => Masters!ParentsFirst
<1>1. Masters!WalkInit => MastersProofs!WalkInv
  BY PolicyAssumption, MastersProofs!WalkInitInv
    DEF Masters!GraphAssumption, MastersProofs!GraphAssumption, Masters!IsFiniteSet, MastersProofs!IsFiniteSet, Masters!WalkInit, MastersProofs!WalkInit
<1>2. [Masters!WalkNext]_masterVars => [MastersProofs!WalkNext]_(MastersProofs!walkVars)
  BY DEF Masters!WalkNext, MastersProofs!WalkNext, masterVars, MastersProofs!walkVars,
    Masters!Called, Masters!Calls, Masters!Open, Masters!Closed, Masters!Innermost,
    Masters!Elements, Masters!FindCycle, Masters!Skip, Masters!Reject, Masters!Enter, Masters!Leave,
    Masters!WalkReturns,
    MastersProofs!Called, MastersProofs!Calls, MastersProofs!Open, MastersProofs!Closed,
    MastersProofs!Innermost, MastersProofs!Elements, MastersProofs!FindCycle, MastersProofs!Skip,
    MastersProofs!Reject, MastersProofs!Enter, MastersProofs!Leave, MastersProofs!WalkReturns
<1>3. MastersProofs!ParentsFirst => Masters!ParentsFirst
  BY DEF MastersProofs!ParentsFirst, Masters!ParentsFirst, MastersProofs!Elements, Masters!Elements
<1>. QED BY <1>1, <1>2, <1>3, MastersProofs!WalkNextInv, MastersProofs!OrderedIsParentsFirst

\* The invariant of the walk over profiles, from the proofs of DepthFirst.
LEMMA ParentsInductive ==
  /\ Parents!WalkInit => ParentsProofs!WalkInv
  /\ ParentsProofs!WalkInv /\ [Parents!WalkNext]_parentVars => ParentsProofs!WalkInv'
  /\ ParentsProofs!WalkInv => Parents!ParentsFirst
<1>1. Parents!WalkInit => ParentsProofs!WalkInv
  BY PolicyAssumption, ParentsProofs!WalkInitInv
    DEF Parents!GraphAssumption, ParentsProofs!GraphAssumption, Parents!IsFiniteSet, ParentsProofs!IsFiniteSet, Parents!WalkInit, ParentsProofs!WalkInit
<1>2. [Parents!WalkNext]_parentVars => [ParentsProofs!WalkNext]_(ParentsProofs!walkVars)
  BY DEF Parents!WalkNext, ParentsProofs!WalkNext, parentVars, ParentsProofs!walkVars,
    Parents!Called, Parents!Calls, Parents!Open, Parents!Closed, Parents!Innermost,
    Parents!Elements, Parents!FindCycle, Parents!Skip, Parents!Reject, Parents!Enter, Parents!Leave,
    Parents!WalkReturns,
    ParentsProofs!Called, ParentsProofs!Calls, ParentsProofs!Open, ParentsProofs!Closed,
    ParentsProofs!Innermost, ParentsProofs!Elements, ParentsProofs!FindCycle, ParentsProofs!Skip,
    ParentsProofs!Reject, ParentsProofs!Enter, ParentsProofs!Leave, ParentsProofs!WalkReturns
<1>3. ParentsProofs!ParentsFirst => Parents!ParentsFirst
  BY DEF ParentsProofs!ParentsFirst, Parents!ParentsFirst, ParentsProofs!Elements, Parents!Elements
<1>. QED BY <1>1, <1>2, <1>3, ParentsProofs!WalkNextInv, ParentsProofs!OrderedIsParentsFirst

\* The walk over repositories ends with what is true of the graph, from the proofs of DepthFirst.
LEMMA MastersOutcome ==
  /\ Masters!WalkInit => MastersProofs!ReachInv /\ MastersProofs!OutcomeIsRight
  /\ MastersProofs!WalkInv /\ MastersProofs!ReachInv /\ MastersProofs!OutcomeIsRight /\ [Masters!WalkNext]_masterVars
       => MastersProofs!ReachInv' /\ MastersProofs!OutcomeIsRight'
  /\ MastersProofs!OutcomeIsRight => Masters!OutcomeIsRight
<1>1. Masters!WalkInit => MastersProofs!ReachInv
  BY PolicyAssumption, MastersProofs!ReachInit
    DEF Masters!GraphAssumption, MastersProofs!GraphAssumption, Masters!IsFiniteSet, MastersProofs!IsFiniteSet, Masters!WalkInit, MastersProofs!WalkInit
<1>2. Masters!WalkInit => MastersProofs!OutcomeIsRight
  BY DEF Masters!WalkInit, MastersProofs!OutcomeIsRight
<1>3. [Masters!WalkNext]_masterVars => [MastersProofs!WalkNext]_(MastersProofs!walkVars)
  BY DEF Masters!WalkNext, MastersProofs!WalkNext, masterVars, MastersProofs!walkVars,
    Masters!Called, Masters!Calls, Masters!Open, Masters!Closed, Masters!Innermost,
    Masters!Elements, Masters!FindCycle, Masters!Skip, Masters!Reject, Masters!Enter, Masters!Leave,
    Masters!WalkReturns,
    MastersProofs!Called, MastersProofs!Calls, MastersProofs!Open, MastersProofs!Closed,
    MastersProofs!Innermost, MastersProofs!Elements, MastersProofs!FindCycle, MastersProofs!Skip,
    MastersProofs!Reject, MastersProofs!Enter, MastersProofs!Leave, MastersProofs!WalkReturns
<1>4. MastersProofs!OutcomeIsRight => Masters!OutcomeIsRight
  BY DEF MastersProofs!OutcomeIsRight, Masters!OutcomeIsRight, MastersProofs!Wanted, Masters!Wanted, MastersProofs!OnCycle, Masters!OnCycle,
    MastersProofs!Above, Masters!Above, MastersProofs!IsClosed, Masters!IsClosed, MastersProofs!Elements, Masters!Elements
<1>. QED BY <1>1, <1>2, <1>3, <1>4, MastersProofs!ReachNext, MastersProofs!OutcomeNext

\* The walk over profiles ends with what is true of the graph, from the proofs of DepthFirst.
LEMMA ParentsOutcome ==
  /\ Parents!WalkInit => ParentsProofs!ReachInv /\ ParentsProofs!OutcomeIsRight
  /\ ParentsProofs!WalkInv /\ ParentsProofs!ReachInv /\ ParentsProofs!OutcomeIsRight /\ [Parents!WalkNext]_parentVars
       => ParentsProofs!ReachInv' /\ ParentsProofs!OutcomeIsRight'
  /\ ParentsProofs!OutcomeIsRight => Parents!OutcomeIsRight
<1>1. Parents!WalkInit => ParentsProofs!ReachInv
  BY PolicyAssumption, ParentsProofs!ReachInit
    DEF Parents!GraphAssumption, ParentsProofs!GraphAssumption, Parents!IsFiniteSet, ParentsProofs!IsFiniteSet, Parents!WalkInit, ParentsProofs!WalkInit
<1>2. Parents!WalkInit => ParentsProofs!OutcomeIsRight
  BY DEF Parents!WalkInit, ParentsProofs!OutcomeIsRight
<1>3. [Parents!WalkNext]_parentVars => [ParentsProofs!WalkNext]_(ParentsProofs!walkVars)
  BY DEF Parents!WalkNext, ParentsProofs!WalkNext, parentVars, ParentsProofs!walkVars,
    Parents!Called, Parents!Calls, Parents!Open, Parents!Closed, Parents!Innermost,
    Parents!Elements, Parents!FindCycle, Parents!Skip, Parents!Reject, Parents!Enter, Parents!Leave,
    Parents!WalkReturns,
    ParentsProofs!Called, ParentsProofs!Calls, ParentsProofs!Open, ParentsProofs!Closed,
    ParentsProofs!Innermost, ParentsProofs!Elements, ParentsProofs!FindCycle, ParentsProofs!Skip,
    ParentsProofs!Reject, ParentsProofs!Enter, ParentsProofs!Leave, ParentsProofs!WalkReturns
<1>4. ParentsProofs!OutcomeIsRight => Parents!OutcomeIsRight
  BY DEF ParentsProofs!OutcomeIsRight, Parents!OutcomeIsRight, ParentsProofs!Wanted, Parents!Wanted, ParentsProofs!OnCycle, Parents!OnCycle,
    ParentsProofs!Above, Parents!Above, ParentsProofs!IsClosed, Parents!IsClosed, ParentsProofs!Elements, Parents!Elements
<1>. QED BY <1>1, <1>2, <1>3, <1>4, ParentsProofs!ReachNext, ParentsProofs!OutcomeNext

(***************************************************************************)
(* Whatever the repositories and profiles on disk, at every step of        *)
(* ReadEffectiveConfig both orders have parents before children            *)
(* (repositories.go, profile.go).                                          *)
(***************************************************************************)
THEOREM WalksInOrderAlways == Spec => []WalksInOrder
<1>1. Init => Masters!WalkInit /\ Parents!WalkInit
  BY DEF Init
<1>2. Spec => []Masters!ParentsFirst
  BY <1>1, StepOfMasters, MastersInductive, PTL DEF Spec
<1>3. Spec => []Parents!ParentsFirst
  BY <1>1, StepOfParents, ParentsInductive, PTL DEF Spec
<1>. QED BY <1>2, <1>3, PTL DEF WalksInOrder

(***************************************************************************)
(* Whatever the repositories and profiles on disk, both walks say in the   *)
(* end what is true of the graph: which nodes there are to inherit from,   *)
(* and that a cycle or an unusable node that they report is one            *)
(* (orderRepositories, collectProfile).                                    *)
(***************************************************************************)
THEOREM WalksAreRightAlways == Spec => []WalksAreRight
<1>1. Init => Masters!WalkInit /\ Parents!WalkInit
  BY DEF Init
<1>2. Spec => []Masters!OutcomeIsRight
  BY <1>1, StepOfMasters, MastersInductive, MastersOutcome, PTL DEF Spec
<1>3. Spec => []Parents!OutcomeIsRight
  BY <1>1, StepOfParents, ParentsInductive, ParentsOutcome, PTL DEF Spec
<1>. QED BY <1>2, <1>3, PTL DEF WalksAreRight
-----------------------------------------------------------------------------
(* Stable packages                                                         *)

UseFields == {"layers", "profileUse", "packageUse", "userUse", "userPackageUse", "commandUse"}

\* The configuration has the fields that EvaluateUse reads, and its layers are
\* layers that the files of the dialect can spell.
ShapeInv == UseFields \subseteq DOMAIN config /\ config.layers \in Seq(LayerContents)

\* A fresh configuration has every field, and no layer.
LEMMA NoConfigShape ==
  UseFields \subseteq DOMAIN NoConfig /\ NoConfig.layers \in Seq(LayerContents)
BY DEF UseFields, NoConfig

\* Merging a layer appends it and keeps the fields.
LEMMA MergeShape ==
  ASSUME ShapeInv, NEW layer \in LayerContents
  PROVE  LET c == mergeProfileLayer(config, layer)
         IN UseFields \subseteq DOMAIN c /\ c.layers \in Seq(LayerContents)
<1>. DEFINE c == mergeProfileLayer(config, layer)
<1>1. DOMAIN c = DOMAIN config
  BY DEF mergeProfileLayer
<1>2. "layers" \in DOMAIN config => c.layers = Append(config.layers, layer)
  BY DEF mergeProfileLayer
<1>. HIDE DEF c
<1>3. UseFields \subseteq DOMAIN c
  BY <1>1 DEF ShapeInv
<1>4. c.layers = Append(config.layers, layer)
  BY <1>2 DEF ShapeInv, UseFields
<1>5. c.layers \in Seq(LayerContents)
  BY <1>4 DEF ShapeInv
<1>. QED BY <1>3, <1>5 DEF c

\* Whatever is read, the configuration keeps its shape.
LEMMA ShapeStep == ShapeInv /\ [Next]_vars => ShapeInv'
<1>. SUFFICES ASSUME ShapeInv, [Next]_vars PROVE ShapeInv'
  OBVIOUS
<1>1. dialect' = dialect
  BY DEF Next, WalkMasters, RepositoriesKnown, ReadGlobals, WalkParents, ProfileKnown, MergeLayer,
    LayersMerged, ReadDefaults, DefaultsRead, ReadMakeConf, ReadPackageUse, applyConfigEnvironment,
    ReadPackageKeywords, MaskRepository, RepositoriesMasked, MaskDirectory, DirectoriesMasked, MaskUser,
    Fail, Returned, Goes, Turn, Over, vars
<1>2. LayerContents' = LayerContents
  BY <1>1 DEF LayerContents, Content
<1>. SUFFICES UseFields \subseteq DOMAIN config' /\ config'.layers \in Seq(LayerContents)
  BY <1>2 DEF ShapeInv, UseFields
<1>3. CASE config' = config
  BY <1>3 DEF ShapeInv
<1>4. CASE MergeLayer
  BY <1>4, MergeShape DEF MergeLayer
<1>5. CASE RepositoriesKnown \/ ProfileKnown \/ ReadMakeConf \/ ReadPackageUse
  BY <1>5 DEF RepositoriesKnown, ProfileKnown, ReadMakeConf, ReadPackageUse, ShapeInv, UseFields
<1>6. CASE applyConfigEnvironment
  BY <1>6 DEF applyConfigEnvironment, ShapeInv, UseFields
<1>7. CASE ReadPackageKeywords \/ MaskRepository \/ MaskDirectory \/ MaskUser
  BY <1>7 DEF ReadPackageKeywords, MaskRepository, MaskDirectory, MaskUser, Mask, ShapeInv, UseFields
<1>8. CASE Fail
  BY <1>8, NoConfigShape DEF Fail
<1>9. CASE WalkMasters \/ ReadGlobals \/ WalkParents \/ LayersMerged \/ ReadDefaults \/ DefaultsRead
           \/ RepositoriesMasked \/ DirectoriesMasked \/ Returned \/ UNCHANGED vars
  BY <1>3, <1>9 DEF WalkMasters, ReadGlobals, WalkParents, LayersMerged, ReadDefaults, DefaultsRead,
    RepositoriesMasked, DirectoriesMasked, Returned, vars, readVars
<1>. QED BY <1>4, <1>5, <1>6, <1>7, <1>8, <1>9 DEF Next

\* No words are no changes.
LEMMA NothingSaid ==
  /\ \A kind : Tagged(kind, <<>>) = <<>>
  /\ MatchingChanges(<<>>) = <<>>
<1>1. \A kind : Tagged(kind, <<>>) = <<>>
  BY DEF Tagged
<1>2. FlattenSeq(<<>>) = <<>>
  BY DEF FlattenSeq
<1>3. MatchingChanges(<<>>) = FlattenSeq(<<>>)
  BY DEF MatchingChanges
<1>. QED BY <1>1, <1>2, <1>3

\* a layer with the policy for stable packages struck out
Struck(layer) ==
  [layer EXCEPT !.stableForce = <<>>, !.stableMask = <<>>,
                !.packageStableForce = <<>>, !.packageStableMask = <<>>]

\* A package that is not stable meets of a layer what a stable one meets of the
\* layer that has no policy for those.
LEMMA StruckLayer ==
  ASSUME NEW layer \in LayerContents, NEW stable \in BOOLEAN
  PROVE  LayerForceMask(layer, FALSE) = LayerForceMask(Struck(layer), stable)
<1>. DEFINE s == Struck(layer)
<1>1. /\ s.useForce = layer.useForce /\ s.useMask = layer.useMask
      /\ s.packageForce = layer.packageForce /\ s.packageMask = layer.packageMask
      /\ s.stableForce = <<>> /\ s.stableMask = <<>>
      /\ s.packageStableForce = <<>> /\ s.packageStableMask = <<>>
  BY DEF Struck, LayerContents
<1>2. <<>> \o <<>> = <<>>
  OBVIOUS
<1>. HIDE DEF s
<1>3. LayerForceMask(s, FALSE) = LayerForceMask(layer, FALSE)
  BY <1>1 DEF LayerForceMask
<1>4. LayerForceMask(s, TRUE) = LayerForceMask(layer, FALSE)
  BY <1>1, <1>2, NothingSaid DEF LayerForceMask
<1>5. stable = TRUE \/ stable = FALSE
  OBVIOUS
<1>. QED BY <1>3, <1>4, <1>5 DEF s

(***************************************************************************)
(* Whatever the files say, the flags of a package that is not stable, and  *)
(* their evidence, are what they are without the policy for stable ones    *)
(* (use.go, EvaluateUse).                                                  *)
(***************************************************************************)
THEOREM StableOnlyForStableAlways == Spec => []StableOnlyForStable
<1>1. Init => ShapeInv
  BY NoConfigShape DEF Init, ShapeInv
<1>2. ShapeInv => StableOnlyForStable
  <2>. SUFFICES ASSUME ShapeInv, NEW declared, NEW stable \in BOOLEAN
                PROVE  EvaluateUse(config, declared, FALSE) = EvaluateUse(Unstable(config), declared, stable)
    <3>1. \A e \in Evaluations : e[2] \in BOOLEAN
      BY DEF Evaluations
    <3>. QED BY <3>1 DEF StableOnlyForStable
  <2>. DEFINE u == Unstable(config)
  <2>1. /\ DOMAIN u.layers = DOMAIN config.layers
        /\ \A i \in DOMAIN config.layers : u.layers[i] = Struck(config.layers[i])
    BY DEF Unstable, Struck, ShapeInv, UseFields
  <2>2. Ordinary(u) = Ordinary(config)
    BY DEF Unstable, Ordinary, ShapeInv, UseFields
  <2>. HIDE DEF u
  <2>3. \A i \in DOMAIN config.layers :
          LayerForceMask(config.layers[i], FALSE) = LayerForceMask(u.layers[i], stable)
    <3>1. \A i \in DOMAIN config.layers : config.layers[i] \in LayerContents
      BY DEF ShapeInv
    <3>. QED BY <2>1, <3>1, StruckLayer
  <2>4. [i \in DOMAIN config.layers |-> LayerForceMask(config.layers[i], FALSE)]
          = [i \in DOMAIN u.layers |-> LayerForceMask(u.layers[i], stable)]
    BY <2>1, <2>3
  <2>. QED BY <2>2, <2>4 DEF EvaluateUse, u
<1>. QED BY <1>1, <1>2, ShapeStep, PTL DEF Spec
-----------------------------------------------------------------------------
(* What the folds and the joined lists of Policy are, whatever the lists   *)

ProfileFolds == INSTANCE SequenceFolds WITH Op <- ProfileChange
MaskFolds == INSTANCE SequenceFolds WITH Op <- MaskChange
MergeFolds == INSTANCE SequenceFolds WITH Op <- MergeAssignment
KeywordFolds == INSTANCE SequenceFolds WITH Op <- applyKeywordChange
UseFolds == INSTANCE SequenceFolds WITH Op <- applyChange
ForceFolds == INSTANCE SequenceFolds WITH Op <- applyForceMask

\* The names that a word may have, and words.
Names == STRING \cup {"*"} \cup Atoms \cup Architectures \cup Range(TestingOf)
           \cup {FlagOf[p] : p \in STRING \X STRING}
AnyWords == [name : Names, enabled : BOOLEAN, reference : BOOLEAN]
AnyRules == [atom : Atoms, changes : Seq(AnyWords)]

\* The lists and variables of Policy are what SequenceFolds folds.
LEMMA FoldsOfPolicy ==
  /\ \A b, q : applyProfileChanges(b, q) = ProfileFolds!Fold(b, q)
  /\ \A b, q : applyPackageMaskChanges(b, q) = MaskFolds!Fold(b, q)
  /\ \A b, q : mergeConfigValues(b, q) = MergeFolds!Fold(b, q)
  /\ \A b, q : applyKeywordChanges(b, q) = KeywordFolds!Fold(b, q)
<1>1. \A b, q : applyProfileChanges(b, q) = ProfileFolds!Fold(b, q)
  BY DEF applyProfileChanges, ProfileFolds!Fold, FoldLeft, ProfileFolds!FoldLeft, MapThenFoldSet,
    ProfileFolds!MapThenFoldSet, Max, ProfileFolds!Max
<1>2. \A b, q : applyPackageMaskChanges(b, q) = MaskFolds!Fold(b, q)
  BY DEF applyPackageMaskChanges, MaskFolds!Fold, FoldLeft, MaskFolds!FoldLeft, MapThenFoldSet,
    MaskFolds!MapThenFoldSet, Max, MaskFolds!Max
<1>3. \A b, q : mergeConfigValues(b, q) = MergeFolds!Fold(b, q)
  BY DEF mergeConfigValues, MergeFolds!Fold, FoldLeft, MergeFolds!FoldLeft, MapThenFoldSet,
    MergeFolds!MapThenFoldSet, Max, MergeFolds!Max
<1>4. \A b, q : applyKeywordChanges(b, q) = KeywordFolds!Fold(b, q)
  BY DEF applyKeywordChanges, KeywordFolds!Fold, FoldLeft, KeywordFolds!FoldLeft, MapThenFoldSet,
    KeywordFolds!MapThenFoldSet, Max, KeywordFolds!Max
<1>. QED BY <1>1, <1>2, <1>3, <1>4

\* What the elements of q stand for, in order.
Collect(f, q) == FlattenSeq([i \in DOMAIN q |-> f[q[i]]])

\* It is the Collect of SequenceFolds.
LEMMA CollectOfFolds == \A f, q : Collect(f, q) = ProfileFolds!Collect(f, q)
BY DEF Collect, ProfileFolds!Collect, ProfileFolds!Mapped, ProfileFolds!Join, FlattenSeq, ProfileFolds!FlattenSeq

\* What is collected from typed lists is typed, and elements without any add nothing.
LEMMA Collected ==
  ASSUME NEW T, NEW U, NEW f \in [T -> Seq(U)], NEW q \in Seq(T)
  PROVE  /\ Collect(f, q) \in Seq(U)
         /\ Collect(f, <<>>) = <<>>
         /\ (\A i \in DOMAIN q : f[q[i]] = <<>>) => Collect(f, q) = <<>>
         /\ \A x : x \in Range(Collect(f, q)) <=> \E i \in DOMAIN q : x \in Range(f[q[i]])
<1>1. \A x : x \in ProfileFolds!Range(ProfileFolds!Collect(f, q)) <=>
             \E i \in DOMAIN q : x \in ProfileFolds!Range(f[q[i]])
  BY ProfileFolds!CollectRange
<1>2. \A x : x \in Range(Collect(f, q)) <=> \E i \in DOMAIN q : x \in Range(f[q[i]])
  BY <1>1, CollectOfFolds DEF Range, ProfileFolds!Range
<1>3. Collect(f, q) \in Seq(U)
  BY CollectOfFolds, ProfileFolds!CollectType
<1>4. Collect(f, <<>>) = <<>>
  BY CollectOfFolds, ProfileFolds!CollectEmpty
<1>5. (\A i \in DOMAIN q : f[q[i]] = <<>>) => Collect(f, q) = <<>>
  BY CollectOfFolds, ProfileFolds!CollectNothing
<1>. QED BY <1>2, <1>3, <1>4, <1>5

\* One element more adds what it stands for.
LEMMA CollectedAppend ==
  ASSUME NEW T, NEW U, NEW f \in [T -> Seq(U)], NEW q \in Seq(T), NEW e \in T
  PROVE  Collect(f, Append(q, e)) = Collect(f, q) \o f[e]
BY CollectOfFolds, ProfileFolds!CollectAppend

\* Taking a value out takes it out wherever it is, and nothing else.
LEMMA WithoutFacts ==
  ASSUME NEW T, NEW list \in Seq(T), NEW value
  PROVE  Without(list, value) \in Seq(T) /\ Range(Without(list, value)) = Range(list) \ {value}
<1>. DEFINE f == [x \in T |-> IF x = value THEN <<>> ELSE <<x>>]
<1>1. f \in [T -> Seq(T)]
  OBVIOUS
<1>2. Without(list, value) = Collect(f, list)
  <2>1. \A i \in DOMAIN list : f[list[i]] = IF list[i] = value THEN <<>> ELSE <<list[i]>>
    OBVIOUS
  <2>2. [i \in DOMAIN list |-> IF list[i] = value THEN <<>> ELSE <<list[i]>>] = [i \in DOMAIN list |-> f[list[i]]]
    BY <2>1
  <2>. HIDE DEF f
  <2>. QED BY <2>2 DEF Without, Collect
<1>3. \A x \in T : \A y : y \in Range(f[x]) <=> x # value /\ y = x
  BY DEF Range
<1>. HIDE DEF f
<1>4. Collect(f, list) \in Seq(T)
  BY <1>1, Collected
<1>5. \A x : x \in Range(Collect(f, list)) <=> \E i \in DOMAIN list : x \in Range(f[list[i]])
  BY <1>1, Collected
<1>6. \A i \in DOMAIN list : \A x : x \in Range(f[list[i]]) <=> x # value /\ x = list[i]
  BY <1>3
<1>7. \A x : x \in Range(Collect(f, list)) <=> x # value /\ \E i \in DOMAIN list : x = list[i]
  BY <1>5, <1>6
<1>8. \A x : x \in Range(list) <=> \E i \in DOMAIN list : x = list[i]
  BY DEF Range
<1>. QED BY <1>2, <1>4, <1>7, <1>8

-----------------------------------------------------------------------------
(* Types                                                                   *)

MaskWords == {w \in Words : w.name \in Atoms}
VariableSet == UNION {[D -> Seq(Words)] : D \in SUBSET STRING}

\* Words of files are words.
LEMMA WordsAreWords ==
  /\ Words \subseteq AnyWords /\ RawWords \subseteq AnyWords /\ Rules \subseteq AnyRules
  /\ \A word \in RawWords : ~word.reference => word \in Words
<1>1. STRING \subseteq Names
  BY DEF Names
<1>2. Words \subseteq AnyWords /\ RawWords \subseteq AnyWords
  BY <1>1 DEF Words, RawWords, AnyWords
<1>3. Seq(Words) \subseteq Seq(AnyWords)
  BY <1>2
<1>4. Rules \subseteq AnyRules
  BY <1>3 DEF Rules, AnyRules
<1>5. \A word \in RawWords : ~word.reference => word \in Words
  BY DEF Words, RawWords
<1>. QED BY <1>2, <1>4, <1>5

\* A file has what its parser can make of it.
LEMMA ContentType ==
  ASSUME dialect \in Dialects, NEW file
  PROVE  /\ Content(file) \subseteq Parsed(file)
         /\ \A path : ContentIf(path, file) \subseteq Parsed(file)
<1>1. <<>> \in Parsed(file)
  BY DEF Parsed
<1>2. Content(file) \subseteq Parsed(file)
  BY <1>1, PolicyAssumption DEF Content
<1>. QED BY <1>1, <1>2 DEF ContentIf

\* A layer has lists of assignments, of words and of rules.
LEMMA LayerTypes ==
  ASSUME dialect \in Dialects, NEW layer \in LayerContents
  PROVE  /\ layer.makeDefaults \in Seq(Assignments)
         /\ layer.system \in Seq(Words) /\ layer.useForce \in Seq(Words) /\ layer.useMask \in Seq(Words)
         /\ layer.stableForce \in Seq(Words) /\ layer.stableMask \in Seq(Words)
         /\ layer.packageUse \in Seq(Rules)
         /\ layer.packageForce \in Seq(Rules) /\ layer.packageMask \in Seq(Rules)
         /\ layer.packageStableForce \in Seq(Rules) /\ layer.packageStableMask \in Seq(Rules)
<1>1. /\ layer.makeDefaults \in Content("make.defaults") /\ layer.system \in Content("packages")
      /\ layer.useForce \in Content("use.force") /\ layer.useMask \in Content("use.mask")
      /\ layer.stableForce \in Content("use.stable.force") /\ layer.stableMask \in Content("use.stable.mask")
      /\ layer.packageUse \in Content("profile package.use")
      /\ layer.packageForce \in Content("package.use.force") /\ layer.packageMask \in Content("package.use.mask")
      /\ layer.packageStableForce \in Content("package.use.stable.force")
      /\ layer.packageStableMask \in Content("package.use.stable.mask")
  BY DEF LayerContents
<1>2. /\ Parsed("make.defaults") = Seq(Assignments)
      /\ \A file \in {"packages", "use.force", "use.mask", "use.stable.force", "use.stable.mask"} :
           Parsed(file) = Seq(Words)
      /\ \A file \in RuleFiles : Parsed(file) = Seq(Rules)
  BY DEF Parsed, AssignmentFiles, RuleFiles, MaskFiles
<1>3. \A file : Content(file) \subseteq Parsed(file)
  BY ContentType
<1>. QED BY <1>1, <1>2, <1>3 DEF RuleFiles

\* A list of names stays one.
LEMMA ProfileChangeType ==
  ASSUME NEW list \in Seq(STRING), NEW change \in Words
  PROVE  ProfileChange(list, change) \in Seq(STRING)
<1>1. Without(list, change.name) \in Seq(STRING)
  BY WithoutFacts
<1>2. change.name \in STRING
  BY DEF Words
<1>3. Append(list, change.name) \in Seq(STRING)
  BY <1>2
<1>. QED BY <1>1, <1>3 DEF ProfileChange

\* So it does after many changes.
LEMMA ProfileChangesType ==
  ASSUME NEW list \in Seq(STRING), NEW changes \in Seq(Words)
  PROVE  applyProfileChanges(list, changes) \in Seq(STRING)
<1>1. \A names \in Seq(STRING), change \in Words : ProfileChange(names, change) \in Seq(STRING)
  BY ProfileChangeType
<1>2. ProfileFolds!Fold(list, changes) \in Seq(STRING)
  BY <1>1, ProfileFolds!FoldInvariant
<1>. QED BY <1>2, FoldsOfPolicy

\* A list of masks stays one.
LEMMA MaskChangeType ==
  ASSUME NEW rules \in Seq([atom : Atoms]), NEW change \in MaskWords
  PROVE  MaskChange(rules, change) \in Seq([atom : Atoms])
<1>1. Without(rules, [atom |-> change.name]) \in Seq([atom : Atoms])
  BY WithoutFacts
<1>2. [atom |-> change.name] \in [atom : Atoms]
  BY DEF MaskWords
<1>3. Append(rules, [atom |-> change.name]) \in Seq([atom : Atoms])
  BY <1>2
<1>. QED BY <1>1, <1>3 DEF MaskChange

\* So it does after many changes.
LEMMA MaskChangesType ==
  ASSUME NEW list \in Seq([atom : Atoms]), NEW changes \in Seq(MaskWords)
  PROVE  applyPackageMaskChanges(list, changes) \in Seq([atom : Atoms])
<1>1. \A rules \in Seq([atom : Atoms]), change \in MaskWords : MaskChange(rules, change) \in Seq([atom : Atoms])
  BY MaskChangeType
<1>2. MaskFolds!Fold(list, changes) \in Seq([atom : Atoms])
  BY <1>1, MaskFolds!FoldInvariant
<1>. QED BY <1>2, FoldsOfPolicy

\* A variable has words, or nothing.
LEMMA ValueType ==
  ASSUME NEW variables \in VariableSet
  PROVE  \A name : Value(variables, name) \in Seq(Words)
<1>1. PICK D \in SUBSET STRING : variables \in [D -> Seq(Words)]
  BY DEF VariableSet
<1>2. DOMAIN variables = D
  BY <1>1
<1>3. \A name \in D : variables[name] \in Seq(Words)
  BY <1>1
<1>4. <<>> \in Seq(Words)
  OBVIOUS
<1>. QED BY <1>2, <1>3, <1>4 DEF Value

\* No reference is left in what is expanded.
LEMMA ExpandedType ==
  ASSUME NEW variables \in VariableSet, NEW value \in Seq(RawWords)
  PROVE  Expanded(variables, value) \in Seq(Words)
<1>. DEFINE f == [word \in RawWords |-> IF word.reference THEN Value(variables, word.name) ELSE <<word>>]
<1>1. f \in [RawWords -> Seq(Words)]
  <2>1. ASSUME NEW word \in RawWords, ~word.reference PROVE <<word>> \in Seq(Words)
    BY <2>1, WordsAreWords
  <2>. QED BY <2>1, ValueType
<1>2. Expanded(variables, value) = Collect(f, value)
  <2>1. \A i \in DOMAIN value :
          f[value[i]] = IF value[i].reference THEN Value(variables, value[i].name) ELSE <<value[i]>>
    OBVIOUS
  <2>2. [i \in DOMAIN value |-> IF value[i].reference THEN Value(variables, value[i].name) ELSE <<value[i]>>]
          = [i \in DOMAIN value |-> f[value[i]]]
    BY <2>1
  <2>. HIDE DEF f
  <2>. QED BY <2>2 DEF Expanded, Collect
<1>. HIDE DEF f
<1>. QED BY <1>1, <1>2, Collected

\* Merged assignments keep the variables free of references.
LEMMA MergedType ==
  ASSUME NEW variables \in VariableSet, NEW file \in Seq(Assignments)
  PROVE  mergeConfigValues(variables, file) \in VariableSet
<1>1. ASSUME NEW known \in VariableSet, NEW a \in Assignments PROVE MergeAssignment(known, a) \in VariableSet
  <2>1. a.name \in STRING /\ a.value \in Seq(RawWords)
    BY DEF Assignments
  <2>. DEFINE value == (IF a.name \in Incremental THEN Value(known, a.name) ELSE <<>>) \o Expanded(known, a.value)
  <2>2. value \in Seq(Words)
    BY <2>1, ValueType, ExpandedType
  <2>. HIDE DEF value
  <2>3. PICK D \in SUBSET STRING : known \in [D -> Seq(Words)]
    BY DEF VariableSet
  <2>4. Assign(known, a.name, value) \in [D \cup {a.name} -> Seq(Words)]
    BY <2>2, <2>3 DEF Assign
  <2>5. D \cup {a.name} \in SUBSET STRING
    BY <2>1
  <2>6. Assign(known, a.name, value) \in VariableSet
    BY <2>4, <2>5 DEF VariableSet
  <2>. QED BY <2>6 DEF MergeAssignment, value
<1>2. MergeFolds!Fold(variables, file) \in VariableSet
  BY <1>1, MergeFolds!FoldInvariant
<1>. QED BY <1>2, FoldsOfPolicy

LayeredAssignments == [name : STRING, value : Seq(RawWords), layer : {"global", "profile", "user"}]

\* What an assignment says of flags is words.
LEMMA FlagChangesType ==
  ASSUME NEW name \in STRING, NEW value \in Seq(RawWords), NEW expand
  PROVE  FlagChanges(name, value, expand) \in Seq(AnyWords)
<1>1. value \in Seq(AnyWords)
  BY WordsAreWords
<1>2. Materialized(name, value) \in Seq(AnyWords)
  <2>1. ASSUME NEW i \in DOMAIN value PROVE [value[i] EXCEPT !.name = FlagOf[<<name, @>>]] \in AnyWords
    <3>1. value[i] \in RawWords
      OBVIOUS
    <3>2. <<name, value[i].name>> \in STRING \X STRING
      BY <3>1 DEF RawWords
    <3>3. FlagOf[<<name, value[i].name>>] \in Names
      BY <3>2 DEF Names
    <3>. QED BY <3>1, <3>3 DEF RawWords, AnyWords
  <2>2. \A i \in DOMAIN value : value[i] \in AnyWords
    BY <1>1
  <2>3. DOMAIN value = 1..Len(value) /\ Len(value) \in Nat
    OBVIOUS
  <2>4. \A i \in DOMAIN value :
          (IF value[i].reference THEN value[i] ELSE [value[i] EXCEPT !.name = FlagOf[<<name, @>>]]) \in AnyWords
    BY <2>1, <2>2
  <2>. QED BY <2>3, <2>4 DEF Materialized
<1>. QED BY <1>1, <1>2 DEF FlagChanges

\* So is what all of them say of flags and of keywords.
LEMMA ChangesType ==
  ASSUME NEW assigned \in Seq(LayeredAssignments), NEW expand, NEW layers
  PROVE  /\ configUseChanges(assigned, expand, layers) \in Seq(AnyWords)
         /\ configKeywordChanges(assigned) \in Seq(AnyWords)
<1>. DEFINE f == [a \in LayeredAssignments |->
                    IF a.layer \in layers THEN FlagChanges(a.name, a.value, expand) ELSE <<>>]
            g == [a \in LayeredAssignments |-> IF a.name = "ACCEPT_KEYWORDS" THEN a.value ELSE <<>>]
<1>1. \A a \in LayeredAssignments : a.name \in STRING /\ a.value \in Seq(RawWords) /\ a.value \in Seq(AnyWords)
  BY WordsAreWords DEF LayeredAssignments
<1>2. f \in [LayeredAssignments -> Seq(AnyWords)]
  <2>1. \A a \in LayeredAssignments : FlagChanges(a.name, a.value, expand) \in Seq(AnyWords)
    BY <1>1, FlagChangesType
  <2>. QED BY <2>1
<1>3. g \in [LayeredAssignments -> Seq(AnyWords)]
  BY <1>1
<1>4. configUseChanges(assigned, expand, layers) = Collect(f, assigned)
  <2>1. [i \in DOMAIN assigned |-> f[assigned[i]]]
          = [i \in DOMAIN assigned |->
               IF assigned[i].layer \in layers THEN FlagChanges(assigned[i].name, assigned[i].value, expand) ELSE <<>>]
    OBVIOUS
  <2>. HIDE DEF f
  <2>. QED BY <2>1 DEF configUseChanges, Collect
<1>5. configKeywordChanges(assigned) = Collect(g, assigned)
  <2>1. [i \in DOMAIN assigned |-> g[assigned[i]]]
          = [i \in DOMAIN assigned |->
               IF assigned[i].name = "ACCEPT_KEYWORDS" THEN assigned[i].value ELSE <<>>]
    OBVIOUS
  <2>. HIDE DEF g
  <2>. QED BY <2>1 DEF configKeywordChanges, Collect
<1>. HIDE DEF f, g
<1>6. Collect(f, assigned) \in Seq(AnyWords)
  BY <1>2, Collected
<1>7. Collect(g, assigned) \in Seq(AnyWords)
  BY <1>3, Collected
<1>. QED BY <1>4, <1>5, <1>6, <1>7

\* The entries of the command that name something of the policy are entries.
LEMMA EntriesType ==
  ASSUME NEW entries \in Seq(Assignments), NEW expand
  PROVE  AllowedEntries(entries, expand) \in Seq(Assignments)
<1>. DEFINE f == [e \in Assignments |-> IF e.name \in Allowed \cup Range(expand) THEN <<e>> ELSE <<>>]
<1>1. f \in [Assignments -> Seq(Assignments)]
  OBVIOUS
<1>2. [i \in DOMAIN entries |-> f[entries[i]]]
        = [i \in DOMAIN entries |-> IF entries[i].name \in Allowed \cup Range(expand) THEN <<entries[i]>> ELSE <<>>]
  OBVIOUS
<1>. HIDE DEF f
<1>3. AllowedEntries(entries, expand) = Collect(f, entries)
  BY <1>2 DEF AllowedEntries, Collect
<1>. QED BY <1>1, <1>3, Collected

\* The keywords of an entry, after what resets those before.
LEMMA EntryKeywordsType ==
  ASSUME NEW entry \in Assignments
  PROVE  EntryKeywords(entry) \in Seq(AnyWords)
<1>1. entry.value \in Seq(AnyWords)
  BY WordsAreWords DEF Assignments
<1>2. PICK reset : reset = Change("*", FALSE)
  OBVIOUS
<1>3. reset \in AnyWords
  BY <1>2 DEF Change, AnyWords, Names
<1>4. <<reset>> \o entry.value \in Seq(AnyWords)
  BY <1>1, <1>3
<1>5. <<>> \in Seq(AnyWords)
  OBVIOUS
<1>. QED BY <1>2, <1>4, <1>5 DEF EntryKeywords

\* What the entries say of keywords and of flags is words.
LEMMA CommandType ==
  ASSUME NEW entries \in Seq(Assignments), NEW expand
  PROVE  /\ FlattenSeq([i \in DOMAIN entries |-> EntryKeywords(entries[i])]) \in Seq(AnyWords)
         /\ FlattenSeq([i \in DOMAIN entries |-> FlagChanges(entries[i].name, entries[i].value, expand)])
              \in Seq(AnyWords)
<1>. DEFINE f == [e \in Assignments |-> EntryKeywords(e)]
            g == [e \in Assignments |-> FlagChanges(e.name, e.value, expand)]
<1>1. f \in [Assignments -> Seq(AnyWords)]
  BY EntryKeywordsType
<1>2. g \in [Assignments -> Seq(AnyWords)]
  <2>1. \A e \in Assignments : e.name \in STRING /\ e.value \in Seq(RawWords)
    BY DEF Assignments
  <2>2. \A e \in Assignments : FlagChanges(e.name, e.value, expand) \in Seq(AnyWords)
    BY <2>1, FlagChangesType
  <2>. QED BY <2>2
<1>3. /\ [i \in DOMAIN entries |-> f[entries[i]]] = [i \in DOMAIN entries |-> EntryKeywords(entries[i])]
      /\ [i \in DOMAIN entries |-> g[entries[i]]]
           = [i \in DOMAIN entries |-> FlagChanges(entries[i].name, entries[i].value, expand)]
  OBVIOUS
<1>. HIDE DEF f, g
<1>4. Collect(f, entries) \in Seq(AnyWords)
  BY <1>1, Collected
<1>5. Collect(g, entries) \in Seq(AnyWords)
  BY <1>2, Collected
<1>. QED BY <1>3, <1>4, <1>5 DEF Collect

\* The types of those fields of the configuration that its evaluation reads, its layers aside.
FieldTypes ==
  [repositories |-> Seq(Repositories), directories |-> Seq(Directories),
   system |-> Seq(STRING), useForce |-> Seq(STRING), useMask |-> Seq(STRING),
   profileUse |-> Seq(AnyWords), userUse |-> Seq(AnyWords), commandUse |-> Seq(AnyWords),
   acceptKeywords |-> Seq(AnyWords),
   packageUse |-> Seq(Rules), userPackageUse |-> Seq(Rules), packageKeywords |-> Seq(Rules),
   packageMasks |-> Seq([atom : Atoms]), packageUnmasks |-> Seq([atom : Atoms])]
Fields ==
  {"repositories", "directories", "system", "useForce", "useMask", "profileUse", "userUse", "commandUse",
   "acceptKeywords", "packageUse", "userPackageUse", "packageKeywords", "packageMasks", "packageUnmasks"}

\* The type of each field.
LEMMA TypesOfFields ==
  /\ FieldTypes["repositories"] = Seq(Repositories) /\ FieldTypes["directories"] = Seq(Directories)
  /\ \A f \in {"system", "useForce", "useMask"} : FieldTypes[f] = Seq(STRING)
  /\ \A f \in {"profileUse", "userUse", "commandUse", "acceptKeywords"} : FieldTypes[f] = Seq(AnyWords)
  /\ \A f \in {"packageUse", "userPackageUse", "packageKeywords"} : FieldTypes[f] = Seq(Rules)
  /\ \A f \in {"packageMasks", "packageUnmasks"} : FieldTypes[f] = Seq([atom : Atoms])
BY DEF FieldTypes

FieldInv == Fields \subseteq DOMAIN config /\ \A f \in Fields : config[f] \in FieldTypes[f]

\* What has been read so far.
ReadInv ==
  /\ dialect \in Dialects /\ position \in Nat \ {0}
  /\ values \in VariableSet /\ assignments \in Seq(LayeredAssignments)
  /\ environment \in Seq(Assignments)
  /\ maskFile \in [Repositories -> Seq(MaskWords)]

\* Both orders are of what there is to order.
OrdersTyped ==
  /\ repositoryOrder \in Seq(Repositories) /\ repositoryGraph.roots \in Seq(Repositories)
  /\ profileOrder \in Seq(Directories)

\* The invariants of the walks say so.
LEMMA WalksTyped == MastersProofs!WalkInv /\ ParentsProofs!WalkInv => OrdersTyped
BY DEF OrdersTyped, MastersProofs!WalkInv, ParentsProofs!WalkInv, MastersProofs!Shape, ParentsProofs!Shape,
  MastersProofs!Graph, ParentsProofs!Graph

\* A fresh configuration is typed.
LEMMA NoConfigTyped == Fields \subseteq DOMAIN NoConfig /\ \A f \in Fields : NoConfig[f] \in FieldTypes[f]
<1>1. Fields \subseteq DOMAIN NoConfig
  BY DEF Fields, NoConfig
<1>2. \A f \in Fields : NoConfig[f] = <<>>
  BY DEF Fields, NoConfig
<1>3. \A f \in Fields : <<>> \in FieldTypes[f]
  <2>1. <<>> \in Seq(Repositories) /\ <<>> \in Seq(Directories) /\ <<>> \in Seq(STRING)
    OBVIOUS
  <2>2. <<>> \in Seq(AnyWords) /\ <<>> \in Seq(Rules)
    OBVIOUS
  <2>3. <<>> \in Seq([atom : Atoms])
    OBVIOUS
  <2>. QED BY <2>1, <2>2, <2>3, TypesOfFields DEF Fields
<1>. QED BY <1>1, <1>2, <1>3

\* What a file adds to the assignments is assignments of its layer.
LEMMA MergeTyped ==
  ASSUME ReadInv, NEW file \in Seq(Assignments), NEW layer \in {"global", "profile", "user"}, Merge(file, layer)
  PROVE  values' \in VariableSet /\ assignments' \in Seq(LayeredAssignments)
<1>. DEFINE new == [i \in DOMAIN file |-> [name |-> file[i].name, value |-> file[i].value, layer |-> layer]]
<1>1. values' \in VariableSet
  BY MergedType DEF Merge, ReadInv
<1>2. new \in Seq(LayeredAssignments)
  <2>1. \A i \in DOMAIN file : new[i] \in LayeredAssignments
    <3>1. \A i \in DOMAIN file : file[i] \in Assignments
      OBVIOUS
    <3>2. \A a \in Assignments : [name |-> a.name, value |-> a.value, layer |-> layer] \in LayeredAssignments
      BY DEF Assignments, LayeredAssignments
    <3>. QED BY <3>1, <3>2
  <2>2. DOMAIN file = 1..Len(file) /\ Len(file) \in Nat
    OBVIOUS
  <2>. QED BY <2>1, <2>2
<1>3. assignments' = assignments \o new
  BY DEF Merge
<1>. HIDE DEF new
<1>4. assignments' \in Seq(LayeredAssignments)
  BY <1>2, <1>3 DEF ReadInv
<1>. QED BY <1>1, <1>4

\* Words whose names are all atoms are words of masks.
LEMMA MaskedWords == {words \in Seq(Words) : \A i \in DOMAIN words : words[i].name \in Atoms} = Seq(MaskWords)
<1>1. ASSUME NEW words \in Seq(Words), \A i \in DOMAIN words : words[i].name \in Atoms
      PROVE  words \in Seq(MaskWords)
  <2>1. \A i \in 1..Len(words) : words[i] \in MaskWords
    BY <1>1 DEF MaskWords
  <2>. QED BY <2>1
<1>2. ASSUME NEW words \in Seq(MaskWords)
      PROVE  words \in Seq(Words) /\ \A i \in DOMAIN words : words[i].name \in Atoms
  <2>1. \A word \in MaskWords : word \in Words /\ word.name \in Atoms
    BY DEF MaskWords
  <2>. QED BY <2>1
<1>. QED BY <1>1, <1>2

\* Everything that is read is what its parser makes of it.
LEMMA ReadStep == ShapeInv /\ FieldInv /\ ReadInv /\ [Next]_vars => ReadInv'
<1>. SUFFICES ASSUME ShapeInv, FieldInv, ReadInv, [Next]_vars PROVE ReadInv'
  OBVIOUS
<1>1. dialect' = dialect
  BY DEF Next, WalkMasters, RepositoriesKnown, ReadGlobals, WalkParents, ProfileKnown, MergeLayer,
    LayersMerged, ReadDefaults, DefaultsRead, ReadMakeConf, ReadPackageUse, applyConfigEnvironment,
    ReadPackageKeywords, MaskRepository, RepositoriesMasked, MaskDirectory, DirectoriesMasked, MaskUser,
    Fail, Returned, Goes, Turn, Over, vars
<1>2. \A file : /\ Content(file) \subseteq Parsed(file)
                /\ \A path : ContentIf(path, file) \subseteq Parsed(file)
  BY ContentType DEF ReadInv
<1>3. position' \in Nat \ {0}
  <2>1. position' \in {position, 1, position + 1}
    BY DEF Next, WalkMasters, RepositoriesKnown, ReadGlobals, WalkParents, ProfileKnown, MergeLayer,
    LayersMerged, ReadDefaults, DefaultsRead, ReadMakeConf, ReadPackageUse, applyConfigEnvironment,
    ReadPackageKeywords, MaskRepository, RepositoriesMasked, MaskDirectory, DirectoriesMasked, MaskUser,
    Fail, Returned, Goes, Turn, Over, vars
  <2>. QED BY <2>1 DEF ReadInv
<1>4. CASE ReadGlobals \/ ReadMakeConf \/ ReadDefaults
  <2>1. \A file \in {"make.globals", "make.conf"} : Parsed(file) = Seq(Assignments)
    BY DEF Parsed, AssignmentFiles
  <2>2. ASSUME ReadDefaults PROVE config.layers[position].makeDefaults \in Seq(Assignments)
    <3>1. config.layers[position] \in LayerContents
      BY <2>2 DEF ReadDefaults, Turn, ShapeInv, ReadInv
    <3>. QED BY <3>1, LayerTypes DEF ReadInv
  <2>3. \E file \in Seq(Assignments), layer \in {"global", "profile", "user"} : Merge(file, layer)
    BY <1>2, <1>4, <2>1, <2>2 DEF ReadGlobals, ReadMakeConf, ReadDefaults
  <2>4. values' \in VariableSet /\ assignments' \in Seq(LayeredAssignments)
    BY <2>3, MergeTyped
  <2>5. UNCHANGED <<maskFile, environment>>
    BY <1>4 DEF ReadGlobals, ReadMakeConf, ReadDefaults
  <2>. QED BY <1>1, <1>3, <2>4, <2>5 DEF ReadInv
<1>5. CASE applyConfigEnvironment
  <2>1. Parsed("environment") = Seq(Assignments)
    BY DEF Parsed, AssignmentFiles
  <2>2. environment' \in Seq(Assignments) /\ UNCHANGED <<values, assignments, maskFile>>
    BY <1>2, <1>5, <2>1 DEF applyConfigEnvironment
  <2>. QED BY <1>1, <1>3, <2>2 DEF ReadInv
<1>6. CASE MaskRepository
  <2>1. Content("repository package.mask") \subseteq Seq(MaskWords)
    <3>1. Parsed("repository package.mask")
            = {words \in Seq(Words) : \A i \in DOMAIN words : words[i].name \in Atoms}
      BY DEF Parsed, AssignmentFiles, RuleFiles, MaskFiles
    <3>. QED BY <1>2, <3>1, MaskedWords
  <2>2. maskFile' \in [Repositories -> Seq(MaskWords)] /\ UNCHANGED <<values, assignments, environment>>
    BY <1>6, <2>1 DEF MaskRepository, ReadInv
  <2>. QED BY <1>1, <1>3, <2>2 DEF ReadInv
<1>7. CASE UNCHANGED <<values, assignments, environment, maskFile>>
  BY <1>1, <1>3, <1>7 DEF ReadInv
<1>8. Next \/ UNCHANGED vars
  OBVIOUS
<1>. QED
  <2>1. CASE ~(ReadGlobals \/ ReadMakeConf \/ ReadDefaults \/ applyConfigEnvironment \/ MaskRepository)
    <3>1. UNCHANGED <<values, assignments, environment, maskFile>>
      BY <1>8, <2>1 DEF Next, WalkMasters, RepositoriesKnown, WalkParents, ProfileKnown, MergeLayer,
        LayersMerged, DefaultsRead, ReadPackageUse, ReadPackageKeywords, RepositoriesMasked, MaskDirectory,
        DirectoriesMasked, MaskUser, Fail, Returned, vars, readVars
    <3>. QED BY <1>7, <3>1
  <2>. QED BY <1>4, <1>5, <1>6, <2>1

\* A configuration is typed if every field is the old one or typed.
LEMMA FieldsKept ==
  ASSUME FieldInv, DOMAIN config' = DOMAIN config,
         \A f \in Fields : config'[f] = config[f] \/ config'[f] \in FieldTypes[f]
  PROVE  FieldInv'
<1>1. FieldTypes' = FieldTypes /\ Fields' = Fields
  BY DEF FieldTypes, Fields, AnyWords, Names, Rules, Words
<1>. QED BY <1>1 DEF FieldInv

\* A layer adds to lists of names and of rules.
LEMMA MergeLayerTyped == ShapeInv /\ FieldInv /\ ReadInv /\ MergeLayer => FieldInv'
<1>. SUFFICES ASSUME FieldInv, ReadInv, NEW layer \in LayerContents, config' = mergeProfileLayer(config, layer)
              PROVE  FieldInv'
  BY DEF MergeLayer
<1>1. /\ layer.system \in Seq(Words) /\ layer.useForce \in Seq(Words) /\ layer.useMask \in Seq(Words)
      /\ layer.packageUse \in Seq(Rules)
  BY LayerTypes DEF ReadInv
<1>2. DOMAIN config' = DOMAIN config
  BY DEF mergeProfileLayer
<1>3. /\ config'["system"] = applyProfileChanges(config["system"], layer.system)
      /\ config'["useForce"] = applyProfileChanges(config["useForce"], layer.useForce)
      /\ config'["useMask"] = applyProfileChanges(config["useMask"], layer.useMask)
      /\ config'["packageUse"] = config["packageUse"] \o layer.packageUse
  BY DEF mergeProfileLayer, FieldInv, Fields
<1>4. \A f \in Fields \ {"system", "useForce", "useMask", "packageUse"} : config'[f] = config[f]
  BY DEF mergeProfileLayer, FieldInv, Fields
<1>5. \A f \in {"system", "useForce", "useMask"} : config[f] \in Seq(STRING)
  BY TypesOfFields DEF FieldInv, Fields
<1>6. /\ applyProfileChanges(config["system"], layer.system) \in Seq(STRING)
      /\ applyProfileChanges(config["useForce"], layer.useForce) \in Seq(STRING)
      /\ applyProfileChanges(config["useMask"], layer.useMask) \in Seq(STRING)
  BY <1>1, <1>5, ProfileChangesType
<1>7. config["packageUse"] \in Seq(Rules)
  BY TypesOfFields DEF FieldInv, Fields
<1>8. config["packageUse"] \o layer.packageUse \in Seq(Rules)
  BY <1>1, <1>7
<1>9. \A f \in {"system", "useForce", "useMask", "packageUse"} : config'[f] \in FieldTypes[f]
  BY <1>3, <1>6, <1>8, TypesOfFields
<1>. QED BY <1>2, <1>4, <1>9, FieldsKept

\* What all assignments say of flags and keywords is words.
LEMMA MakeConfTyped == FieldInv /\ ReadInv' /\ ReadMakeConf => FieldInv'
<1>. SUFFICES ASSUME FieldInv, ReadInv', ReadMakeConf PROVE FieldInv'
  OBVIOUS
<1>1. assignments' \in Seq(LayeredAssignments)
  BY DEF ReadInv
<1>2. PICK expand :
        config' = [config EXCEPT
          !.variables = values',
          !.useExpand = expand,
          !.profileUse = configUseChanges(assignments', expand, {"global", "profile"}),
          !.userUse = configUseChanges(assignments', expand, {"user"}),
          !.acceptKeywords = configKeywordChanges(assignments')]
  BY DEF ReadMakeConf
<1>3. /\ configUseChanges(assignments', expand, {"global", "profile"}) \in Seq(AnyWords)
      /\ configUseChanges(assignments', expand, {"user"}) \in Seq(AnyWords)
      /\ configKeywordChanges(assignments') \in Seq(AnyWords)
  BY <1>1, ChangesType
<1>4. /\ DOMAIN config' = DOMAIN config
      /\ config'["profileUse"] = configUseChanges(assignments', expand, {"global", "profile"})
      /\ config'["userUse"] = configUseChanges(assignments', expand, {"user"})
      /\ config'["acceptKeywords"] = configKeywordChanges(assignments')
  BY <1>2 DEF FieldInv, Fields
<1>5. \A f \in Fields \ {"profileUse", "userUse", "acceptKeywords"} : config'[f] = config[f]
  BY <1>2 DEF FieldInv, Fields
<1>6. \A f \in {"profileUse", "userUse", "acceptKeywords"} : config'[f] \in FieldTypes[f]
  BY <1>3, <1>4, TypesOfFields
<1>. QED BY <1>4, <1>5, <1>6, FieldsKept

\* So is what the command says.
LEMMA EnvironmentTyped == FieldInv /\ ReadInv' /\ applyConfigEnvironment => FieldInv'
<1>. SUFFICES ASSUME FieldInv, ReadInv', applyConfigEnvironment PROVE FieldInv'
  OBVIOUS
<1>. DEFINE entries == AllowedEntries(environment', config.useExpand)
            keywords == FlattenSeq([i \in DOMAIN entries |-> EntryKeywords(entries[i])])
            flags == FlattenSeq([i \in DOMAIN entries |->
                                   FlagChanges(entries[i].name, entries[i].value, config.useExpand)])
<1>1. entries \in Seq(Assignments)
  BY EntriesType DEF ReadInv
<1>2. PICK variables : config' = [config EXCEPT !.variables = variables, !.acceptKeywords = @ \o keywords,
                                                !.commandUse = @ \o flags]
  BY DEF applyConfigEnvironment
<1>. HIDE DEF entries
<1>3. keywords \in Seq(AnyWords) /\ flags \in Seq(AnyWords)
  BY <1>1, CommandType
<1>. HIDE DEF keywords, flags
<1>4. /\ DOMAIN config' = DOMAIN config
      /\ config'["acceptKeywords"] = config["acceptKeywords"] \o keywords
      /\ config'["commandUse"] = config["commandUse"] \o flags
  BY <1>2 DEF FieldInv, Fields
<1>5. \A f \in Fields \ {"acceptKeywords", "commandUse"} : config'[f] = config[f]
  BY <1>2 DEF FieldInv, Fields
<1>6. config["acceptKeywords"] \in Seq(AnyWords) /\ config["commandUse"] \in Seq(AnyWords)
  BY TypesOfFields DEF FieldInv, Fields
<1>7. config["acceptKeywords"] \o keywords \in Seq(AnyWords) /\ config["commandUse"] \o flags \in Seq(AnyWords)
  BY <1>3, <1>6
<1>8. \A f \in {"acceptKeywords", "commandUse"} : config'[f] \in FieldTypes[f]
  BY <1>4, <1>7, TypesOfFields
<1>. QED BY <1>4, <1>5, <1>8, FieldsKept

\* Masks are of atoms.
LEMMA MasksTyped ==
  ASSUME FieldInv, ReadInv, MaskRepository \/ MaskDirectory \/ MaskUser
  PROVE  FieldInv'
<1>1. \A file \in MaskFiles : Content(file) \subseteq Seq(MaskWords) /\ \A path : ContentIf(path, file) \subseteq Seq(MaskWords)
  <2>1. \A file \in MaskFiles : Parsed(file) = Seq(MaskWords)
    BY MaskedWords DEF Parsed, AssignmentFiles, RuleFiles, MaskFiles
  <2>. QED BY <2>1, ContentType DEF ReadInv
<1>2. <<>> \in Seq(MaskWords)
  OBVIOUS
<1>3. config["packageMasks"] \in Seq([atom : Atoms]) /\ config["packageUnmasks"] \in Seq([atom : Atoms])
  BY TypesOfFields DEF FieldInv, Fields
<1>4. ASSUME NEW masks \in Seq(MaskWords), config' = [config EXCEPT !.packageMasks = applyPackageMaskChanges(@, masks)]
      PROVE  FieldInv'
  <2>1. applyPackageMaskChanges(config["packageMasks"], masks) \in Seq([atom : Atoms])
    BY <1>3, MaskChangesType
  <2>2. /\ DOMAIN config' = DOMAIN config
        /\ config'["packageMasks"] = applyPackageMaskChanges(config["packageMasks"], masks)
        /\ \A f \in Fields \ {"packageMasks"} : config'[f] = config[f]
    BY <1>4 DEF FieldInv, Fields
  <2>3. config'["packageMasks"] \in FieldTypes["packageMasks"]
    BY <2>1, <2>2, TypesOfFields
  <2>. QED BY <2>2, <2>3, FieldsKept
<1>5. ASSUME NEW masks \in Seq(MaskWords), NEW unmasks \in Seq(MaskWords), Mask(masks, unmasks)
      PROVE  FieldInv'
  <2>1. /\ applyPackageMaskChanges(config["packageMasks"], masks) \in Seq([atom : Atoms])
        /\ applyPackageMaskChanges(config["packageUnmasks"], unmasks) \in Seq([atom : Atoms])
    BY <1>3, MaskChangesType
  <2>2. /\ DOMAIN config' = DOMAIN config
        /\ config'["packageMasks"] = applyPackageMaskChanges(config["packageMasks"], masks)
        /\ config'["packageUnmasks"] = applyPackageMaskChanges(config["packageUnmasks"], unmasks)
        /\ \A f \in Fields \ {"packageMasks", "packageUnmasks"} : config'[f] = config[f]
    BY <1>5 DEF FieldInv, Fields, Mask
  <2>3. /\ config'["packageMasks"] \in FieldTypes["packageMasks"]
        /\ config'["packageUnmasks"] \in FieldTypes["packageUnmasks"]
    BY <2>1, <2>2, TypesOfFields
  <2>. QED BY <2>2, <2>3, FieldsKept
<1>6. CASE MaskRepository
  BY <1>1, <1>4, <1>6 DEF MaskRepository, MaskFiles
<1>7. CASE MaskDirectory
  BY <1>1, <1>5, <1>7 DEF MaskDirectory, MaskFiles
<1>8. CASE MaskUser
  BY <1>1, <1>5, <1>8 DEF MaskUser, MaskFiles
<1>. QED BY <1>6, <1>7, <1>8

\* Whatever is read, the configuration stays typed.
LEMMA FieldStep == OrdersTyped /\ ShapeInv /\ FieldInv /\ ReadInv /\ ReadInv' /\ [Next]_vars => FieldInv'
<1>. SUFFICES ASSUME OrdersTyped, ShapeInv, FieldInv, ReadInv, ReadInv', [Next]_vars PROVE FieldInv'
  OBVIOUS
<1>1. CASE config' = config
  BY <1>1, FieldsKept
<1>2. CASE MergeLayer \/ ReadMakeConf \/ applyConfigEnvironment
  BY <1>2, MergeLayerTyped, MakeConfTyped, EnvironmentTyped
<1>3. CASE MaskRepository \/ MaskDirectory \/ MaskUser
  BY <1>3, MasksTyped
<1>4. CASE RepositoriesKnown
  <2>1. RepositoryOrder \in Seq(Repositories)
    BY DEF RepositoryOrder, OrdersTyped
  <2>2. /\ DOMAIN config' = DOMAIN config
        /\ config'["repositories"] = RepositoryOrder
        /\ \A f \in Fields \ {"repositories"} : config'[f] = config[f]
    BY <1>4 DEF RepositoriesKnown, FieldInv, Fields
  <2>3. config'["repositories"] \in FieldTypes["repositories"]
    BY <2>1, <2>2, TypesOfFields
  <2>. QED BY <2>2, <2>3, FieldsKept
<1>5. CASE ProfileKnown
  <2>1. /\ DOMAIN config' = DOMAIN config
        /\ config'["directories"] = profileOrder
        /\ \A f \in Fields \ {"directories"} : config'[f] = config[f]
    BY <1>5 DEF ProfileKnown, FieldInv, Fields
  <2>2. config'["directories"] \in FieldTypes["directories"]
    BY <2>1, TypesOfFields DEF OrdersTyped
  <2>. QED BY <2>1, <2>2, FieldsKept
<1>6. CASE ReadPackageUse \/ ReadPackageKeywords
  <2>1. \A file \in RuleFiles : \A path : ContentIf(path, file) \subseteq Seq(Rules)
    <3>1. \A file \in RuleFiles : Parsed(file) = Seq(Rules)
      BY DEF Parsed, AssignmentFiles, RuleFiles
    <3>. QED BY <3>1, ContentType DEF ReadInv
  <2>2. \E f \in {"userPackageUse", "packageKeywords"}, file \in Seq(Rules) : config' = [config EXCEPT ![f] = file]
    BY <1>6, <2>1 DEF ReadPackageUse, ReadPackageKeywords, RuleFiles
  <2>3. PICK f \in {"userPackageUse", "packageKeywords"}, file \in Seq(Rules) : config' = [config EXCEPT ![f] = file]
    BY <2>2
  <2>4. DOMAIN config' = DOMAIN config /\ config'[f] = file /\ \A g \in Fields \ {f} : config'[g] = config[g]
    BY <2>3 DEF FieldInv, Fields
  <2>5. config'[f] \in FieldTypes[f]
    BY <2>4, TypesOfFields
  <2>. QED BY <2>4, <2>5, FieldsKept
<1>7. CASE Fail
  <2>1. FieldTypes' = FieldTypes /\ Fields' = Fields
    BY DEF FieldTypes, Fields, AnyWords, Names, Rules, Words
  <2>. QED BY <1>7, <2>1, NoConfigTyped DEF Fail, FieldInv
<1>8. CASE WalkMasters \/ ReadGlobals \/ WalkParents \/ LayersMerged \/ ReadDefaults \/ DefaultsRead
           \/ RepositoriesMasked \/ DirectoriesMasked \/ Returned \/ UNCHANGED vars
  BY <1>1, <1>8 DEF WalkMasters, ReadGlobals, WalkParents, LayersMerged, ReadDefaults, DefaultsRead,
    RepositoriesMasked, DirectoriesMasked, Returned, vars, readVars
<1>. QED BY <1>2, <1>3, <1>4, <1>5, <1>6, <1>7, <1>8 DEF Next

\* Layers are merged one directory after the other.
LayersInStep ==
  /\ phase \in {"repositories", "globals", "profile"} => config.layers = <<>>
  /\ phase = "layers" => Len(config.layers) = position - 1 /\ position <= Len(config.directories) + 1
  /\ Len(config.layers) <= Len(config.directories)

\* There is no layer more than there are directories.
LEMMA LayersStep ==
  OrdersTyped /\ ShapeInv /\ FieldInv /\ ReadInv /\ LayersInStep /\ [Next]_vars => LayersInStep'
<1>. SUFFICES ASSUME OrdersTyped, ShapeInv, FieldInv, ReadInv, LayersInStep, [Next]_vars PROVE LayersInStep'
  OBVIOUS
<1>1. "layers" \in DOMAIN config /\ "directories" \in DOMAIN config /\ config.layers \in Seq(LayerContents)
  BY DEF ShapeInv, UseFields, FieldInv, Fields
<1>2. Len(config.layers) \in Nat /\ position \in Nat
  BY <1>1 DEF ReadInv
<1>3. CASE WalkMasters \/ ReadGlobals \/ WalkParents \/ LayersMerged \/ ReadDefaults \/ DefaultsRead
           \/ RepositoriesMasked \/ DirectoriesMasked \/ Returned \/ UNCHANGED vars
  BY <1>3 DEF LayersInStep, WalkMasters, ReadGlobals, WalkParents, LayersMerged, ReadDefaults, DefaultsRead,
    RepositoriesMasked, DirectoriesMasked, Returned, vars, readVars, Goes, Turn, Over
<1>4. CASE MergeLayer
  <2>1. PICK layer \in LayerContents : config' = mergeProfileLayer(config, layer)
    BY <1>4 DEF MergeLayer
  <2>2. config'.layers = Append(config.layers, layer) /\ config'.directories = config.directories
    BY <1>1, <2>1 DEF mergeProfileLayer
  <2>3. Len(config'.layers) = Len(config.layers) + 1
    BY <1>1, <2>2
  <2>4. phase = "layers" /\ phase' = "layers" /\ position <= Len(config.directories) /\ position' = position + 1
    BY <1>4 DEF MergeLayer, Turn
  <2>5. Len(config.directories) \in Nat
    BY TypesOfFields DEF FieldInv, Fields
  <2>. QED BY <1>2, <2>2, <2>3, <2>4, <2>5 DEF LayersInStep
<1>5. CASE ProfileKnown
  <2>1. config'.layers = <<>> /\ config'.directories = profileOrder /\ position' = 1 /\ phase' = "layers"
    BY <1>1, <1>5 DEF ProfileKnown, Goes, LayersInStep
  <2>2. Len(profileOrder) \in Nat /\ Len(config'.layers) = 0
    BY <2>1 DEF OrdersTyped
  <2>. QED BY <2>1, <2>2 DEF LayersInStep
<1>6. CASE RepositoriesKnown \/ ReadMakeConf \/ ReadPackageUse \/ applyConfigEnvironment \/ ReadPackageKeywords
           \/ MaskRepository \/ MaskDirectory \/ MaskUser
  <2>1. config'.layers = config.layers /\ config'.directories = config.directories
    <3>1. CASE RepositoriesKnown
      BY <3>1 DEF RepositoriesKnown
    <3>2. CASE ReadMakeConf
      BY <3>2 DEF ReadMakeConf
    <3>3. CASE ReadPackageUse \/ ReadPackageKeywords
      BY <1>1, <3>3 DEF ReadPackageUse, ReadPackageKeywords
    <3>4. CASE applyConfigEnvironment
      BY <3>4 DEF applyConfigEnvironment
    <3>5. CASE MaskRepository \/ MaskDirectory \/ MaskUser
      BY <1>1, <3>5 DEF MaskRepository, MaskDirectory, MaskUser, Mask
    <3>. QED BY <1>6, <3>1, <3>2, <3>3, <3>4, <3>5
  <2>2. /\ phase' # "layers"
        /\ phase' \in {"repositories", "globals", "profile"} => phase \in {"repositories", "globals", "profile"}
    BY <1>6 DEF RepositoriesKnown, ReadMakeConf, ReadPackageUse, ReadPackageKeywords, applyConfigEnvironment,
      MaskRepository, MaskDirectory, MaskUser, Goes, Turn
  <2>. QED BY <2>1, <2>2 DEF LayersInStep
<1>7. CASE Fail
  <2>1. config'.layers = <<>> /\ config'.directories = <<>> /\ phase' = "failed"
    BY <1>7 DEF Fail, NoConfig
  <2>. QED BY <2>1 DEF LayersInStep
<1>. QED BY <1>3, <1>4, <1>5, <1>6, <1>7 DEF Next

\* The walks are typed, from the proofs of DepthFirst.
LEMMA WalksStanding ==
  /\ Masters!WalkInit => MastersProofs!Standing
  /\ MastersProofs!Standing /\ [Masters!WalkNext]_masterVars => MastersProofs!Standing'
  /\ MastersProofs!WalkInv /\ MastersProofs!Standing => Masters!WalkTypeOK
  /\ Parents!WalkInit => ParentsProofs!Standing
  /\ ParentsProofs!Standing /\ [Parents!WalkNext]_parentVars => ParentsProofs!Standing'
  /\ ParentsProofs!WalkInv /\ ParentsProofs!Standing => Parents!WalkTypeOK
<1>1. Masters!WalkInit => MastersProofs!Standing
  BY DEF Masters!WalkInit, MastersProofs!Standing
<1>2. MastersProofs!Standing /\ [Masters!WalkNext]_masterVars => MastersProofs!Standing'
  BY DEF MastersProofs!Standing, Masters!WalkNext, masterVars, Masters!FindCycle, Masters!Skip, Masters!Reject,
    Masters!Enter, Masters!Leave, Masters!WalkReturns
<1>3. MastersProofs!WalkInv /\ MastersProofs!Standing => Masters!WalkTypeOK
  BY PolicyAssumption, MastersProofs!StandingTyped
    DEF Masters!GraphAssumption, MastersProofs!GraphAssumption, Masters!IsFiniteSet, MastersProofs!IsFiniteSet, MastersProofs!WalkTypeOK, Masters!WalkTypeOK,
      MastersProofs!Cardinality, Masters!Cardinality
<1>4. Parents!WalkInit => ParentsProofs!Standing
  BY DEF Parents!WalkInit, ParentsProofs!Standing
<1>5. ParentsProofs!Standing /\ [Parents!WalkNext]_parentVars => ParentsProofs!Standing'
  BY DEF ParentsProofs!Standing, Parents!WalkNext, parentVars, Parents!FindCycle, Parents!Skip, Parents!Reject,
    Parents!Enter, Parents!Leave, Parents!WalkReturns
<1>6. ParentsProofs!WalkInv /\ ParentsProofs!Standing => Parents!WalkTypeOK
  BY PolicyAssumption, ParentsProofs!StandingTyped
    DEF Parents!GraphAssumption, ParentsProofs!GraphAssumption, Parents!IsFiniteSet, ParentsProofs!IsFiniteSet, ParentsProofs!WalkTypeOK, Parents!WalkTypeOK,
      ParentsProofs!Cardinality, Parents!Cardinality
<1>. QED BY <1>1, <1>2, <1>3, <1>4, <1>5, <1>6

\* Everything that is known of the state as it is read.
TypeInv == OrdersTyped /\ ShapeInv /\ FieldInv /\ ReadInv /\ LayersInStep

\* In the beginning nothing is read.
LEMMA TypeInit == Init => ShapeInv /\ FieldInv /\ ReadInv /\ LayersInStep
<1>. SUFFICES ASSUME Init PROVE ShapeInv /\ FieldInv /\ ReadInv /\ LayersInStep
  OBVIOUS
<1>1. ShapeInv /\ FieldInv
  BY NoConfigShape, NoConfigTyped DEF Init, ShapeInv, FieldInv
<1>2. LayersInStep
  BY DEF Init, LayersInStep, NoConfig
<1>3. <<>> \in Seq(MaskWords) /\ <<>> \in Seq(LayeredAssignments) /\ <<>> \in Seq(Assignments)
  OBVIOUS
<1>4. <<>> \in VariableSet
  <2>1. <<>> \in [{} -> Seq(Words)]
    OBVIOUS
  <2>2. {} \in SUBSET STRING
    OBVIOUS
  <2>. QED BY <2>1, <2>2 DEF VariableSet
<1>5. ReadInv
  BY <1>3, <1>4 DEF Init, ReadInv
<1>. QED BY <1>1, <1>2, <1>5

\* What is known of the state is known of it at every step.
LEMMA TypeInvAlways == Spec => [](TypeInv /\ MastersProofs!WalkInv /\ ParentsProofs!WalkInv)
<1>1. Init => Masters!WalkInit /\ Parents!WalkInit
  BY DEF Init
<1>2. ShapeInv /\ FieldInv /\ ReadInv /\ LayersInStep /\ OrdersTyped /\ [Next]_vars
        => ShapeInv' /\ FieldInv' /\ ReadInv' /\ LayersInStep'
  BY ShapeStep, FieldStep, ReadStep, LayersStep
<1>3. Spec => []MastersProofs!WalkInv
  BY <1>1, StepOfMasters, MastersInductive, PTL DEF Spec
<1>4. Spec => []ParentsProofs!WalkInv
  BY <1>1, StepOfParents, ParentsInductive, PTL DEF Spec
<1>5. Spec => []OrdersTyped
  BY <1>3, <1>4, WalksTyped, PTL
<1>6. Spec => [](ShapeInv /\ FieldInv /\ ReadInv /\ LayersInStep)
  BY <1>2, <1>5, TypeInit, PTL DEF Spec
<1>7. OrdersTyped /\ ShapeInv /\ FieldInv /\ ReadInv /\ LayersInStep => TypeInv
  BY DEF TypeInv
<1>. QED BY <1>3, <1>4, <1>5, <1>6, <1>7, PTL

(***************************************************************************)
(* ReadEffectiveConfig is typed, whatever the files say: no reference is   *)
(* left in a variable, no layer is without its directory, and the walks    *)
(* are no deeper than there is something to walk over (config.go).         *)
(***************************************************************************)
THEOREM PolicyTypeCorrect == Spec => []TypeOK
<1>1. Init => Masters!WalkInit /\ Parents!WalkInit
  BY DEF Init
<1>2. Spec => [](MastersProofs!Standing /\ ParentsProofs!Standing)
  BY <1>1, StepOfMasters, StepOfParents, WalksStanding, PTL DEF Spec
<1>3. TypeInv /\ Masters!WalkTypeOK /\ Parents!WalkTypeOK => TypeOK
  <2>. SUFFICES ASSUME TypeInv, Masters!WalkTypeOK, Parents!WalkTypeOK PROVE TypeOK
    OBVIOUS
  <2>1. \A name \in DOMAIN values : values[name] \in Seq(Words)
    <3>1. PICK D \in SUBSET STRING : values \in [D -> Seq(Words)]
      BY DEF TypeInv, ReadInv, VariableSet
    <3>. QED BY <3>1
  <2>2. /\ config.repositories \in Seq(Repositories) /\ config.directories \in Seq(Directories)
        /\ config.userPackageUse \in Seq(Rules) /\ config.packageKeywords \in Seq(Rules)
        /\ config.packageMasks \in Seq([atom : Atoms]) /\ config.packageUnmasks \in Seq([atom : Atoms])
    BY TypesOfFields DEF TypeInv, FieldInv, Fields
  <2>3. maskFile \in [Repositories -> Seq(Words)]
    BY MaskedWords DEF TypeInv, ReadInv
  <2>. QED BY <2>1, <2>2, <2>3 DEF TypeOK, TypeInv, ReadInv, LayersInStep
<1>. QED BY <1>2, <1>3, TypeInvAlways, WalksStanding, PTL

-----------------------------------------------------------------------------
(* The command environment                                                 *)

\* Lists with nothing in them join to nothing.
LEMMA JoinedNothing ==
  ASSUME NEW q, NEW n \in Nat, DOMAIN q = 1..n, q = [i \in 1..n |-> <<>>]
  PROVE  FlattenSeq(q) = <<>>
<1>. DEFINE f == [x \in {<<>>} |-> <<>>]
<1>1. f \in [{<<>>} -> Seq({})] /\ q \in Seq({<<>>})
  OBVIOUS
<1>2. q = [i \in DOMAIN q |-> f[q[i]]] /\ \A i \in DOMAIN q : f[q[i]] = <<>>
  OBVIOUS
<1>. HIDE DEF f
<1>3. Collect(f, q) = <<>>
  BY <1>1, <1>2, Collected
<1>. QED BY <1>2, <1>3 DEF Collect

\* what the entries of the command say of keywords
KeywordsOf(entries, expand) ==
  LET allowed == AllowedEntries(entries, expand)
  IN FlattenSeq([i \in DOMAIN allowed |-> EntryKeywords(allowed[i])])

IsKeywords(entry) == entry.name = "ACCEPT_KEYWORDS"

\* words after one that takes back what is before
ResetThen(words) == <<Change("*", FALSE)>> \o words

\* Such words are words.
LEMMA ResetType == ASSUME NEW words \in Seq(AnyWords) PROVE ResetThen(words) \in Seq(AnyWords)
<1>1. PICK reset : reset = Change("*", FALSE)
  OBVIOUS
<1>2. reset \in AnyWords
  BY <1>1 DEF Change, AnyWords, Names
<1>3. <<reset>> \o words \in Seq(AnyWords)
  BY <1>2
<1>. QED BY <1>1, <1>3 DEF ResetThen

\* They leave what they say themselves.
LEMMA ResetForgets ==
  ASSUME NEW words \in Seq(AnyWords), NEW b
  PROVE  KeywordFolds!Fold(b, ResetThen(words)) = KeywordFolds!Fold(<<>>, words)
<1>1. PICK reset : reset = Change("*", FALSE)
  OBVIOUS
<1>2. reset \in AnyWords
  BY <1>1 DEF Change, AnyWords, Names
<1>3. \A keywords : applyKeywordChange(keywords, reset) = <<>>
  BY <1>1 DEF applyKeywordChange, Resets, Says, Change
<1>. DEFINE one == <<reset>>
<1>4. one \in Seq(AnyWords)
  BY <1>2
<1>8. one = Append(<<>>, reset) /\ <<>> \in Seq(AnyWords)
  OBVIOUS
<1>5. ResetThen(words) = one \o words
  BY <1>1 DEF ResetThen
<1>. HIDE DEF one
<1>6. KeywordFolds!Fold(b, one) = <<>>
  <2>1. KeywordFolds!Fold(b, Append(<<>>, reset)) = applyKeywordChange(KeywordFolds!Fold(b, <<>>), reset)
    BY <1>2, <1>8, KeywordFolds!FoldAppend
  <2>. QED BY <1>3, <1>8, <2>1
<1>7. KeywordFolds!Fold(b, one \o words) = KeywordFolds!Fold(KeywordFolds!Fold(b, one), words)
  BY <1>4, KeywordFolds!FoldConcat
<1>. QED BY <1>5, <1>6, <1>7

\* The last entry for keywords says what is accepted, whatever was before.
LEMMA LastEntryDecides ==
  ASSUME NEW entries \in Seq(Assignments), NEW expand, NEW i \in DOMAIN entries, IsKeywords(entries[i]),
         \A j \in i + 1..Len(entries) : ~IsKeywords(entries[j])
  PROVE  \A b : KeywordFolds!Fold(b, KeywordsOf(entries, expand)) = KeywordFolds!Fold(<<>>, entries[i].value)
<1>. DEFINE f == [e \in Assignments |-> IF e.name \in Allowed \cup Range(expand) THEN <<e>> ELSE <<>>]
            g == [e \in Assignments |-> EntryKeywords(e)]
<1>1. f \in [Assignments -> Seq(Assignments)] /\ g \in [Assignments -> Seq(AnyWords)]
  BY EntryKeywordsType
<1>2. \A q \in Seq(Assignments) : KeywordsOf(q, expand) = Collect(g, Collect(f, q))
  <2>1. ASSUME NEW q \in Seq(Assignments) PROVE AllowedEntries(q, expand) = Collect(f, q)
    <3>1. [k \in DOMAIN q |-> f[q[k]]]
            = [k \in DOMAIN q |-> IF q[k].name \in Allowed \cup Range(expand) THEN <<q[k]>> ELSE <<>>]
      OBVIOUS
    <3>. HIDE DEF f
    <3>. QED BY <3>1 DEF AllowedEntries, Collect
  <2>2. ASSUME NEW q \in Seq(Assignments)
        PROVE  FlattenSeq([k \in DOMAIN q |-> EntryKeywords(q[k])]) = Collect(g, q)
    <3>1. [k \in DOMAIN q |-> g[q[k]]] = [k \in DOMAIN q |-> EntryKeywords(q[k])]
      OBVIOUS
    <3>. HIDE DEF g
    <3>. QED BY <3>1 DEF Collect
  <2>. HIDE DEF f, g
  <2>3. \A q \in Seq(Assignments) : Collect(f, q) \in Seq(Assignments)
    BY <1>1, Collected
  <2>. QED BY <2>1, <2>2, <2>3 DEF KeywordsOf
<1>3. \A e \in Assignments : IsKeywords(e) => f[e] = <<e>> /\ g[e] = ResetThen(e.value)
  BY DEF IsKeywords, Allowed, EntryKeywords, ResetThen
<1>4. \A e \in Assignments : ~IsKeywords(e) => (f[e] = <<e>> \/ f[e] = <<>>) /\ g[e] = <<>>
  BY DEF IsKeywords, EntryKeywords
<1>5. \A e \in Assignments : e.value \in Seq(AnyWords)
  BY WordsAreWords DEF Assignments
<1>. HIDE DEF f, g
<1>. DEFINE Says1(q) == \A k \in DOMAIN q : IsKeywords(q[k]) /\ (\A j \in k + 1..Len(q) : ~IsKeywords(q[j]))
                          => \A b : KeywordFolds!Fold(b, Collect(g, Collect(f, q))) = KeywordFolds!Fold(<<>>, q[k].value)
            S == {q \in Seq(Assignments) : Says1(q)}
<1>6. <<>> \in S
  OBVIOUS
<1>7. ASSUME NEW q \in Seq(Assignments), NEW e \in Assignments, q \in S PROVE Append(q, e) \in S
  <2>. DEFINE r == Append(q, e)
              n == Len(q)
  <2>1. /\ n \in Nat /\ r \in Seq(Assignments) /\ DOMAIN r = 1..n + 1 /\ Len(r) = n + 1 /\ r[n + 1] = e
        /\ DOMAIN q = 1..n /\ \A k \in 1..n : r[k] = q[k]
    OBVIOUS
  <2>. HIDE DEF n
  <2>2. Collect(f, r) = Collect(f, q) \o f[e]
    BY <1>1, CollectedAppend
  <2>3. PICK allowed \in Seq(Assignments) : allowed = Collect(f, q)
    BY <1>1, Collected
  <2>4. f[e] = <<e>> => Collect(f, r) = Append(allowed, e)
    BY <2>2, <2>3
  <2>5. f[e] = <<>> => Collect(f, r) = allowed
    BY <2>2, <2>3
  <2>6. PICK before \in Seq(AnyWords) : before = Collect(g, allowed)
    BY <1>1, Collected
  <2>7. Collect(g, Append(allowed, e)) = Collect(g, allowed) \o g[e]
    BY <1>1, CollectedAppend
  <2>. HIDE DEF r
  <2>8. CASE IsKeywords(e)
    <3>1. Collect(g, Collect(f, r)) = before \o ResetThen(e.value)
      BY <1>3, <2>4, <2>6, <2>7, <2>8
    <3>2. \A b : KeywordFolds!Fold(b, Collect(g, Collect(f, r))) = KeywordFolds!Fold(<<>>, e.value)
      <4>1. e.value \in Seq(AnyWords) /\ ResetThen(e.value) \in Seq(AnyWords)
        BY <1>5, ResetType
      <4>2. \A b : KeywordFolds!Fold(b, before \o ResetThen(e.value))
                   = KeywordFolds!Fold(KeywordFolds!Fold(b, before), ResetThen(e.value))
        BY <4>1, KeywordFolds!FoldConcat
      <4>3. \A b : KeywordFolds!Fold(b, ResetThen(e.value)) = KeywordFolds!Fold(<<>>, e.value)
        BY <4>1, ResetForgets
      <4>. QED BY <3>1, <4>2, <4>3
    <3>3. \A k \in DOMAIN r : (\A j \in k + 1..Len(r) : ~IsKeywords(r[j])) => k = n + 1
      BY <2>1, <2>8
    <3>4. Says1(r)
      BY <2>1, <3>2, <3>3
    <3>. QED BY <2>1, <3>4 DEF r
  <2>9. CASE ~IsKeywords(e)
    <3>1. Collect(g, Collect(f, r)) = before
      <4>1. before \o <<>> = before
        OBVIOUS
      <4>. QED BY <1>4, <2>4, <2>5, <2>6, <2>7, <2>9, <4>1
    <3>2. ASSUME NEW k \in DOMAIN r, IsKeywords(r[k]), \A j \in k + 1..Len(r) : ~IsKeywords(r[j])
          PROVE  k \in DOMAIN q /\ q[k] = r[k] /\ \A j \in k + 1..Len(q) : ~IsKeywords(q[j])
      BY <2>1, <2>9, <3>2
    <3>3. Says1(q)
      BY <1>7
    <3>4. Says1(r)
      BY <2>3, <2>6, <3>1, <3>2, <3>3
    <3>. QED BY <2>1, <3>4 DEF r
  <2>. QED BY <2>8, <2>9
<1>. HIDE DEF S
<1>8. entries \in S
  BY <1>6, <1>7, ProfileFolds!AllSequences
<1>9. Says1(entries)
  BY <1>8 DEF S
<1>. QED BY <1>2, <1>9

\* They are words.
LEMMA KeywordsType ==
  ASSUME NEW entries \in Seq(Assignments), NEW expand PROVE KeywordsOf(entries, expand) \in Seq(AnyWords)
<1>1. AllowedEntries(entries, expand) \in Seq(Assignments)
  BY EntriesType
<1>. QED BY <1>1, CommandType DEF KeywordsOf

\* once the command is read
AfterCommand == {"package.accept_keywords", "repository masks", "profile masks", "user masks", "ready"}

\* What the command says of keywords comes last.
CommandInv ==
  phase \in AfterCommand =>
    \E before \in Seq(AnyWords) : \E expand : config.acceptKeywords = before \o KeywordsOf(environment, expand)

\* It stays so.
LEMMA CommandStep == FieldInv /\ CommandInv /\ [Next]_vars => CommandInv'
<1>. SUFFICES ASSUME FieldInv, CommandInv, [Next]_vars, phase' \in AfterCommand
              PROVE  \E before \in Seq(AnyWords) : \E expand :
                       config'.acceptKeywords = before \o KeywordsOf(environment', expand)
  BY DEF CommandInv, AnyWords, Names
<1>1. CASE applyConfigEnvironment
  <2>1. config' = [config EXCEPT !.variables = config'.variables,
                                 !.acceptKeywords = @ \o KeywordsOf(environment', config.useExpand),
                                 !.commandUse = config'.commandUse]
    BY <1>1 DEF applyConfigEnvironment, KeywordsOf, FieldInv, Fields
  <2>2. config'.acceptKeywords = config.acceptKeywords \o KeywordsOf(environment', config.useExpand)
    BY <2>1 DEF FieldInv, Fields
  <2>3. config.acceptKeywords \in Seq(AnyWords)
    BY TypesOfFields DEF FieldInv, Fields
  <2>. QED BY <2>2, <2>3
<1>2. CASE ~applyConfigEnvironment
  <2>1. phase \in AfterCommand /\ environment' = environment
    BY <1>2 DEF AfterCommand, Next, WalkMasters, RepositoriesKnown, ReadGlobals, WalkParents, ProfileKnown,
      MergeLayer, LayersMerged, ReadDefaults, DefaultsRead, ReadMakeConf, ReadPackageUse, ReadPackageKeywords,
      MaskRepository, RepositoriesMasked, MaskDirectory, DirectoriesMasked, MaskUser, Fail, Returned,
      Goes, Turn, Over, vars, readVars
  <2>2. CASE config' = config
    BY <2>1, <2>2 DEF CommandInv
  <2>3. CASE config' # config
    <3>1. ReadPackageKeywords \/ MaskRepository \/ MaskDirectory \/ MaskUser
      BY <1>2, <2>1, <2>3 DEF AfterCommand, Next, WalkMasters, RepositoriesKnown, ReadGlobals, WalkParents,
        ProfileKnown, MergeLayer, LayersMerged, ReadDefaults, DefaultsRead, ReadMakeConf, ReadPackageUse,
        RepositoriesMasked, DirectoriesMasked, Fail, Returned, Goes, Turn, Over, vars, readVars
    <3>2. config'.acceptKeywords = config.acceptKeywords
      BY <3>1 DEF ReadPackageKeywords, MaskRepository, MaskDirectory, MaskUser, Mask, FieldInv, Fields
    <3>. QED BY <2>1, <3>2 DEF CommandInv
  <2>. QED BY <2>2, <2>3
<1>. QED BY <1>1, <1>2

\* Without a rule that matches there is nothing that rules say of keywords.
LEMMA NoRules ==
  ASSUME NEW rules \in Seq(Rules), ~Matched(rules), NEW architecture
  PROVE  RuleKeywords(rules, architecture) = <<>>
<1>. DEFINE Named(rule) == IF rule.changes = <<>> THEN <<Change(TestingOf[architecture], TRUE)>> ELSE rule.changes
            named == [i \in DOMAIN rules |-> [rules[i] EXCEPT !.changes = Named(rules[i])]]
            n == Len(rules)
            q == [i \in DOMAIN named |-> IF named[i].atom \in Matching THEN named[i].changes ELSE <<>>]
<1>1. n \in Nat /\ DOMAIN rules = 1..n /\ \A i \in 1..n : rules[i] \in Rules
  OBVIOUS
<1>2. \A i \in 1..n : rules[i].atom \notin Matching
  BY <1>1 DEF Matched
<1>. HIDE DEF n, Named
<1>3. DOMAIN named = 1..n /\ \A i \in 1..n : named[i].atom = rules[i].atom
  BY <1>1 DEF Rules
<1>4. q = [i \in 1..n |-> <<>>]
  BY <1>2, <1>3
<1>5. DOMAIN q = 1..n
  BY <1>3
<1>. HIDE DEF named
<1>6. FlattenSeq(q) = <<>>
  <2>. HIDE DEF q
  <2>. QED BY <1>1, <1>4, <1>5, JoinedNothing
<1>. QED BY <1>6 DEF RuleKeywords, MatchingChanges, named, Named

(***************************************************************************)
(* ACCEPT_KEYWORDS in the environment of the command takes back whatever   *)
(* the files say of keywords, for every package without rules of its own   *)
(* (applyConfigEnvironment and EvaluateVisibility).                        *)
(***************************************************************************)
THEOREM CommandResetsAlways == Spec => []CommandResets
<1>1. Init => CommandInv
  BY DEF Init, CommandInv, AfterCommand
<1>2. Spec => []CommandInv
  BY <1>1, CommandStep, TypeInvAlways, PTL DEF Spec, TypeInv
<1>3. FieldInv /\ ReadInv /\ CommandInv => CommandResets
  <2>. SUFFICES ASSUME FieldInv, ReadInv, CommandInv, phase = "ready", ~Matched(config.packageKeywords),
                       NEW i \in DOMAIN environment, IsKeywords(environment[i]),
                       \A j \in i + 1..Len(environment) : ~IsKeywords(environment[j]),
                       NEW c \in Candidates
                PROVE  EvaluateCandidate(config, c).visibility.accepted = applyKeywordChanges(<<>>, environment[i].value)
    BY DEF CommandResets, IsKeywords
  <2>0. PICK before \in Seq(AnyWords) : \E expand :
               config.acceptKeywords = before \o KeywordsOf(environment, expand)
    BY DEF CommandInv, AfterCommand
  <2>1. PICK expand : config.acceptKeywords = before \o KeywordsOf(environment, expand)
    BY <2>0
  <2>2. config.packageKeywords \in Seq(Rules) /\ environment \in Seq(Assignments)
    BY TypesOfFields DEF FieldInv, Fields, ReadInv
  <2>3. RuleKeywords(config.packageKeywords, Architecture(config)) = <<>>
    BY <2>2, NoRules
  <2>4. PICK said \in Seq(AnyWords) : said = KeywordsOf(environment, expand)
    BY <2>2, KeywordsType
  <2>5. \A b : applyKeywordChanges(b, said) = applyKeywordChanges(<<>>, environment[i].value)
    BY <2>2, <2>4, LastEntryDecides, FoldsOfPolicy
  <2>6. config.acceptKeywords \o <<>> = before \o said
    BY <2>1, <2>4
  <2>7. \A b : applyKeywordChanges(b, before \o said) = applyKeywordChanges(applyKeywordChanges(b, before), said)
    BY KeywordFolds!FoldConcat, FoldsOfPolicy
  <2>8. EvaluateCandidate(config, c).visibility.accepted
          = applyKeywordChanges(<<Architecture(config)>>,
              config.acceptKeywords \o RuleKeywords(config.packageKeywords, Architecture(config)))
    BY DEF EvaluateCandidate, EvaluateVisibility
  <2>. QED BY <2>3, <2>5, <2>6, <2>7, <2>8
<1>. QED BY <1>2, <1>3, TypeInvAlways, PTL DEF TypeInv

-----------------------------------------------------------------------------
(* Flags and their evidence                                                *)

Kinds == OrdinaryKinds \cup Forces \cup Masks
Items == [kind : Kinds, enabled : BOOLEAN]
OrdinaryEntries == [kind : OrdinaryKinds, change : AnyWords]
ForceEntries == [kind : Forces \cup Masks, change : AnyWords]
DecisionSet == [enabled : BOOLEAN, forced : BOOLEAN, masked : BOOLEAN, evidence : Seq(Items)]

\* what the last item of these kinds says
LatestOf(evidence, kinds, default) ==
  LastIn(evidence, [kind : kinds, enabled : BOOLEAN], Evidence("none", default)).enabled

\* a decision, before it is settled, that its evidence explains
Explained(d) ==
  /\ d.enabled = LatestOf(d.evidence, OrdinaryKinds, FALSE)
  /\ d.forced = LatestOf(d.evidence, Forces, FALSE)
  /\ d.masked = ~LatestOf(d.evidence, Masks, TRUE)
ExplainedSet == {d \in DecisionSet : Explained(d)}

\* The last element in a set is what SequenceFolds calls the latest.
LEMMA LastIsLatest == \A list, S, default : LastIn(list, S, default) = ProfileFolds!Latest(list, S, default)
BY DEF LastIn, ProfileFolds!Latest, SelectLastInSeq, ProfileFolds!SelectLastInSeq, Max, ProfileFolds!Max

\* What is said of forces and masks is not said of anything else.
LEMMA KindsDiffer ==
  /\ \A kind \in OrdinaryKinds : kind \notin Forces /\ kind \notin Masks
  /\ \A kind \in Forces : kind \notin Masks /\ kind \notin OrdinaryKinds
  /\ \A kind \in Masks : kind \notin Forces /\ kind \notin OrdinaryKinds
BY DEF OrdinaryKinds, Forces, Masks

\* The latest is the new item, if it is of the kind.
LEMMA LatestItem ==
  ASSUME NEW evidence \in Seq(Items), NEW kind \in Kinds, NEW b \in BOOLEAN, NEW kinds, NEW default \in BOOLEAN
  PROVE  LatestOf(Append(evidence, Evidence(kind, b)), kinds, default)
           = IF kind \in kinds THEN b ELSE LatestOf(evidence, kinds, default)
<1>. DEFINE S == [kind : kinds, enabled : BOOLEAN]
<1>1. PICK item \in Items : item = Evidence(kind, b)
  BY DEF Items, Evidence
<1>2. item.kind = kind /\ item.enabled = b
  BY <1>1 DEF Evidence
<1>3. item \in S <=> kind \in kinds
  BY <1>2 DEF Items
<1>. HIDE DEF S
<1>4. \A d : ProfileFolds!Latest(Append(evidence, item), S, d)
               = IF item \in S THEN item ELSE ProfileFolds!Latest(evidence, S, d)
  BY ProfileFolds!LatestAppend
<1>5. \A d : LastIn(Append(evidence, item), S, d) = IF item \in S THEN item ELSE LastIn(evidence, S, d)
  BY <1>4, LastIsLatest
<1>6. CASE kind \in kinds
  BY <1>1, <1>2, <1>3, <1>5, <1>6 DEF LatestOf, S
<1>7. CASE kind \notin kinds
  BY <1>1, <1>3, <1>5, <1>7 DEF LatestOf, S
<1>. QED BY <1>6, <1>7

\* Without evidence the latest is the default.
LEMMA LatestOfNone ==
  ASSUME NEW kinds, NEW default \in BOOLEAN
  PROVE  LatestOf(<<>>, kinds, default) = default
<1>. DEFINE S == [kind : kinds, enabled : BOOLEAN]
<1>1. <<>> \in Seq(Items) /\ \A i \in DOMAIN <<>> : <<>>[i] \notin S
  OBVIOUS
<1>. HIDE DEF S
<1>2. \A d : ProfileFolds!Latest(<<>>, S, d) = d
  BY <1>1, ProfileFolds!LatestNone
<1>3. LatestOf(<<>>, kinds, default) = Evidence("none", default).enabled
  BY <1>2, LastIsLatest DEF LatestOf, S
<1>. QED BY <1>3 DEF Evidence

\* An ordinary change is explained by the evidence that it leaves.
LEMMA ChangeExplained ==
  ASSUME NEW d \in ExplainedSet, NEW kind \in OrdinaryKinds, NEW b \in BOOLEAN
  PROVE  [d EXCEPT !.enabled = b, !.evidence = Append(@, Evidence(kind, b))] \in ExplainedSet
<1>. DEFINE ev == Append(d.evidence, Evidence(kind, b))
            e == [d EXCEPT !.enabled = b, !.evidence = ev]
<1>1. d \in DecisionSet /\ Explained(d) /\ d.evidence \in Seq(Items)
  BY DEF ExplainedSet, DecisionSet
<1>2. kind \in Kinds /\ Evidence(kind, b) \in Items
  BY DEF Kinds, Items, Evidence
<1>3. ev \in Seq(Items)
  BY <1>1, <1>2
<1>4. /\ LatestOf(ev, OrdinaryKinds, FALSE) = b
      /\ LatestOf(ev, Forces, FALSE) = LatestOf(d.evidence, Forces, FALSE)
      /\ LatestOf(ev, Masks, TRUE) = LatestOf(d.evidence, Masks, TRUE)
  <2>1. \A kinds : \A default \in BOOLEAN :
          LatestOf(ev, kinds, default) = IF kind \in kinds THEN b ELSE LatestOf(d.evidence, kinds, default)
    BY <1>1, <1>2, LatestItem
  <2>2. kind \in OrdinaryKinds /\ kind \notin Forces /\ kind \notin Masks
    BY KindsDiffer
  <2>. HIDE DEF ev
  <2>. QED BY <2>1, <2>2
<1>. HIDE DEF ev
<1>5. e \in DecisionSet /\ e.enabled = b /\ e.evidence = ev /\ e.forced = d.forced /\ e.masked = d.masked
  BY <1>1, <1>3 DEF DecisionSet
<1>. HIDE DEF e
<1>6. Explained(e)
  BY <1>1, <1>4, <1>5 DEF Explained
<1>. QED BY <1>5, <1>6 DEF ExplainedSet, e, ev

\* So is what is forced or masked.
LEMMA ForceExplained ==
  ASSUME NEW d \in ExplainedSet, NEW kind \in Forces \cup Masks, NEW b \in BOOLEAN
  PROVE  [d EXCEPT !.forced = IF kind \in Forces THEN b ELSE @,
                   !.masked = IF kind \in Masks THEN b ELSE @,
                   !.evidence = Append(@, Evidence(kind, b = (kind \in Forces)))] \in ExplainedSet
<1>. DEFINE force == IF kind \in Forces THEN b ELSE d.forced
            mask == IF kind \in Masks THEN b ELSE d.masked
<1>1. d \in DecisionSet /\ Explained(d) /\ d.evidence \in Seq(Items)
  BY DEF ExplainedSet, DecisionSet
<1>2. PICK says \in BOOLEAN : says = (b = (kind \in Forces))
  OBVIOUS
<1>3. kind \in Kinds /\ Evidence(kind, says) \in Items
  BY DEF Kinds, Items, Evidence
<1>. DEFINE ev == Append(d.evidence, Evidence(kind, says))
            e == [d EXCEPT !.forced = force, !.masked = mask, !.evidence = ev]
<1>4. ev \in Seq(Items)
  BY <1>1, <1>3
<1>5. /\ LatestOf(ev, OrdinaryKinds, FALSE) = LatestOf(d.evidence, OrdinaryKinds, FALSE)
      /\ LatestOf(ev, Forces, FALSE) = IF kind \in Forces THEN says ELSE LatestOf(d.evidence, Forces, FALSE)
      /\ LatestOf(ev, Masks, TRUE) = IF kind \in Masks THEN says ELSE LatestOf(d.evidence, Masks, TRUE)
  <2>1. \A kinds : \A default \in BOOLEAN :
          LatestOf(ev, kinds, default) = IF kind \in kinds THEN says ELSE LatestOf(d.evidence, kinds, default)
    BY <1>1, <1>3, LatestItem
  <2>2. kind \notin OrdinaryKinds
    BY KindsDiffer
  <2>. HIDE DEF ev
  <2>. QED BY <2>1, <2>2
<1>6. force \in BOOLEAN /\ mask \in BOOLEAN
  BY <1>1 DEF DecisionSet
<1>7. force = LatestOf(ev, Forces, FALSE) /\ mask = ~LatestOf(ev, Masks, TRUE)
  <2>1. CASE kind \in Forces
    BY <1>1, <1>2, <1>5, <2>1, KindsDiffer DEF Explained
  <2>2. CASE kind \in Masks
    <3>1. kind \notin Forces
      BY <2>2, KindsDiffer
    <3>2. says = ~b
      BY <1>2, <3>1
    <3>. HIDE DEF ev
    <3>3. force = LatestOf(ev, Forces, FALSE)
      BY <1>1, <1>5, <3>1 DEF Explained
    <3>4. mask = ~LatestOf(ev, Masks, TRUE)
      BY <1>5, <2>2, <3>2
    <3>. QED BY <3>3, <3>4
  <2>. QED BY <2>1, <2>2
<1>. HIDE DEF ev, force, mask
<1>8. e \in DecisionSet /\ e.enabled = d.enabled /\ e.evidence = ev /\ e.forced = force /\ e.masked = mask
  BY <1>1, <1>4, <1>6 DEF DecisionSet
<1>. HIDE DEF e
<1>9. Explained(e)
  BY <1>1, <1>5, <1>7, <1>8 DEF Explained
<1>10. e \in ExplainedSet
  BY <1>8, <1>9 DEF ExplainedSet
<1>. QED BY <1>2, <1>10 DEF e, ev, force, mask

\* An item after none.
LEMMA AppendToNone == \A x : Append(<<>>, x) = <<x>>
OBVIOUS

\* The declared default is the first evidence.
LEMMA DeclaredExplained == \A declared : Declared(declared) \in [DOMAIN declared -> ExplainedSet]
<1>. SUFFICES ASSUME NEW declared PROVE Declared(declared) \in [DOMAIN declared -> ExplainedSet]
  OBVIOUS
<1>1. ASSUME NEW flag \in DOMAIN declared PROVE Declared(declared)[flag] \in ExplainedSet
  <2>1. PICK b \in BOOLEAN : b = (declared[flag] = "+")
    OBVIOUS
  <2>2. PICK list : list = IF declared[flag] = "" THEN <<>> ELSE <<Evidence("iuse-default", b)>>
    OBVIOUS
  <2>3. PICK kind \in OrdinaryKinds : kind = "iuse-default"
    BY DEF OrdinaryKinds
  <2>4. kind \in Kinds /\ kind \notin Forces /\ kind \notin Masks
    BY KindsDiffer DEF Kinds
  <2>0. <<>> \in Seq(Items)
    OBVIOUS
  <2>5. PICK none \in Seq(Items) : none = <<>>
    BY <2>0, Zenon
  <2>6. /\ list \in Seq(Items)
        /\ LatestOf(list, OrdinaryKinds, FALSE) = b
        /\ LatestOf(list, Forces, FALSE) = FALSE /\ LatestOf(list, Masks, TRUE) = TRUE
    <3>1. CASE declared[flag] = ""
      <4>1. b = FALSE /\ list = <<>>
        BY <2>1, <2>2, <3>1
      <4>. QED BY <2>5, <4>1, LatestOfNone
    <3>2. CASE declared[flag] # ""
      <4>1. list = Append(none, Evidence(kind, b))
        BY <2>2, <2>3, <2>5, <3>2, AppendToNone
      <4>2. Evidence(kind, b) \in Items
        BY <2>4 DEF Items, Evidence
      <4>3. \A kinds : \A default \in BOOLEAN :
              LatestOf(Append(none, Evidence(kind, b)), kinds, default)
                = IF kind \in kinds THEN b ELSE LatestOf(none, kinds, default)
        BY <2>4, LatestItem
      <4>4. list \in Seq(Items)
        BY <2>5, <4>1, <4>2
      <4>. QED BY <2>4, <2>5, <4>1, <4>3, <4>4, LatestOfNone
    <3>. QED BY <3>1, <3>2
  <2>. DEFINE d == [enabled |-> b, forced |-> FALSE, masked |-> FALSE, evidence |-> list]
  <2>7. Declared(declared)[flag] = d
    BY <2>1, <2>2 DEF Declared
  <2>8. d \in DecisionSet
    BY <2>6 DEF DecisionSet
  <2>9. d.enabled = b /\ d.forced = FALSE /\ d.masked = FALSE /\ d.evidence = list
    OBVIOUS
  <2>. HIDE DEF d
  <2>10. Explained(d)
    BY <2>6, <2>9 DEF Explained
  <2>. QED BY <2>7, <2>8, <2>10 DEF ExplainedSet
<1>. QED BY <1>1 DEF Declared

\* What EvaluateUse folds are folds.
LEMMA FoldsOfUse ==
  /\ \A b, q : FoldLeft(applyChange, b, q) = UseFolds!Fold(b, q)
  /\ \A b, q : FoldLeft(applyForceMask, b, q) = ForceFolds!Fold(b, q)
<1>1. \A b, q : FoldLeft(applyChange, b, q) = UseFolds!Fold(b, q)
  BY DEF UseFolds!Fold, FoldLeft, UseFolds!FoldLeft, MapThenFoldSet, UseFolds!MapThenFoldSet, Max, UseFolds!Max
<1>2. \A b, q : FoldLeft(applyForceMask, b, q) = ForceFolds!Fold(b, q)
  BY DEF ForceFolds!Fold, FoldLeft, ForceFolds!FoldLeft, MapThenFoldSet, ForceFolds!MapThenFoldSet, Max,
    ForceFolds!Max
<1>. QED BY <1>1, <1>2

\* Tagged words are entries of that kind.
LEMMA TaggedType ==
  ASSUME NEW K, NEW kind \in K, NEW words \in Seq(AnyWords)
  PROVE  Tagged(kind, words) \in Seq([kind : K, change : AnyWords])
<1>. DEFINE entry(w) == [kind |-> kind, change |-> w]
<1>1. \A i \in DOMAIN words : words[i] \in AnyWords
  OBVIOUS
<1>2. \A w \in AnyWords : entry(w) \in [kind : K, change : AnyWords]
  OBVIOUS
<1>3. DOMAIN words = 1..Len(words) /\ Len(words) \in Nat
  OBVIOUS
<1>4. Tagged(kind, words) = [i \in DOMAIN words |-> entry(words[i])]
  BY DEF Tagged
<1>. HIDE DEF entry
<1>. QED BY <1>1, <1>2, <1>3, <1>4

\* What the rules that match say is words.
LEMMA MatchingType ==
  ASSUME NEW rules \in Seq(AnyRules)
  PROVE  MatchingChanges(rules) \in Seq(AnyWords)
<1>. DEFINE f == [r \in AnyRules |-> IF r.atom \in Matching THEN r.changes ELSE <<>>]
<1>1. f \in [AnyRules -> Seq(AnyWords)]
  BY DEF AnyRules
<1>2. [i \in DOMAIN rules |-> f[rules[i]]]
        = [i \in DOMAIN rules |-> IF rules[i].atom \in Matching THEN rules[i].changes ELSE <<>>]
  OBVIOUS
<1>. HIDE DEF f
<1>3. MatchingChanges(rules) = Collect(f, rules)
  BY <1>2 DEF MatchingChanges, Collect
<1>. QED BY <1>1, <1>3, Collected

\* The ordinary changes are entries of ordinary kinds.
LEMMA OrdinaryType == FieldInv => Ordinary(config) \in Seq(OrdinaryEntries)
<1>. SUFFICES ASSUME FieldInv PROVE Ordinary(config) \in Seq(OrdinaryEntries)
  OBVIOUS
<1>1. /\ config.profileUse \in Seq(AnyWords) /\ config.userUse \in Seq(AnyWords)
      /\ config.commandUse \in Seq(AnyWords)
      /\ config.packageUse \in Seq(Rules) /\ config.userPackageUse \in Seq(Rules)
  BY TypesOfFields DEF FieldInv, Fields
<1>2. config.packageUse \in Seq(AnyRules) /\ config.userPackageUse \in Seq(AnyRules)
  BY <1>1, WordsAreWords
<1>3. MatchingChanges(config.packageUse) \in Seq(AnyWords) /\ MatchingChanges(config.userPackageUse) \in Seq(AnyWords)
  BY <1>2, MatchingType
<1>4. \A kind \in OrdinaryKinds, words \in Seq(AnyWords) : Tagged(kind, words) \in Seq(OrdinaryEntries)
  BY TaggedType DEF OrdinaryEntries
<1>5. /\ Tagged("profile-use", config.profileUse) \in Seq(OrdinaryEntries)
      /\ Tagged("profile-package-use", MatchingChanges(config.packageUse)) \in Seq(OrdinaryEntries)
      /\ Tagged("user-use", config.userUse) \in Seq(OrdinaryEntries)
      /\ Tagged("user-package-use", MatchingChanges(config.userPackageUse)) \in Seq(OrdinaryEntries)
      /\ Tagged("command-use", config.commandUse) \in Seq(OrdinaryEntries)
  BY <1>1, <1>3, <1>4 DEF OrdinaryKinds
<1>. QED BY <1>5 DEF Ordinary

\* What a layer forces and masks is entries of those kinds.
LEMMA LayerEntriesType ==
  ASSUME dialect \in Dialects, NEW layer \in LayerContents, NEW stable
  PROVE  LayerForceMask(layer, stable) \in Seq(ForceEntries)
<1>1. Seq(Words) \subseteq Seq(AnyWords) /\ Seq(Rules) \subseteq Seq(AnyRules)
  BY WordsAreWords
<1>2. /\ layer.useForce \in Seq(AnyWords) /\ layer.useMask \in Seq(AnyWords)
      /\ layer.stableForce \in Seq(AnyWords) /\ layer.stableMask \in Seq(AnyWords)
      /\ layer.packageForce \in Seq(AnyRules) /\ layer.packageMask \in Seq(AnyRules)
      /\ layer.packageStableForce \in Seq(AnyRules) /\ layer.packageStableMask \in Seq(AnyRules)
  BY <1>1, LayerTypes
<1>3. /\ MatchingChanges(layer.packageForce) \in Seq(AnyWords) /\ MatchingChanges(layer.packageMask) \in Seq(AnyWords)
      /\ MatchingChanges(layer.packageStableForce) \in Seq(AnyWords)
      /\ MatchingChanges(layer.packageStableMask) \in Seq(AnyWords)
  BY <1>2, MatchingType
<1>4. \A kind \in Forces \cup Masks, words \in Seq(AnyWords) : Tagged(kind, words) \in Seq(ForceEntries)
  BY TaggedType DEF ForceEntries
<1>5. /\ Tagged("profile-force", layer.useForce) \in Seq(ForceEntries)
      /\ Tagged("profile-mask", layer.useMask) \in Seq(ForceEntries)
      /\ Tagged("profile-stable-force", layer.stableForce) \in Seq(ForceEntries)
      /\ Tagged("profile-stable-mask", layer.stableMask) \in Seq(ForceEntries)
      /\ Tagged("package-force", MatchingChanges(layer.packageForce)) \in Seq(ForceEntries)
      /\ Tagged("package-mask", MatchingChanges(layer.packageMask)) \in Seq(ForceEntries)
      /\ Tagged("package-stable-force", MatchingChanges(layer.packageStableForce)) \in Seq(ForceEntries)
      /\ Tagged("package-stable-mask", MatchingChanges(layer.packageStableMask)) \in Seq(ForceEntries)
  BY <1>2, <1>3, <1>4 DEF Forces, Masks
<1>6. <<>> \in Seq(ForceEntries)
  OBVIOUS
<1>7. CASE stable
  BY <1>5, <1>7 DEF LayerForceMask
<1>8. CASE ~stable
  BY <1>5, <1>6, <1>8 DEF LayerForceMask
<1>. QED BY <1>7, <1>8

\* So is what all layers do.
LEMMA LayersEntriesType ==
  ASSUME ReadInv, ShapeInv, NEW stable
  PROVE  FlattenSeq([i \in DOMAIN config.layers |-> LayerForceMask(config.layers[i], stable)]) \in Seq(ForceEntries)
<1>. DEFINE f == [layer \in LayerContents |-> LayerForceMask(layer, stable)]
<1>1. f \in [LayerContents -> Seq(ForceEntries)]
  BY LayerEntriesType DEF ReadInv
<1>2. config.layers \in Seq(LayerContents)
  BY DEF ShapeInv
<1>3. [i \in DOMAIN config.layers |-> f[config.layers[i]]]
        = [i \in DOMAIN config.layers |-> LayerForceMask(config.layers[i], stable)]
  BY <1>2
<1>. HIDE DEF f
<1>4. Collect(f, config.layers) \in Seq(ForceEntries)
  BY <1>1, <1>2, Collected
<1>. QED BY <1>3, <1>4 DEF Collect

\* Folding ordinary changes leaves decisions explained.
LEMMA ChangesExplained ==
  ASSUME NEW flags, NEW decisions \in [flags -> ExplainedSet], NEW entries \in Seq(OrdinaryEntries)
  PROVE  UseFolds!Fold(decisions, entries) \in [flags -> ExplainedSet]
<1>1. ASSUME NEW ds \in [flags -> ExplainedSet], NEW entry \in OrdinaryEntries
      PROVE  applyChange(ds, entry) \in [flags -> ExplainedSet]
  <2>1. entry.kind \in OrdinaryKinds /\ entry.change.enabled \in BOOLEAN
    BY DEF OrdinaryEntries, AnyWords
  <2>2. \A flag \in flags :
          [ds[flag] EXCEPT !.enabled = entry.change.enabled,
                           !.evidence = Append(@, Evidence(entry.kind, entry.change.enabled))] \in ExplainedSet
    BY <2>1, ChangeExplained
  <2>. QED BY <2>2 DEF applyChange
<1>. QED BY <1>1, UseFolds!FoldInvariant

\* So does folding what is forced and masked.
LEMMA ForcesExplained ==
  ASSUME NEW flags, NEW decisions \in [flags -> ExplainedSet], NEW entries \in Seq(ForceEntries)
  PROVE  ForceFolds!Fold(decisions, entries) \in [flags -> ExplainedSet]
<1>1. ASSUME NEW ds \in [flags -> ExplainedSet], NEW entry \in ForceEntries
      PROVE  applyForceMask(ds, entry) \in [flags -> ExplainedSet]
  <2>1. entry.kind \in Forces \cup Masks /\ entry.change.enabled \in BOOLEAN
    BY DEF ForceEntries, AnyWords
  <2>2. \A flag \in flags :
          [ds[flag] EXCEPT
             !.forced = IF entry.kind \in Forces THEN entry.change.enabled ELSE @,
             !.masked = IF entry.kind \in Masks THEN entry.change.enabled ELSE @,
             !.evidence = Append(@, Evidence(entry.kind, entry.change.enabled = (entry.kind \in Forces)))]
            \in ExplainedSet
    BY <2>1, ForceExplained
  <2>. QED BY <2>2 DEF applyForceMask
<1>. QED BY <1>1, ForceFolds!FoldInvariant

\* Before they are settled, the decisions of EvaluateUse are explained.
LEMMA EvaluationExplained ==
  ASSUME ReadInv, ShapeInv, FieldInv, NEW declared, NEW stable
  PROVE  \E decisions \in [DOMAIN declared -> ExplainedSet] :
           EvaluateUse(config, declared, stable) = [flag \in DOMAIN declared |-> Settled(decisions[flag])]
<1>. DEFINE layers == FlattenSeq([i \in DOMAIN config.layers |-> LayerForceMask(config.layers[i], stable)])
            ordinary == FoldLeft(applyChange, Declared(declared), Ordinary(config))
            decisions == FoldLeft(applyForceMask, ordinary, layers)
<1>1. Declared(declared) \in [DOMAIN declared -> ExplainedSet]
  BY DeclaredExplained
<1>2. Ordinary(config) \in Seq(OrdinaryEntries)
  BY OrdinaryType
<1>3. layers \in Seq(ForceEntries)
  BY LayersEntriesType
<1>. HIDE DEF layers
<1>4. ordinary \in [DOMAIN declared -> ExplainedSet]
  BY <1>1, <1>2, ChangesExplained, FoldsOfUse
<1>. HIDE DEF ordinary
<1>5. decisions \in [DOMAIN declared -> ExplainedSet]
  BY <1>3, <1>4, ForcesExplained, FoldsOfUse
<1>6. EvaluateUse(config, declared, stable) = [flag \in DOMAIN decisions |-> Settled(decisions[flag])]
  BY DEF EvaluateUse, decisions, ordinary, layers
<1>. HIDE DEF decisions
<1>. QED BY <1>5, <1>6

(***************************************************************************)
(* The evidence of every flag explains its decision, whatever the files    *)
(* say and whatever the package declares (use.go, EvaluateUse).            *)
(***************************************************************************)
LEMMA UseExplained == ReadInv /\ ShapeInv /\ FieldInv => UseFollowsEvidence
<1>. SUFFICES ASSUME ReadInv, ShapeInv, FieldInv, NEW declared, NEW stable,
                     NEW decision \in Range(EvaluateUse(config, declared, stable))
              PROVE  decision.enabled <=> /\ LatestOf(decision.evidence, Masks, TRUE)
                                          /\ \/ LatestOf(decision.evidence, Forces, FALSE)
                                             \/ LatestOf(decision.evidence, OrdinaryKinds, FALSE)
  BY DEF UseFollowsEvidence, Decisions, LatestOf
<1>1. PICK decisions \in [DOMAIN declared -> ExplainedSet] :
             EvaluateUse(config, declared, stable) = [flag \in DOMAIN declared |-> Settled(decisions[flag])]
  BY EvaluationExplained
<1>2. PICK flag \in DOMAIN declared : decision = Settled(decisions[flag])
  BY <1>1 DEF Range
<1>3. PICK d \in ExplainedSet : d = decisions[flag]
  OBVIOUS
<1>4. d \in DecisionSet /\ Explained(d)
  BY DEF ExplainedSet
<1>5. decision = Settled(d)
  BY <1>2, <1>3
<1>6. decision.evidence = d.evidence /\ decision.enabled = ((d.forced \/ d.enabled) /\ ~d.masked)
  BY <1>4, <1>5 DEF Settled, DecisionSet
<1>. QED BY <1>4, <1>6 DEF Explained

-----------------------------------------------------------------------------
(* Visibility and its evidence                                             *)

KeywordKinds == {"accept-keywords", "package-accept-keywords"}
VisibilityKinds == {"package-mask", "package-unmask"} \cup KeywordKinds
VisibilityItems == [kind : VisibilityKinds, change : AnyWords]
About(keyword) == {item \in [kind : KeywordKinds, change : AnyWords] : Applies(item.change, keyword)}

\* what the last item about a keyword, or about all, says of it
LatestAbout(evidence, keyword, default) == LastIn(evidence, About(keyword), default).change.enabled

\* A list of both has the elements of either.
LEMMA RangeOfBoth ==
  ASSUME NEW T, NEW p \in Seq(T), NEW q \in Seq(T)
  PROVE  Range(p \o q) = Range(p) \cup Range(q)
<1>. DEFINE m == Len(p)
            n == Len(q)
            r == p \o q
<1>1. /\ m \in Nat /\ n \in Nat /\ DOMAIN p = 1..m /\ DOMAIN q = 1..n /\ DOMAIN r = 1..m + n
      /\ \A i \in 1..m + n : r[i] = IF i <= m THEN p[i] ELSE q[i - m]
  OBVIOUS
<1>. HIDE DEF m, n, r
<1>2. \A i \in 1..m : i \in 1..m + n /\ i <= m
  BY <1>1
<1>3. \A i \in 1..n : m + i \in 1..m + n /\ ~(m + i <= m) /\ (m + i) - m = i
  BY <1>1
<1>4. \A i \in 1..m + n : i <= m \/ i - m \in 1..n
  BY <1>1
<1>5. Range(p) \cup Range(q) \subseteq Range(r)
  <2>1. \A i \in 1..m : i \in DOMAIN r /\ r[i] = p[i]
    BY <1>1, <1>2
  <2>2. \A i \in 1..n : m + i \in DOMAIN r /\ r[m + i] = q[i]
    BY <1>1, <1>3
  <2>3. Range(p) \subseteq Range(r)
    BY <1>1, <2>1 DEF Range
  <2>4. Range(q) \subseteq Range(r)
    BY <1>1, <2>2 DEF Range
  <2>. QED BY <2>3, <2>4
<1>6. \A x : x \in Range(r) => x \in Range(p) \/ x \in Range(q)
  <2>. SUFFICES ASSUME NEW i \in 1..m + n PROVE r[i] \in Range(p) \/ r[i] \in Range(q)
    BY <1>1 DEF Range
  <2>1. CASE i <= m
    <3>1. i \in 1..m /\ r[i] = p[i]
      BY <1>1, <2>1
    <3>. QED BY <1>1, <3>1 DEF Range
  <2>2. CASE ~(i <= m)
    <3>1. i - m \in 1..n /\ r[i] = q[i - m]
      BY <1>1, <1>4, <2>2
    <3>. QED BY <1>1, <3>1 DEF Range
  <2>. QED BY <2>1, <2>2
<1>. QED BY <1>5, <1>6 DEF r

\* One word more is one item more.
LEMMA TaggedAppend ==
  ASSUME NEW kind, NEW words \in Seq(AnyWords), NEW word \in AnyWords
  PROVE  Tagged(kind, Append(words, word)) = Append(Tagged(kind, words), [kind |-> kind, change |-> word])
<1>. DEFINE U == [kind : {kind}, change : AnyWords]
            f == [w \in AnyWords |-> [kind |-> kind, change |-> w]]
<1>1. f \in [AnyWords -> U]
  OBVIOUS
<1>2. ASSUME NEW q \in Seq(AnyWords) PROVE Tagged(kind, q) = ProfileFolds!Mapped(f, q)
  <2>1. \A i \in DOMAIN q : q[i] \in AnyWords
    OBVIOUS
  <2>. QED BY <2>1 DEF Tagged, ProfileFolds!Mapped
<1>3. Append(words, word) \in Seq(AnyWords)
  OBVIOUS
<1>4. f[word] = [kind |-> kind, change |-> word]
  OBVIOUS
<1>. HIDE DEF f, U
<1>5. ProfileFolds!Mapped(f, Append(words, word)) = Append(ProfileFolds!Mapped(f, words), f[word])
  BY <1>1, ProfileFolds!MapAppend
<1>. QED BY <1>2, <1>3, <1>4, <1>5

\* A change says of the keywords it is about whether they are accepted, and of
\* others nothing.
LEMMA KeywordStep ==
  ASSUME NEW list \in Seq(Names), NEW w \in AnyWords
  PROVE  /\ applyKeywordChange(list, w) \in Seq(Names)
         /\ \A keyword : keyword \in Range(applyKeywordChange(list, w))
                           <=> IF Applies(w, keyword) THEN w.enabled ELSE keyword \in Range(list)
<1>1. w.name \in Names /\ w.enabled \in BOOLEAN /\ w.reference \in BOOLEAN
  BY DEF AnyWords
<1>2. CASE w.reference
  BY <1>2 DEF applyKeywordChange, Applies, Resets, Says
<1>3. CASE Resets(w)
  <2>1. applyKeywordChange(list, w) = <<>> /\ ~w.enabled
    BY <1>3 DEF applyKeywordChange, Resets, Says
  <2>2. <<>> \in Seq(Names) /\ Range(<<>>) = {}
    BY DEF Range
  <2>. QED BY <1>3, <2>1, <2>2 DEF Applies
<1>4. CASE ~w.reference /\ ~Resets(w) /\ ~w.enabled
  <2>1. applyKeywordChange(list, w) = Without(list, w.name)
    BY <1>4 DEF applyKeywordChange
  <2>2. Without(list, w.name) \in Seq(Names) /\ Range(Without(list, w.name)) = Range(list) \ {w.name}
    BY WithoutFacts
  <2>. QED BY <1>4, <2>1, <2>2 DEF Applies, Says
<1>5. CASE ~w.reference /\ w.enabled
  <2>1. ~Resets(w) /\ \A keyword : Applies(w, keyword) <=> keyword = w.name
    BY <1>5 DEF Resets, Applies, Says
  <2>2. CASE w.name \in Range(list)
    <3>1. applyKeywordChange(list, w) = list
      BY <1>5, <2>1, <2>2 DEF applyKeywordChange
    <3>. QED BY <1>5, <2>1, <2>2, <3>1
  <2>3. CASE w.name \notin Range(list)
    <3>1. applyKeywordChange(list, w) = Append(list, w.name)
      BY <1>5, <2>1, <2>3 DEF applyKeywordChange
    <3>2. Append(list, w.name) = list \o <<w.name>>
      BY <1>1
    <3>5. Append(list, w.name) \in Seq(Names)
      BY <1>1
    <3>6. <<w.name>> \in Seq(Names)
      BY <1>1
    <3>3. Range(<<w.name>>) = {w.name}
      BY DEF Range
    <3>4. Range(Append(list, w.name)) = Range(list) \cup {w.name}
      <4>1. Range(list \o <<w.name>>) = Range(list) \cup Range(<<w.name>>)
        BY <3>6, RangeOfBoth
      <4>. QED BY <3>2, <3>3, <4>1
    <3>. QED BY <1>5, <2>1, <3>1, <3>4, <3>5
  <2>. QED BY <2>2, <2>3
<1>. QED BY <1>1, <1>2, <1>3, <1>4, <1>5

\* Lists of keywords stay lists of keywords.
LEMMA KeywordsTyped ==
  ASSUME NEW list \in Seq(Names), NEW q \in Seq(AnyWords)
  PROVE  KeywordFolds!Fold(list, q) \in Seq(Names)
<1>1. \A l \in Seq(Names), w \in AnyWords : applyKeywordChange(l, w) \in Seq(Names)
  BY KeywordStep
<1>. QED BY <1>1, KeywordFolds!FoldInvariant

\* If evidence and list agree on a keyword, they still do after more words of either.
LEMMA EvidenceAgrees ==
  ASSUME NEW list \in Seq(Names), NEW evidence \in Seq(VisibilityItems), NEW kind \in KeywordKinds,
         NEW q \in Seq(AnyWords), NEW keyword, NEW default,
         keyword \in Range(list) <=> LatestAbout(evidence, keyword, default)
  PROVE  keyword \in Range(KeywordFolds!Fold(list, q))
           <=> LatestAbout(evidence \o Tagged(kind, q), keyword, default)
<1>. DEFINE S == {r \in Seq(AnyWords) :
                    keyword \in Range(KeywordFolds!Fold(list, r))
                      <=> LatestAbout(evidence \o Tagged(kind, r), keyword, default)}
<1>1. <<>> \in S
  <2>1. Tagged(kind, <<>>) = <<>> /\ evidence \o <<>> = evidence /\ <<>> \in Seq(AnyWords)
    BY NothingSaid
  <2>2. KeywordFolds!Fold(list, <<>>) = list
    BY KeywordFolds!FoldEmpty
  <2>. QED BY <2>1, <2>2
<1>2. ASSUME NEW r \in Seq(AnyWords), NEW w \in AnyWords, r \in S PROVE Append(r, w) \in S
  <2>1. keyword \in Range(KeywordFolds!Fold(list, r)) <=> LatestAbout(evidence \o Tagged(kind, r), keyword, default)
    BY <1>2
  <2>2. PICK before \in Seq(Names) : before = KeywordFolds!Fold(list, r)
    BY KeywordsTyped
  <2>3. KeywordFolds!Fold(list, Append(r, w)) = applyKeywordChange(KeywordFolds!Fold(list, r), w)
    BY KeywordFolds!FoldAppend
  <2>4. keyword \in Range(applyKeywordChange(before, w))
          <=> IF Applies(w, keyword) THEN w.enabled ELSE keyword \in Range(before)
    BY KeywordStep
  <2>5. Seq([kind : KeywordKinds, change : AnyWords]) \subseteq Seq(VisibilityItems)
    <3>1. [kind : KeywordKinds, change : AnyWords] \subseteq VisibilityItems
      BY DEF VisibilityItems, VisibilityKinds
    <3>2. \A A, B : A \subseteq B => Seq(A) \subseteq Seq(B)
      OBVIOUS
    <3>. QED BY <3>1, <3>2, Zenon
  <2>6. PICK tagged \in Seq(VisibilityItems) : tagged = Tagged(kind, r)
    BY <2>5, TaggedType
  <2>7. PICK item \in VisibilityItems : item = [kind |-> kind, change |-> w]
    BY DEF VisibilityItems, VisibilityKinds
  <2>8. item \in About(keyword) <=> Applies(w, keyword)
    BY <2>7 DEF About
  <2>16. evidence \o tagged \in Seq(VisibilityItems)
    OBVIOUS
  <2>9. PICK ev \in Seq(VisibilityItems) : ev = evidence \o tagged
    BY <2>16, Zenon
  <2>10. evidence \o Append(tagged, item) = Append(evidence \o tagged, item)
    OBVIOUS
  <2>11. evidence \o Tagged(kind, Append(r, w)) = Append(ev, item)
    BY <2>6, <2>7, <2>9, <2>10, TaggedAppend
  <2>12. \A R : ProfileFolds!Latest(Append(ev, item), R, default)
                  = IF item \in R THEN item ELSE ProfileFolds!Latest(ev, R, default)
    BY ProfileFolds!LatestAppend
  <2>13. LastIn(Append(ev, item), About(keyword), default)
           = IF Applies(w, keyword) THEN item ELSE LastIn(ev, About(keyword), default)
    BY <2>8, <2>12, LastIsLatest
  <2>14. CASE Applies(w, keyword)
    <3>1. LatestAbout(evidence \o Tagged(kind, Append(r, w)), keyword, default) = w.enabled
      BY <2>7, <2>11, <2>13, <2>14 DEF LatestAbout
    <3>. QED BY <2>2, <2>3, <2>4, <2>14, <3>1
  <2>15. CASE ~Applies(w, keyword)
    <3>1. LatestAbout(evidence \o Tagged(kind, Append(r, w)), keyword, default)
            = LatestAbout(evidence \o Tagged(kind, r), keyword, default)
      BY <2>6, <2>9, <2>11, <2>13, <2>15 DEF LatestAbout
    <3>. QED BY <2>1, <2>2, <2>3, <2>4, <2>15, <3>1
  <2>. QED BY <2>14, <2>15
<1>. HIDE DEF S
<1>3. q \in S
  BY <1>1, <1>2, KeywordFolds!AllSequences
<1>. QED BY <1>3 DEF S

\* what a rule of a mask is
AtomRules == [atom : Atoms]

\* The atoms that match are named, and there are some if any rule matches.
LEMMA MatchingAtomsFacts ==
  ASSUME NEW rules \in Seq(AtomRules)
  PROVE  /\ MatchingAtoms(rules) \in Seq(AnyWords)
         /\ Matched(rules) <=> \E x : x \in Range(MatchingAtoms(rules))
<1>. DEFINE f == [r \in AtomRules |-> IF r.atom \in Matching THEN <<Change(r.atom, TRUE)>> ELSE <<>>]
<1>1. \A r \in AtomRules : Change(r.atom, TRUE) \in AnyWords
  BY DEF Change, AnyWords, Names, AtomRules
<1>2. f \in [AtomRules -> Seq(AnyWords)]
  <2>1. \A w \in AnyWords : <<w>> \in Seq(AnyWords)
    OBVIOUS
  <2>2. <<>> \in Seq(AnyWords)
    OBVIOUS
  <2>. QED BY <1>1, <2>1, <2>2
<1>3. MatchingAtoms(rules) = Collect(f, rules)
  <2>1. \A i \in DOMAIN rules : rules[i] \in AtomRules
    OBVIOUS
  <2>2. \A i \in DOMAIN rules : f[rules[i]] = IF rules[i].atom \in Matching THEN <<Change(rules[i].atom, TRUE)>> ELSE <<>>
    BY <2>1
  <2>. HIDE DEF f
  <2>3. [i \in DOMAIN rules |-> f[rules[i]]]
          = [i \in DOMAIN rules |-> IF rules[i].atom \in Matching THEN <<Change(rules[i].atom, TRUE)>> ELSE <<>>]
    BY <2>2, Zenon
  <2>. QED BY <2>3 DEF MatchingAtoms, Collect
<1>4. \A r \in AtomRules : r.atom \in Matching <=> \E x : x \in Range(f[r])
  <2>1. \A w : w \in Range(<<w>>)
    BY DEF Range
  <2>2. Range(<<>>) = {}
    BY DEF Range
  <2>. QED BY <2>1, <2>2
<1>5. \A i \in DOMAIN rules : rules[i] \in AtomRules
  OBVIOUS
<1>. HIDE DEF f
<1>6. Collect(f, rules) \in Seq(AnyWords)
  BY <1>2, Collected
<1>7. \A x : x \in Range(Collect(f, rules)) <=> \E i \in DOMAIN rules : x \in Range(f[rules[i]])
  BY <1>2, Collected
<1>. QED BY <1>3, <1>4, <1>5, <1>6, <1>7 DEF Matched

\* What rules say of keywords is words.
LEMMA RuleKeywordsType ==
  ASSUME NEW rules \in Seq(Rules), NEW architecture \in Architectures
  PROVE  RuleKeywords(rules, architecture) \in Seq(AnyWords)
<1>. DEFINE Named(rule) == IF rule.changes = <<>> THEN <<Change(TestingOf[architecture], TRUE)>> ELSE rule.changes
            named == [i \in DOMAIN rules |-> [rules[i] EXCEPT !.changes = Named(rules[i])]]
<1>1. PICK testing \in AnyWords : testing = Change(TestingOf[architecture], TRUE)
  <2>1. TestingOf[architecture] \in Range(TestingOf)
    BY EvaluationAssumption DEF Range
  <2>. QED BY <2>1 DEF Change, AnyWords, Names
<1>2. \A rule \in AnyRules : Named(rule) \in Seq(AnyWords)
  <2>1. <<testing>> \in Seq(AnyWords)
    OBVIOUS
  <2>. QED BY <1>1, <2>1 DEF AnyRules
<1>3. rules \in Seq(AnyRules)
  BY WordsAreWords
<1>. HIDE DEF Named
<1>4. \A rule \in AnyRules : [rule EXCEPT !.changes = Named(rule)] \in AnyRules
  <2>1. \A rule \in AnyRules : \A words \in Seq(AnyWords) : [rule EXCEPT !.changes = words] \in AnyRules
    BY DEF AnyRules
  <2>. QED BY <1>2, <2>1
<1>5. named \in Seq(AnyRules)
  <2>1. DOMAIN rules = 1..Len(rules) /\ Len(rules) \in Nat /\ \A i \in DOMAIN rules : rules[i] \in AnyRules
    BY <1>3
  <2>. QED BY <1>4, <2>1
<1>. HIDE DEF named
<1>6. MatchingChanges(named) \in Seq(AnyWords)
  BY <1>5, MatchingType
<1>. QED BY <1>6 DEF RuleKeywords, named, Named

\* An item of the list has a kind of the list.
LEMMA KindOfTagged ==
  ASSUME NEW kind, NEW words
  PROVE  \A item \in Range(Tagged(kind, words)) : item.kind = kind
BY DEF Tagged, Range

\* A package is masked if a mask matches and no unmask does.
LEMMA StatusIsMask ==
  ASSUME NEW keywords
  PROVE  EvaluateVisibility(config, keywords).status = "package_masked"
           <=> Matched(config.packageMasks) /\ ~Matched(config.packageUnmasks)
<1>. DEFINE unmasked == Matched(config.packageUnmasks) \/ ~Matched(config.packageMasks)
<1>1. \E a, b : EvaluateVisibility(config, keywords).status
                  = CASE ~unmasked -> "package_masked"
                      [] unmasked /\ a -> "visible"
                      [] unmasked /\ ~a /\ b -> "keyword_masked"
                      [] OTHER -> "unsupported_architecture"
  BY Zenon DEF EvaluateVisibility
<1>2. CASE unmasked
  BY <1>1, <1>2
<1>3. CASE ~unmasked
  BY <1>1, <1>3
<1>. QED BY <1>2, <1>3

\* The evidence of visibility, and what it says.
LEMMA VisibilityExplained == ReadInv /\ FieldInv => VisibilityFollowsEvidence
<1>. SUFFICES ASSUME ReadInv, FieldInv, ArchitectureValid(config), NEW keywords, NEW keyword
              PROVE  LET v == EvaluateVisibility(config, keywords)
                         Cited(kinds) == {item \in Range(v.evidence) : item.kind \in kinds}
                         cited == Cited({"accept-keywords", "package-accept-keywords"})
                         last == LastIn(v.evidence, {item \in cited : Applies(item.change, keyword)},
                                        [kind |-> "none", change |-> Change(keyword, keyword = Architecture(config))])
                     IN /\ v.status = "package_masked"
                             <=> Cited({"package-mask"}) # {} /\ Cited({"package-unmask"}) = {}
                        /\ keyword \in Range(v.accepted) <=> last.change.enabled
  BY Zenon DEF VisibilityFollowsEvidence, EvaluateCandidate
<1>. DEFINE architecture == Architecture(config)
            masks == MatchingAtoms(config.packageMasks)
            unmasks == MatchingAtoms(config.packageUnmasks)
            ruled == RuleKeywords(config.packageKeywords, architecture)
            said == config.acceptKeywords
            v == EvaluateVisibility(config, keywords)
<1>1. v.evidence = Tagged("package-mask", masks) \o Tagged("package-unmask", unmasks)
                     \o Tagged("accept-keywords", said) \o Tagged("package-accept-keywords", ruled)
  BY Zenon DEF EvaluateVisibility
<1>2. v.accepted = applyKeywordChanges(<<architecture>>, said \o ruled)
  BY Zenon DEF EvaluateVisibility
<1>3. v.status = "package_masked" <=> Matched(config.packageMasks) /\ ~Matched(config.packageUnmasks)
  BY StatusIsMask
<1>4. architecture \in Architectures
  BY DEF ArchitectureValid, Architecture, Change
<1>5. /\ config.packageMasks \in Seq([atom : Atoms]) /\ config.packageUnmasks \in Seq([atom : Atoms])
      /\ said \in Seq(AnyWords) /\ config.packageKeywords \in Seq(Rules)
  BY TypesOfFields DEF FieldInv, Fields
<1>6. /\ masks \in Seq(AnyWords) /\ unmasks \in Seq(AnyWords)
      /\ Matched(config.packageMasks) <=> \E x : x \in Range(masks)
      /\ Matched(config.packageUnmasks) <=> \E x : x \in Range(unmasks)
  BY <1>5, MatchingAtomsFacts DEF AtomRules
<1>7. ruled \in Seq(AnyWords)
  BY <1>4, <1>5, RuleKeywordsType
<1>. HIDE DEF architecture, masks, unmasks, ruled, said, v
<1>. DEFINE m == Tagged("package-mask", masks)
            u == Tagged("package-unmask", unmasks)
            a == Tagged("accept-keywords", said)
            r == Tagged("package-accept-keywords", ruled)
<1>8. \A kind \in VisibilityKinds, words \in Seq(AnyWords) : Tagged(kind, words) \in Seq(VisibilityItems)
  BY TaggedType DEF VisibilityItems
<1>9. m \in Seq(VisibilityItems) /\ u \in Seq(VisibilityItems) /\ a \in Seq(VisibilityItems) /\ r \in Seq(VisibilityItems)
  BY <1>5, <1>6, <1>7, <1>8 DEF VisibilityKinds, KeywordKinds, said
<1>10. /\ \A item \in Range(m) : item.kind = "package-mask"
       /\ \A item \in Range(u) : item.kind = "package-unmask"
       /\ \A item \in Range(a) : item.kind = "accept-keywords"
       /\ \A item \in Range(r) : item.kind = "package-accept-keywords"
  BY KindOfTagged
<1>11. (\E x : x \in Range(masks)) <=> \E item : item \in Range(m)
  BY DEF Tagged, Range
<1>12. (\E x : x \in Range(unmasks)) <=> \E item : item \in Range(u)
  BY DEF Tagged, Range
<1>. HIDE DEF m, u, a, r
<1>13. v.evidence = m \o u \o a \o r
  BY <1>1 DEF m, u, a, r
<1>14. PICK known \in Seq(VisibilityItems) : known = m \o u
  <2>1. m \o u \in Seq(VisibilityItems)
    BY <1>9
  <2>. QED BY <2>1, Zenon
<1>15. PICK more \in Seq(VisibilityItems) : more = known \o a
  <2>1. known \o a \in Seq(VisibilityItems)
    BY <1>9
  <2>. QED BY <2>1, Zenon
<1>16. Range(known) = Range(m) \cup Range(u)
  <2>1. Range(m \o u) = Range(m) \cup Range(u)
    BY <1>9, RangeOfBoth
  <2>. QED BY <1>14, <2>1
<1>17. Range(more) = Range(known) \cup Range(a)
  <2>1. Range(known \o a) = Range(known) \cup Range(a)
    BY <1>9, RangeOfBoth
  <2>. QED BY <1>15, <2>1
<1>18. v.evidence = more \o r
  BY <1>13, <1>14, <1>15
<1>19. Range(v.evidence) = Range(m) \cup Range(u) \cup Range(a) \cup Range(r) /\ v.evidence \in Seq(VisibilityItems)
  <2>1. Range(more \o r) = Range(more) \cup Range(r)
    BY <1>9, RangeOfBoth
  <2>2. more \o r \in Seq(VisibilityItems)
    BY <1>9
  <2>. QED BY <1>16, <1>17, <1>18, <2>1, <2>2
<1>20. v.status = "package_masked"
         <=> /\ {item \in Range(v.evidence) : item.kind \in {"package-mask"}} # {}
             /\ {item \in Range(v.evidence) : item.kind \in {"package-unmask"}} = {}
  <2>1. Matched(config.packageMasks) <=> {item \in Range(v.evidence) : item.kind \in {"package-mask"}} # {}
    BY <1>6, <1>10, <1>11, <1>19
  <2>2. Matched(config.packageUnmasks) <=> {item \in Range(v.evidence) : item.kind \in {"package-unmask"}} # {}
    BY <1>6, <1>10, <1>12, <1>19
  <2>. QED BY <1>3, <2>1, <2>2
<1>. DEFINE default == [kind |-> "none", change |-> Change(keyword, keyword = Architecture(config))]
            cited == {item \in Range(v.evidence) : item.kind \in {"accept-keywords", "package-accept-keywords"}}
            S == {item \in cited : Applies(item.change, keyword)}
<1>21. default.change.enabled = (keyword = architecture)
  BY DEF Change, architecture
<1>22. \A d : LastIn(v.evidence, S, d) = LastIn(v.evidence, About(keyword), d)
  <2>1. \A i \in 1..Len(v.evidence) : v.evidence[i] \in Range(v.evidence) /\ v.evidence[i] \in VisibilityItems
    BY <1>19 DEF Range
  <2>2. \A item \in VisibilityItems : item \in About(keyword)
                                        <=> item.kind \in KeywordKinds /\ Applies(item.change, keyword)
    BY DEF About, VisibilityItems
  <2>3. \A i \in 1..Len(v.evidence) : v.evidence[i] \in S <=> v.evidence[i] \in About(keyword)
    BY <2>1, <2>2 DEF KeywordKinds
  <2>. HIDE DEF S
  <2>4. \A d : ProfileFolds!Latest(v.evidence, S, d) = ProfileFolds!Latest(v.evidence, About(keyword), d)
    BY <2>3, ProfileFolds!LatestAgree
  <2>. QED BY <2>4, LastIsLatest
<1>. HIDE DEF default, S
<1>23. LatestAbout(known, keyword, default) = default.change.enabled
  <2>1. \A item \in Range(known) : item \notin About(keyword)
    BY <1>10, <1>16 DEF About, KeywordKinds
  <2>2. \A i \in DOMAIN known : known[i] \in Range(known)
    BY DEF Range
  <2>3. \A i \in DOMAIN known : known[i] \notin About(keyword)
    BY <2>1, <2>2
  <2>4. ProfileFolds!Latest(known, About(keyword), default) = default
    BY <2>3, ProfileFolds!LatestNone
  <2>. QED BY <2>4, LastIsLatest DEF LatestAbout
<1>24. PICK host \in Seq(Names) : host = <<architecture>>
  <2>1. <<architecture>> \in Seq(Names)
    BY <1>4 DEF Names
  <2>. QED BY <2>1, Zenon
<1>25. keyword \in Range(host) <=> LatestAbout(known, keyword, default)
  <2>1. Range(host) = {architecture}
    BY <1>24 DEF Range
  <2>. QED BY <1>21, <1>23, <2>1
<1>26. keyword \in Range(KeywordFolds!Fold(host, said)) <=> LatestAbout(known \o a, keyword, default)
  <2>1. "accept-keywords" \in KeywordKinds /\ said \in Seq(AnyWords)
    BY <1>5 DEF KeywordKinds, said
  <2>. QED BY <1>25, <2>1, EvidenceAgrees DEF a
<1>27. PICK list \in Seq(Names) : list = KeywordFolds!Fold(host, said)
  BY <1>5, KeywordsTyped DEF said
<1>28. keyword \in Range(KeywordFolds!Fold(list, ruled)) <=> LatestAbout(more \o r, keyword, default)
  <2>1. "package-accept-keywords" \in KeywordKinds
    BY DEF KeywordKinds
  <2>2. keyword \in Range(list) <=> LatestAbout(more, keyword, default)
    BY <1>15, <1>26, <1>27
  <2>. QED BY <1>7, <2>1, <2>2, EvidenceAgrees DEF r
<1>29. v.accepted = KeywordFolds!Fold(list, ruled)
  <2>1. KeywordFolds!Fold(host, said \o ruled) = KeywordFolds!Fold(KeywordFolds!Fold(host, said), ruled)
    BY <1>5, <1>7, KeywordFolds!FoldConcat DEF said
  <2>. QED BY <1>2, <1>24, <1>27, <2>1, FoldsOfPolicy
<1>30. keyword \in Range(v.accepted) <=> LastIn(v.evidence, S, default).change.enabled
  BY <1>22, <1>28, <1>29, <1>18 DEF LatestAbout
<1>. QED BY <1>20, <1>30, Zenon DEF S, default, v

(***************************************************************************)
(* What is decided of flags and of visibility is what the evidence says,   *)
(* whatever the files, the rules and the command say, in whatever order    *)
(* (EvaluateUse and EvaluateVisibility).                                   *)
(***************************************************************************)
THEOREM DecisionFollowsEvidenceAlways == Spec => []DecisionFollowsEvidence
<1>1. TypeInv => DecisionFollowsEvidence
  BY UseExplained, VisibilityExplained DEF TypeInv, DecisionFollowsEvidence
<1>. QED BY <1>1, TypeInvAlways, PTL

-----------------------------------------------------------------------------
(* The merged profile and the replay of its layers                         *)

\* what the files of this name say, over the layers
SaidBy(layers, field) == FlattenSeq([i \in DOMAIN layers |-> layers[i][field]])
ReplayOf(layers) == FlattenSeq([i \in DOMAIN layers |-> LayerForceMask(layers[i], FALSE)])

\* The forced and the masked flags of the profile are the changes of all layers in turn.
MergedInv ==
  /\ config.useForce = applyProfileChanges(<<>>, SaidBy(config.layers, "useForce"))
  /\ config.useMask = applyProfileChanges(<<>>, SaidBy(config.layers, "useMask"))

\* A layer more adds what it says.
LEMMA SaidOnTop ==
  ASSUME dialect \in Dialects, NEW layers \in Seq(LayerContents), NEW layer \in LayerContents,
         NEW field \in {"useForce", "useMask"}
  PROVE  /\ SaidBy(layers, field) \in Seq(Words) /\ layer[field] \in Seq(Words)
         /\ SaidBy(Append(layers, layer), field) = SaidBy(layers, field) \o layer[field]
<1>. DEFINE f == [l \in LayerContents |-> l[field]]
<1>1. \A l \in LayerContents : l[field] \in Seq(Words)
  BY LayerTypes
<1>2. f \in [LayerContents -> Seq(Words)]
  BY <1>1
<1>3. \A q \in Seq(LayerContents) : SaidBy(q, field) = Collect(f, q)
  <2>. SUFFICES ASSUME NEW q \in Seq(LayerContents) PROVE SaidBy(q, field) = Collect(f, q)
    OBVIOUS
  <2>1. \A i \in DOMAIN q : q[i] \in LayerContents
    OBVIOUS
  <2>2. \A i \in DOMAIN q : f[q[i]] = q[i][field]
    BY <2>1
  <2>. HIDE DEF f
  <2>3. [i \in DOMAIN q |-> f[q[i]]] = [i \in DOMAIN q |-> q[i][field]]
    BY <2>2, Zenon
  <2>. QED BY <2>3 DEF SaidBy, Collect
<1>4. f[layer] = layer[field]
  OBVIOUS
<1>. HIDE DEF f
<1>5. Collect(f, layers) \in Seq(Words)
  BY <1>2, Collected
<1>6. Collect(f, Append(layers, layer)) = Collect(f, layers) \o f[layer]
  BY <1>2, CollectedAppend
<1>7. Append(layers, layer) \in Seq(LayerContents)
  OBVIOUS
<1>. QED BY <1>1, <1>3, <1>4, <1>5, <1>6, <1>7

\* Without layers nothing is said.
LEMMA NothingSaidBy ==
  /\ \A field : SaidBy(<<>>, field) = <<>>
  /\ ReplayOf(<<>>) = <<>>
  /\ applyProfileChanges(<<>>, <<>>) = <<>>
<1>1. FlattenSeq(<<>>) = <<>>
  BY DEF FlattenSeq
<1>2. \A field : SaidBy(<<>>, field) = FlattenSeq(<<>>)
  BY DEF SaidBy
<1>3. ReplayOf(<<>>) = FlattenSeq(<<>>)
  BY DEF ReplayOf
<1>4. applyProfileChanges(<<>>, <<>>) = <<>>
  BY FoldsOfPolicy, ProfileFolds!FoldEmpty
<1>. QED BY <1>1, <1>2, <1>3, <1>4

\* It stays so, layer by layer.
LEMMA MergedStep == ReadInv /\ ShapeInv /\ FieldInv /\ MergedInv /\ [Next]_vars => MergedInv'
<1>. SUFFICES ASSUME ReadInv, ShapeInv, FieldInv, MergedInv, [Next]_vars PROVE MergedInv'
  OBVIOUS
<1>1. "layers" \in DOMAIN config /\ "useForce" \in DOMAIN config /\ "useMask" \in DOMAIN config
  BY DEF ShapeInv, UseFields, FieldInv, Fields
<1>2. CASE config'.layers = config.layers /\ config'.useForce = config.useForce /\ config'.useMask = config.useMask
  BY <1>2 DEF MergedInv
<1>3. CASE MergeLayer
  <2>1. PICK layer \in LayerContents : config' = mergeProfileLayer(config, layer)
    BY <1>3 DEF MergeLayer
  <2>2. /\ config'.layers = Append(config.layers, layer)
        /\ config'.useForce = applyProfileChanges(config.useForce, layer.useForce)
        /\ config'.useMask = applyProfileChanges(config.useMask, layer.useMask)
    BY <1>1, <2>1 DEF mergeProfileLayer
  <2>3. dialect \in Dialects /\ config.layers \in Seq(LayerContents)
    BY DEF ReadInv, ShapeInv
  <2>4. \A field \in {"useForce", "useMask"} :
          applyProfileChanges(<<>>, SaidBy(Append(config.layers, layer), field))
            = applyProfileChanges(applyProfileChanges(<<>>, SaidBy(config.layers, field)), layer[field])
    <3>. SUFFICES ASSUME NEW field \in {"useForce", "useMask"}
                  PROVE  applyProfileChanges(<<>>, SaidBy(Append(config.layers, layer), field))
                           = applyProfileChanges(applyProfileChanges(<<>>, SaidBy(config.layers, field)), layer[field])
      OBVIOUS
    <3>1. SaidBy(Append(config.layers, layer), field) = SaidBy(config.layers, field) \o layer[field]
      BY <2>3, SaidOnTop
    <3>2. SaidBy(config.layers, field) \in Seq(Words) /\ layer[field] \in Seq(Words)
      BY <2>3, SaidOnTop
    <3>3. ProfileFolds!Fold(<<>>, SaidBy(config.layers, field) \o layer[field])
            = ProfileFolds!Fold(ProfileFolds!Fold(<<>>, SaidBy(config.layers, field)), layer[field])
      BY <3>2, ProfileFolds!FoldConcat
    <3>. QED BY <3>1, <3>3, FoldsOfPolicy
  <2>. QED BY <2>2, <2>4 DEF MergedInv
<1>4. CASE Fail
  <2>1. config'.layers = <<>> /\ config'.useForce = <<>> /\ config'.useMask = <<>>
    BY <1>4 DEF Fail, NoConfig
  <2>. QED BY <2>1, NothingSaidBy DEF MergedInv
<1>5. CASE RepositoriesKnown \/ ProfileKnown
  BY <1>1, <1>2, <1>5 DEF RepositoriesKnown, ProfileKnown
<1>6. CASE ReadMakeConf
  BY <1>2, <1>6 DEF ReadMakeConf
<1>7. CASE ReadPackageUse \/ ReadPackageKeywords
  BY <1>1, <1>2, <1>7 DEF ReadPackageUse, ReadPackageKeywords
<1>8. CASE applyConfigEnvironment
  BY <1>2, <1>8 DEF applyConfigEnvironment
<1>9. CASE MaskRepository \/ MaskDirectory \/ MaskUser
  BY <1>1, <1>2, <1>9 DEF MaskRepository, MaskDirectory, MaskUser, Mask
<1>10. CASE WalkMasters \/ ReadGlobals \/ WalkParents \/ LayersMerged \/ ReadDefaults \/ DefaultsRead
           \/ RepositoriesMasked \/ DirectoriesMasked \/ Returned \/ UNCHANGED vars
  BY <1>2, <1>10 DEF WalkMasters, ReadGlobals, WalkParents, LayersMerged, ReadDefaults, DefaultsRead,
    RepositoriesMasked, DirectoriesMasked, Returned, vars, readVars
<1>. QED BY <1>3, <1>4, <1>5, <1>6, <1>7, <1>8, <1>9, <1>10 DEF Next

\* what a kind of change is about, and what it leaves alone
Standing(d, kind) == IF kind \in Forces THEN d.forced ELSE d.masked
Other(d, kind) == IF kind \in Forces THEN d.masked ELSE d.forced

\* A change forces or masks the flag that it names and no other.
LEMMA ForceMaskStep ==
  ASSUME NEW flags, NEW ds \in [flags -> ExplainedSet], NEW flag \in flags,
         NEW kind \in Forces \cup Masks, NEW w \in Words
  PROVE  LET n == applyForceMask(ds, [kind |-> kind, change |-> w])[flag]
         IN /\ Standing(n, kind) <=> IF w.name = flag THEN w.enabled ELSE Standing(ds[flag], kind)
            /\ Other(n, kind) <=> Other(ds[flag], kind)
<1>. DEFINE entry == [kind |-> kind, change |-> w]
            n == applyForceMask(ds, entry)[flag]
<1>1. entry.kind = kind /\ entry.change = w
  OBVIOUS
<1>2. w.enabled \in BOOLEAN /\ w.reference = FALSE
  BY DEF Words
<1>3. Says(w, flag) <=> w.name = flag
  BY <1>2 DEF Says
<1>4. PICK d \in ExplainedSet : d = ds[flag]
  OBVIOUS
<1>5. d \in DecisionSet
  BY DEF ExplainedSet
<1>. HIDE DEF entry
<1>6. n = IF Says(w, flag)
          THEN [d EXCEPT !.forced = IF kind \in Forces THEN w.enabled ELSE @,
                         !.masked = IF kind \in Masks THEN w.enabled ELSE @,
                         !.evidence = Append(@, Evidence(kind, w.enabled = (kind \in Forces)))]
          ELSE d
  BY <1>1, <1>4 DEF applyForceMask
<1>. HIDE DEF n
<1>7. CASE Says(w, flag)
  <2>1. /\ n.forced = IF kind \in Forces THEN w.enabled ELSE d.forced
        /\ n.masked = IF kind \in Masks THEN w.enabled ELSE d.masked
    BY <1>5, <1>6, <1>7 DEF DecisionSet
  <2>2. CASE kind \in Forces
    <3>1. kind \notin Masks
      BY <2>2, KindsDiffer
    <3>. QED BY <1>3, <1>4, <1>7, <2>1, <2>2, <3>1 DEF Standing, Other, n, entry
  <2>3. CASE kind \notin Forces
    <3>1. kind \in Masks
      BY <2>3
    <3>. QED BY <1>3, <1>4, <1>7, <2>1, <2>3, <3>1 DEF Standing, Other, n, entry
  <2>. QED BY <2>2, <2>3
<1>8. CASE ~Says(w, flag)
  BY <1>3, <1>4, <1>6, <1>8 DEF n, entry
<1>. QED BY <1>7, <1>8

\* A change of a list puts in, or takes out, the name that it names and no other.
LEMMA ProfileStep ==
  ASSUME NEW list \in Seq(STRING), NEW w \in Words
  PROVE  \A name : name \in Range(ProfileChange(list, w))
                     <=> IF w.name = name THEN w.enabled ELSE name \in Range(list)
<1>1. w.name \in STRING /\ w.enabled \in BOOLEAN
  BY DEF Words
<1>2. CASE ~w.enabled
  <2>1. Range(Without(list, w.name)) = Range(list) \ {w.name}
    BY WithoutFacts
  <2>. QED BY <1>2, <2>1 DEF ProfileChange
<1>3. CASE w.enabled /\ w.name \in Range(list)
  BY <1>3 DEF ProfileChange
<1>4. CASE w.enabled /\ w.name \notin Range(list)
  <2>1. <<w.name>> \in Seq(STRING)
    BY <1>1
  <2>2. Append(list, w.name) = list \o <<w.name>>
    BY <1>1
  <2>3. Range(list \o <<w.name>>) = Range(list) \cup Range(<<w.name>>)
    BY <2>1, RangeOfBoth
  <2>4. Range(<<w.name>>) = {w.name}
    BY DEF Range
  <2>. QED BY <1>4, <2>2, <2>3, <2>4 DEF ProfileChange
<1>. QED BY <1>1, <1>2, <1>3, <1>4

\* A file of changes does to a decision what it does to the list of the profile.
LEMMA FileAgrees ==
  ASSUME NEW flags, NEW ds \in [flags -> ExplainedSet], NEW flag \in flags,
         NEW kind \in Forces \cup Masks, NEW list \in Seq(STRING), NEW q \in Seq(Words),
         Standing(ds[flag], kind) <=> flag \in Range(list)
  PROVE  /\ Standing(ForceFolds!Fold(ds, Tagged(kind, q))[flag], kind) <=> flag \in Range(ProfileFolds!Fold(list, q))
         /\ Other(ForceFolds!Fold(ds, Tagged(kind, q))[flag], kind) <=> Other(ds[flag], kind)
<1>. DEFINE Agrees(r) ==
              /\ Standing(ForceFolds!Fold(ds, Tagged(kind, r))[flag], kind) <=> flag \in Range(ProfileFolds!Fold(list, r))
              /\ Other(ForceFolds!Fold(ds, Tagged(kind, r))[flag], kind) <=> Other(ds[flag], kind)
            S == {r \in Seq(Words) : Agrees(r)}
<1>1. <<>> \in S
  <2>1. Tagged(kind, <<>>) = <<>> /\ <<>> \in Seq(Words)
    BY NothingSaid
  <2>2. ForceFolds!Fold(ds, <<>>) = ds
    BY ForceFolds!FoldEmpty
  <2>3. ProfileFolds!Fold(list, <<>>) = list
    BY ProfileFolds!FoldEmpty
  <2>. QED BY <2>1, <2>2, <2>3
<1>2. ASSUME NEW r \in Seq(Words), NEW w \in Words, r \in S PROVE Append(r, w) \in S
  <2>1. Agrees(r)
    BY <1>2
  <2>2. r \in Seq(AnyWords) /\ w \in AnyWords
    BY WordsAreWords
  <2>3. PICK tagged \in Seq(ForceEntries) : tagged = Tagged(kind, r)
    BY <2>2, TaggedType DEF ForceEntries
  <2>4. PICK entry \in ForceEntries : entry = [kind |-> kind, change |-> w]
    BY <2>2 DEF ForceEntries
  <2>5. Tagged(kind, Append(r, w)) = Append(tagged, entry)
    BY <2>2, <2>3, <2>4, TaggedAppend
  <2>6. ForceFolds!Fold(ds, Append(tagged, entry)) = applyForceMask(ForceFolds!Fold(ds, tagged), entry)
    BY ForceFolds!FoldAppend
  <2>7. PICK known \in [flags -> ExplainedSet] : known = ForceFolds!Fold(ds, tagged)
    BY ForcesExplained
  <2>8. PICK names \in Seq(STRING) : names = ProfileFolds!Fold(list, r)
    BY ProfileChangesType, FoldsOfPolicy
  <2>9. ProfileFolds!Fold(list, Append(r, w)) = ProfileChange(ProfileFolds!Fold(list, r), w)
    BY ProfileFolds!FoldAppend
  <2>10. \A name : name \in Range(ProfileChange(names, w)) <=> IF w.name = name THEN w.enabled ELSE name \in Range(names)
    BY ProfileStep
  <2>. DEFINE n == applyForceMask(known, [kind |-> kind, change |-> w])[flag]
  <2>11. /\ Standing(n, kind) <=> IF w.name = flag THEN w.enabled ELSE Standing(known[flag], kind)
         /\ Other(n, kind) <=> Other(known[flag], kind)
    BY ForceMaskStep
  <2>12. ForceFolds!Fold(ds, Tagged(kind, Append(r, w)))[flag] = n
    BY <2>4, <2>5, <2>6, <2>7
  <2>. HIDE DEF n
  <2>13. Standing(known[flag], kind) <=> flag \in Range(names)
    BY <2>1, <2>3, <2>7, <2>8
  <2>14. Other(known[flag], kind) <=> Other(ds[flag], kind)
    BY <2>1, <2>3, <2>7
  <2>15. Standing(n, kind) <=> flag \in Range(ProfileFolds!Fold(list, Append(r, w)))
    BY <2>8, <2>9, <2>10, <2>11, <2>13
  <2>16. Agrees(Append(r, w))
    BY <2>11, <2>12, <2>14, <2>15
  <2>. QED BY <2>16
<1>. HIDE DEF S
<1>3. q \in S
  BY <1>1, <1>2, ForceFolds!AllSequences
<1>. QED BY <1>3 DEF S

\* a layer none of whose rules for packages matches
UnmatchedLayers == {layer \in LayerContents : ~Matched(layer.packageForce) /\ ~Matched(layer.packageMask)}

\* Rules that do not match say nothing.
LEMMA NoMatch ==
  ASSUME NEW rules \in Seq(Rules), ~Matched(rules)
  PROVE  MatchingChanges(rules) = <<>>
<1>. DEFINE n == Len(rules)
            q == [i \in DOMAIN rules |-> IF rules[i].atom \in Matching THEN rules[i].changes ELSE <<>>]
<1>1. n \in Nat /\ DOMAIN rules = 1..n
  OBVIOUS
<1>2. \A i \in 1..n : rules[i].atom \notin Matching
  BY <1>1 DEF Matched
<1>. HIDE DEF n
<1>3. DOMAIN q = 1..n /\ q = [i \in 1..n |-> <<>>]
  BY <1>1, <1>2
<1>. HIDE DEF q
<1>4. FlattenSeq(q) = <<>>
  BY <1>1, <1>3, JoinedNothing
<1>. QED BY <1>4 DEF MatchingChanges, q

\* What is left of such a layer are its two files of flags.
LEMMA UnmatchedLayer ==
  ASSUME dialect \in Dialects, NEW layer \in UnmatchedLayers
  PROVE  LayerForceMask(layer, FALSE) = Tagged("profile-force", layer.useForce) \o Tagged("profile-mask", layer.useMask)
<1>1. layer \in LayerContents /\ ~Matched(layer.packageForce) /\ ~Matched(layer.packageMask)
  BY DEF UnmatchedLayers
<1>2. /\ layer.packageForce \in Seq(Rules) /\ layer.packageMask \in Seq(Rules)
      /\ layer.useForce \in Seq(Words) /\ layer.useMask \in Seq(Words)
  BY <1>1, LayerTypes
<1>3. MatchingChanges(layer.packageForce) = <<>> /\ MatchingChanges(layer.packageMask) = <<>>
  BY <1>1, <1>2, NoMatch
<1>4. LayerForceMask(layer, FALSE)
        = Tagged("profile-force", layer.useForce) \o Tagged("profile-mask", layer.useMask) \o <<>> \o <<>> \o <<>> \o <<>>
  BY <1>3, NothingSaid DEF LayerForceMask
<1>5. layer.useForce \in Seq(AnyWords) /\ layer.useMask \in Seq(AnyWords)
  BY <1>2, WordsAreWords
<1>6. \A kind \in Forces \cup Masks, words \in Seq(AnyWords) : Tagged(kind, words) \in Seq(ForceEntries)
  BY TaggedType DEF ForceEntries
<1>7. Tagged("profile-force", layer.useForce) \in Seq(ForceEntries) /\ Tagged("profile-mask", layer.useMask) \in Seq(ForceEntries)
  BY <1>5, <1>6 DEF Forces, Masks
<1>8. PICK both \in Seq(ForceEntries) : both = Tagged("profile-force", layer.useForce) \o Tagged("profile-mask", layer.useMask)
  <2>1. Tagged("profile-force", layer.useForce) \o Tagged("profile-mask", layer.useMask) \in Seq(ForceEntries)
    BY <1>7
  <2>. QED BY <2>1, Zenon
<1>9. both \o <<>> \o <<>> \o <<>> \o <<>> = both
  OBVIOUS
<1>. QED BY <1>4, <1>8, <1>9

\* what two lists of flags say of a decision
SameFlags(d, flag, force, mask) == (d.forced <=> flag \in Range(force)) /\ (d.masked <=> flag \in Range(mask))

\* A layer does to a decision what it does to the lists of the profile.
LEMMA LayerAgrees ==
  ASSUME dialect \in Dialects, NEW layer \in UnmatchedLayers,
         NEW flags, NEW ds \in [flags -> ExplainedSet], NEW flag \in flags,
         NEW force \in Seq(STRING), NEW mask \in Seq(STRING), SameFlags(ds[flag], flag, force, mask)
  PROVE  SameFlags(ForceFolds!Fold(ds, LayerForceMask(layer, FALSE))[flag], flag,
                   ProfileFolds!Fold(force, layer.useForce), ProfileFolds!Fold(mask, layer.useMask))
<1>1. layer.useForce \in Seq(Words) /\ layer.useMask \in Seq(Words)
  BY LayerTypes DEF UnmatchedLayers
<1>2. layer.useForce \in Seq(AnyWords) /\ layer.useMask \in Seq(AnyWords)
  BY <1>1, WordsAreWords
<1>3. PICK k \in Forces : k = "profile-force"
  BY DEF Forces
<1>4. PICK l \in Masks : l = "profile-mask"
  BY DEF Masks
<1>5. PICK f \in Seq(ForceEntries) : f = Tagged(k, layer.useForce)
  BY <1>2, TaggedType DEF ForceEntries
<1>6. PICK m \in Seq(ForceEntries) : m = Tagged(l, layer.useMask)
  BY <1>2, TaggedType DEF ForceEntries
<1>7. ForceFolds!Fold(ds, f \o m) = ForceFolds!Fold(ForceFolds!Fold(ds, f), m)
  BY ForceFolds!FoldConcat
<1>8. PICK es \in [flags -> ExplainedSet] : es = ForceFolds!Fold(ds, f)
  BY ForcesExplained
<1>9. /\ Standing(ds[flag], k) <=> flag \in Range(force)
      /\ Other(ds[flag], k) <=> flag \in Range(mask)
  BY DEF Standing, Other, SameFlags
<1>10. /\ Standing(es[flag], k) <=> flag \in Range(ProfileFolds!Fold(force, layer.useForce))
       /\ Other(es[flag], k) <=> Other(ds[flag], k)
  <2>1. /\ Standing(ForceFolds!Fold(ds, Tagged(k, layer.useForce))[flag], k)
             <=> flag \in Range(ProfileFolds!Fold(force, layer.useForce))
        /\ Other(ForceFolds!Fold(ds, Tagged(k, layer.useForce))[flag], k) <=> Other(ds[flag], k)
    BY <1>1, <1>9, FileAgrees
  <2>. QED BY <1>5, <1>8, <2>1
<1>11. l \notin Forces
  BY KindsDiffer
<1>12. Standing(es[flag], l) <=> flag \in Range(mask)
  BY <1>9, <1>10, <1>11 DEF Standing, Other
<1>13. /\ Standing(ForceFolds!Fold(es, m)[flag], l) <=> flag \in Range(ProfileFolds!Fold(mask, layer.useMask))
       /\ Other(ForceFolds!Fold(es, m)[flag], l) <=> Other(es[flag], l)
  <2>1. /\ Standing(ForceFolds!Fold(es, Tagged(l, layer.useMask))[flag], l)
             <=> flag \in Range(ProfileFolds!Fold(mask, layer.useMask))
        /\ Other(ForceFolds!Fold(es, Tagged(l, layer.useMask))[flag], l) <=> Other(es[flag], l)
    BY <1>1, <1>12, FileAgrees
  <2>. QED BY <1>6, <2>1
<1>14. SameFlags(ForceFolds!Fold(es, m)[flag], flag,
                 ProfileFolds!Fold(force, layer.useForce), ProfileFolds!Fold(mask, layer.useMask))
  BY <1>10, <1>11, <1>13 DEF Standing, Other, SameFlags
<1>15. LayerForceMask(layer, FALSE) = f \o m
  BY <1>3, <1>4, <1>5, <1>6, UnmatchedLayer
<1>. QED BY <1>7, <1>8, <1>14, <1>15

\* So do all layers in turn.
LEMMA LayersAgree ==
  ASSUME dialect \in Dialects, NEW layers \in Seq(UnmatchedLayers),
         NEW flags, NEW ds \in [flags -> ExplainedSet], NEW flag \in flags, ~ds[flag].forced, ~ds[flag].masked
  PROVE  SameFlags(ForceFolds!Fold(ds, ReplayOf(layers))[flag], flag,
                   ProfileFolds!Fold(<<>>, SaidBy(layers, "useForce")), ProfileFolds!Fold(<<>>, SaidBy(layers, "useMask")))
<1>. DEFINE Agrees(q) ==
              SameFlags(ForceFolds!Fold(ds, ReplayOf(q))[flag], flag,
                        ProfileFolds!Fold(<<>>, SaidBy(q, "useForce")), ProfileFolds!Fold(<<>>, SaidBy(q, "useMask")))
            S == {q \in Seq(UnmatchedLayers) : Agrees(q)}
            f == [l \in LayerContents |-> LayerForceMask(l, FALSE)]
<1>1. f \in [LayerContents -> Seq(ForceEntries)]
  BY LayerEntriesType
<1>2. \A q \in Seq(LayerContents) : ReplayOf(q) = Collect(f, q)
  <2>. SUFFICES ASSUME NEW q \in Seq(LayerContents) PROVE ReplayOf(q) = Collect(f, q)
    OBVIOUS
  <2>1. \A i \in DOMAIN q : q[i] \in LayerContents
    OBVIOUS
  <2>2. \A i \in DOMAIN q : f[q[i]] = LayerForceMask(q[i], FALSE)
    BY <2>1
  <2>. HIDE DEF f
  <2>3. [i \in DOMAIN q |-> f[q[i]]] = [i \in DOMAIN q |-> LayerForceMask(q[i], FALSE)]
    BY <2>2, Zenon
  <2>. QED BY <2>3 DEF ReplayOf, Collect
<1>3. \A l \in LayerContents : f[l] = LayerForceMask(l, FALSE)
  OBVIOUS
<1>. HIDE DEF f
<1>4. UnmatchedLayers \subseteq LayerContents
  BY DEF UnmatchedLayers
<1>5. Seq(UnmatchedLayers) \subseteq Seq(LayerContents)
  BY <1>4
<1>6. <<>> \in S
  <2>1. ForceFolds!Fold(ds, <<>>) = ds
    BY ForceFolds!FoldEmpty
  <2>2. ProfileFolds!Fold(<<>>, <<>>) = <<>>
    BY ProfileFolds!FoldEmpty
  <2>3. Range(<<>>) = {}
    BY DEF Range
  <2>4. SameFlags(ds[flag], flag, <<>>, <<>>)
    BY <2>3 DEF SameFlags
  <2>5. <<>> \in Seq(UnmatchedLayers)
    OBVIOUS
  <2>. QED BY <2>1, <2>2, <2>4, <2>5, NothingSaidBy
<1>7. ASSUME NEW q \in Seq(UnmatchedLayers), NEW layer \in UnmatchedLayers, q \in S PROVE Append(q, layer) \in S
  <2>1. q \in Seq(LayerContents) /\ layer \in LayerContents
    BY <1>4, <1>5
  <2>2. Append(q, layer) \in Seq(UnmatchedLayers)
    OBVIOUS
  <2>3. Append(q, layer) \in Seq(LayerContents)
    BY <1>5, <2>2
  <2>4. PICK before \in Seq(ForceEntries) : before = ReplayOf(q)
    BY <1>1, <1>2, <2>1, Collected
  <2>5. PICK more \in Seq(ForceEntries) : more = LayerForceMask(layer, FALSE)
    BY <2>1, LayerEntriesType
  <2>6. ReplayOf(Append(q, layer)) = before \o more
    <3>1. Collect(f, Append(q, layer)) = Collect(f, q) \o f[layer]
      BY <1>1, <2>1, CollectedAppend
    <3>. QED BY <1>2, <1>3, <2>1, <2>3, <2>4, <2>5, <3>1
  <2>7. ForceFolds!Fold(ds, before \o more) = ForceFolds!Fold(ForceFolds!Fold(ds, before), more)
    BY ForceFolds!FoldConcat
  <2>8. PICK es \in [flags -> ExplainedSet] : es = ForceFolds!Fold(ds, before)
    BY ForcesExplained
  <2>9. \A field \in {"useForce", "useMask"} :
          /\ ProfileFolds!Fold(<<>>, SaidBy(q, field)) \in Seq(STRING)
          /\ ProfileFolds!Fold(<<>>, SaidBy(Append(q, layer), field))
               = ProfileFolds!Fold(ProfileFolds!Fold(<<>>, SaidBy(q, field)), layer[field])
    <3>. SUFFICES ASSUME NEW field \in {"useForce", "useMask"}
                  PROVE  /\ ProfileFolds!Fold(<<>>, SaidBy(q, field)) \in Seq(STRING)
                         /\ ProfileFolds!Fold(<<>>, SaidBy(Append(q, layer), field))
                              = ProfileFolds!Fold(ProfileFolds!Fold(<<>>, SaidBy(q, field)), layer[field])
      OBVIOUS
    <3>1. SaidBy(Append(q, layer), field) = SaidBy(q, field) \o layer[field]
      BY <2>1, SaidOnTop
    <3>2. SaidBy(q, field) \in Seq(Words) /\ layer[field] \in Seq(Words)
      BY <2>1, SaidOnTop
    <3>3. ProfileFolds!Fold(<<>>, SaidBy(q, field) \o layer[field])
            = ProfileFolds!Fold(ProfileFolds!Fold(<<>>, SaidBy(q, field)), layer[field])
      BY <3>2, ProfileFolds!FoldConcat
    <3>4. <<>> \in Seq(STRING)
      OBVIOUS
    <3>5. ProfileFolds!Fold(<<>>, SaidBy(q, field)) \in Seq(STRING)
      BY <3>2, <3>4, ProfileChangesType, FoldsOfPolicy
    <3>. QED BY <3>1, <3>3, <3>5
  <2>10. PICK force \in Seq(STRING) : force = ProfileFolds!Fold(<<>>, SaidBy(q, "useForce"))
    BY <2>9
  <2>11. PICK mask \in Seq(STRING) : mask = ProfileFolds!Fold(<<>>, SaidBy(q, "useMask"))
    BY <2>9
  <2>12. SameFlags(es[flag], flag, force, mask)
    BY <1>7, <2>4, <2>8, <2>10, <2>11
  <2>13. SameFlags(ForceFolds!Fold(es, LayerForceMask(layer, FALSE))[flag], flag,
                   ProfileFolds!Fold(force, layer.useForce), ProfileFolds!Fold(mask, layer.useMask))
    BY <2>12, LayerAgrees
  <2>14. ForceFolds!Fold(ds, ReplayOf(Append(q, layer))) = ForceFolds!Fold(es, LayerForceMask(layer, FALSE))
    BY <2>5, <2>6, <2>7, <2>8
  <2>15. /\ ProfileFolds!Fold(<<>>, SaidBy(Append(q, layer), "useForce")) = ProfileFolds!Fold(force, layer.useForce)
         /\ ProfileFolds!Fold(<<>>, SaidBy(Append(q, layer), "useMask")) = ProfileFolds!Fold(mask, layer.useMask)
    BY <2>9, <2>10, <2>11
  <2>16. Agrees(Append(q, layer))
    BY <2>13, <2>14, <2>15
  <2>. QED BY <2>2, <2>16
<1>. HIDE DEF S
<1>8. layers \in S
  BY <1>6, <1>7, ForceFolds!AllSequences
<1>. QED BY <1>8 DEF S

\* Ordinary changes force and mask nothing.
LEMMA OrdinaryForcesNothing ==
  ASSUME FieldInv, NEW declared
  PROVE  \A flag \in DOMAIN declared :
           LET d == FoldLeft(applyChange, Declared(declared), Ordinary(config))[flag]
           IN d.forced = FALSE /\ d.masked = FALSE
<1>. DEFINE Plain == {d \in ExplainedSet : d.forced = FALSE /\ d.masked = FALSE}
            flags == DOMAIN declared
<1>1. Declared(declared) \in [flags -> Plain]
  <2>1. \A flag \in flags : Declared(declared)[flag].forced = FALSE /\ Declared(declared)[flag].masked = FALSE
    BY DEF Declared
  <2>2. Declared(declared) \in [flags -> ExplainedSet]
    BY DeclaredExplained
  <2>. QED BY <2>1, <2>2
<1>2. ASSUME NEW ds \in [flags -> Plain], NEW entry \in OrdinaryEntries
      PROVE  applyChange(ds, entry) \in [flags -> Plain]
  <2>1. entry.kind \in OrdinaryKinds /\ entry.change.enabled \in BOOLEAN
    BY DEF OrdinaryEntries, AnyWords
  <2>2. ASSUME NEW d \in Plain
        PROVE  [d EXCEPT !.enabled = entry.change.enabled,
                         !.evidence = Append(@, Evidence(entry.kind, entry.change.enabled))] \in Plain
    <3>1. PICK e \in ExplainedSet :
                 e = [d EXCEPT !.enabled = entry.change.enabled,
                               !.evidence = Append(@, Evidence(entry.kind, entry.change.enabled))]
      BY <2>1, ChangeExplained
    <3>2. d \in DecisionSet
      BY DEF ExplainedSet
    <3>3. e.forced = d.forced /\ e.masked = d.masked
      BY <3>1, <3>2 DEF DecisionSet
    <3>. QED BY <3>1, <3>3
  <2>. HIDE DEF Plain
  <2>. QED BY <2>2 DEF applyChange
<1>3. Ordinary(config) \in Seq(OrdinaryEntries)
  BY OrdinaryType
<1>. HIDE DEF Plain, flags
<1>4. UseFolds!Fold(Declared(declared), Ordinary(config)) \in [flags -> Plain]
  BY <1>1, <1>2, <1>3, UseFolds!FoldInvariant
<1>. QED BY <1>4, FoldsOfUse DEF Plain, flags

\* The merged lists say of a flag what the replay says.
LEMMA MergedAgrees == ReadInv /\ ShapeInv /\ FieldInv /\ MergedInv => MergedIsReplayed
<1>. SUFFICES ASSUME ReadInv, ShapeInv, FieldInv, MergedInv, NEW declared, NEW flag \in DOMAIN declared,
                     \A layer \in Range(config.layers) :
                       Matched(layer.packageForce) = FALSE /\ Matched(layer.packageMask) = FALSE
              PROVE  LET decision == EvaluateUse(config, declared, FALSE)[flag]
                     IN /\ decision.forced <=> flag \in Range(config.useForce)
                        /\ decision.masked <=> flag \in Range(config.useMask)
  BY Zenon DEF MergedIsReplayed
<1>. DEFINE ds == FoldLeft(applyChange, Declared(declared), Ordinary(config))
            decisions == FoldLeft(applyForceMask, ds, ReplayOf(config.layers))
<1>1. ds \in [DOMAIN declared -> ExplainedSet]
  BY DeclaredExplained, OrdinaryType, ChangesExplained, FoldsOfUse
<1>2. ds[flag].forced = FALSE /\ ds[flag].masked = FALSE
  BY OrdinaryForcesNothing
<1>3. dialect \in Dialects /\ config.layers \in Seq(UnmatchedLayers)
  <2>1. config.layers \in Seq(LayerContents)
    BY DEF ShapeInv
  <2>2. \A i \in DOMAIN config.layers : config.layers[i] \in Range(config.layers)
    BY DEF Range
  <2>3. \A i \in DOMAIN config.layers : config.layers[i] \in UnmatchedLayers
    BY <2>1, <2>2 DEF UnmatchedLayers
  <2>. QED BY <2>1, <2>3 DEF ReadInv
<1>4. ReplayOf(config.layers) \in Seq(ForceEntries)
  BY LayersEntriesType DEF ReplayOf
<1>5. EvaluateUse(config, declared, FALSE) = [f \in DOMAIN decisions |-> Settled(decisions[f])]
  BY Zenon DEF EvaluateUse, ReplayOf
<1>. HIDE DEF ds
<1>6. decisions \in [DOMAIN declared -> ExplainedSet]
  BY <1>1, <1>4, ForcesExplained, FoldsOfUse
<1>7. SameFlags(ForceFolds!Fold(ds, ReplayOf(config.layers))[flag], flag,
                ProfileFolds!Fold(<<>>, SaidBy(config.layers, "useForce")),
                ProfileFolds!Fold(<<>>, SaidBy(config.layers, "useMask")))
  BY <1>1, <1>2, <1>3, LayersAgree
<1>8. SameFlags(decisions[flag], flag, config.useForce, config.useMask)
  BY <1>7, FoldsOfUse, FoldsOfPolicy DEF MergedInv
<1>. HIDE DEF decisions
<1>9. PICK d \in ExplainedSet : d = decisions[flag]
  BY <1>6
<1>10. EvaluateUse(config, declared, FALSE)[flag] = Settled(d)
  BY <1>5, <1>6, <1>9
<1>11. Settled(d).forced = d.forced /\ Settled(d).masked = d.masked
  BY DEF ExplainedSet, DecisionSet, Settled
<1>. QED BY <1>8, <1>9, <1>10, <1>11 DEF SameFlags

(***************************************************************************)
(* The lists that ReadProfile merges and the replay of the layers by       *)
(* EvaluateUse agree on what is forced and masked, where no rule for       *)
(* packages has a say (profile.go, mergeProfileLayer; use.go).             *)
(***************************************************************************)
THEOREM MergedIsReplayedAlways == Spec => []MergedIsReplayed
<1>1. Init => MergedInv
  BY NothingSaidBy DEF Init, MergedInv, NoConfig
<1>2. Spec => []MergedInv
  BY <1>1, MergedStep, TypeInvAlways, PTL DEF Spec, TypeInv
<1>. QED BY <1>2, MergedAgrees, TypeInvAlways, PTL DEF TypeInv
-----------------------------------------------------------------------------
(* Who speaks last                                                         *)

\* what the walks found is what is read, as long as it is read
OrdersKept ==
  /\ \/ config.directories = <<>>
     \/ phase \notin {"repositories", "globals", "profile"} /\ config.directories = profileOrder
  /\ Has("reposConf") /\ phase \notin {"repositories", "failed"} => config.repositories = repositoryOrder

ListFields == {"useForce", "system"}

\* Whether a name is in a merged list is what the last layer that mentions it says.
LayerDecides(field) ==
  \A i \in DOMAIN config.layers, name \in STRING :
    /\ Mentions(config.layers[i][field], name)
    /\ \A j \in i + 1..Len(config.layers) : ~Mentions(config.layers[j][field], name)
    => (name \in Range(config[field]) <=> LastSays(config.layers[i][field], name))
LayersDecide == \A field \in ListFields : LayerDecides(field)

\* how many repositories have had their say
Heard == IF phase = "repository masks" THEN position - 1 ELSE Len(config.repositories)
Hearing == Has("reposConf") /\ (phase = "repository masks" \/ (phase = "profile masks" /\ position = 1))

\* Whether an atom is masked is what the last repository that mentions it says.
RepositoriesDecide ==
  Hearing =>
    /\ Heard <= Len(config.repositories)
    /\ \A i \in 1..Heard, atom \in Atoms :
         /\ Mentions(maskFile[config.repositories[i]], atom)
         /\ \A j \in i + 1..Heard : ~Mentions(maskFile[config.repositories[j]], atom)
         => ([atom |-> atom] \in Range(config.packageMasks) <=> LastSays(maskFile[config.repositories[i]], atom))

\* The last word about a name is what LastSays gives.
LEMMA LastSaysFacts ==
  ASSUME NEW q \in Seq(Words), NEW name, NEW k \in DOMAIN q, Says(q[k], name),
         \A j \in k + 1..Len(q) : ~Says(q[j], name)
  PROVE  LastSays(q, name) = q[k].enabled
<1>1. DOMAIN q = 1..Len(q) /\ Len(q) \in Nat
  OBVIOUS
<1>2. ASSUME NEW i \in DOMAIN q, Says(q[i], name) /\ \A j \in i + 1..Len(q) : ~Says(q[j], name)
      PROVE  i = k
  <2>1. ~(i < k) /\ ~(k < i)
    BY <1>1, <1>2
  <2>. QED BY <1>1, <2>1
<1>3. k = CHOOSE i \in DOMAIN q : Says(q[i], name) /\ \A j \in i + 1..Len(q) : ~Says(q[j], name)
  BY <1>2
<1>. QED BY <1>3 DEF LastSays

\* The words about a name, and those that speak for it.
WordsAbout(name) == {w \in Words : w.name = name}
SpeakingFor == {w \in Words : w.enabled}

\* What the last of the words about a name decides, LastSays tells.
LEMMA LastWord ==
  ASSUME NEW q \in Seq(Words), NEW name, NEW was \in BOOLEAN, NEW is \in BOOLEAN,
         (\A i \in DOMAIN q : q[i] \notin WordsAbout(name)) => (is <=> was),
         \A k \in DOMAIN q : q[k] \in WordsAbout(name) /\ (\A j \in k + 1..Len(q) : q[j] \notin WordsAbout(name))
                           => (is <=> q[k] \in SpeakingFor)
  PROVE  /\ ~Mentions(q, name) => (is <=> was)
         /\ Mentions(q, name) => (is <=> LastSays(q, name))
<1>. DEFINE S == WordsAbout(name)
<1>1. DOMAIN q = 1..Len(q) /\ Len(q) \in Nat /\ \A i \in DOMAIN q : q[i] \in Words
  OBVIOUS
<1>2. \A i \in DOMAIN q : (Says(q[i], name) <=> q[i] \in S) /\ (q[i].enabled <=> q[i] \in SpeakingFor)
  BY <1>1 DEF Says, Words, WordsAbout, SpeakingFor
<1>. HIDE DEF S
<1>3. ASSUME ~Mentions(q, name) PROVE is <=> was
  BY <1>2, <1>3 DEF Mentions, S
<1>4. ASSUME Mentions(q, name) PROVE is <=> LastSays(q, name)
  <2>1. \E i \in DOMAIN q : q[i] \in S
    BY <1>2, <1>4 DEF Mentions
  <2>2. PICK k \in DOMAIN q : q[k] \in S /\ \A j \in k + 1..Len(q) : q[j] \notin S
    BY <2>1, ProfileFolds!LatestExists
  <2>3. \A j \in k + 1..Len(q) : j \in DOMAIN q
    BY <1>1
  <2>4. Says(q[k], name) /\ \A j \in k + 1..Len(q) : ~Says(q[j], name)
    BY <1>2, <2>2, <2>3
  <2>5. LastSays(q, name) = q[k].enabled
    BY <2>4, LastSaysFacts
  <2>6. is <=> q[k] \in SpeakingFor
    BY <2>2 DEF S
  <2>. QED BY <1>2, <2>5, <2>6
<1>. QED BY <1>3, <1>4

\* A file puts in a list of names, or takes out, what it says last, and leaves
\* what it does not mention.
LEMMA FileDecides ==
  ASSUME NEW list \in Seq(STRING), NEW q \in Seq(Words), NEW name
  PROVE  /\ ~Mentions(q, name) => (name \in Range(applyProfileChanges(list, q)) <=> name \in Range(list))
         /\ Mentions(q, name) => (name \in Range(applyProfileChanges(list, q)) <=> LastSays(q, name))
<1>. DEFINE P == {l \in Seq(STRING) : name \in Range(l)}
            S == WordsAbout(name)
            was == name \in Range(list)
            is == name \in Range(ProfileFolds!Fold(list, q))
<1>1. \A l \in Seq(STRING), w \in Words :
        /\ ProfileChange(l, w) \in Seq(STRING)
        /\ ProfileChange(l, w) \in P <=> IF w \in S THEN w \in SpeakingFor ELSE l \in P
  <2>. SUFFICES ASSUME NEW l \in Seq(STRING), NEW w \in Words
                PROVE  /\ ProfileChange(l, w) \in Seq(STRING)
                       /\ ProfileChange(l, w) \in P <=> IF w \in S THEN w \in SpeakingFor ELSE l \in P
    OBVIOUS
  <2>1. ProfileChange(l, w) \in Seq(STRING)
    BY ProfileChangeType
  <2>2. name \in Range(ProfileChange(l, w)) <=> IF w.name = name THEN w.enabled ELSE name \in Range(l)
    BY ProfileStep
  <2>. QED BY <2>1, <2>2 DEF WordsAbout, SpeakingFor
<1>2. ProfileFolds!Fold(list, q) \in Seq(STRING)
  BY ProfileChangesType, FoldsOfPolicy
<1>3. (list \in P <=> was) /\ (ProfileFolds!Fold(list, q) \in P <=> is)
  BY <1>2
<1>. HIDE DEF P, S
<1>4. /\ (\A i \in DOMAIN q : q[i] \notin S) => (ProfileFolds!Fold(list, q) \in P <=> list \in P)
      /\ \A k \in DOMAIN q : q[k] \in S /\ (\A j \in k + 1..Len(q) : q[j] \notin S)
                           => (ProfileFolds!Fold(list, q) \in P <=> q[k] \in SpeakingFor)
  <2>1. ProfileFolds!Deciding(Words, Seq(STRING), P, S, SpeakingFor)
    BY <1>1 DEF ProfileFolds!Deciding
  <2>. QED BY <2>1, ProfileFolds!LastDecides
<1>5. was \in BOOLEAN /\ is \in BOOLEAN
  OBVIOUS
<1>. HIDE DEF was, is
<1>6. /\ (\A i \in DOMAIN q : q[i] \notin WordsAbout(name)) => (is <=> was)
      /\ \A k \in DOMAIN q : q[k] \in WordsAbout(name) /\ (\A j \in k + 1..Len(q) : q[j] \notin WordsAbout(name))
                           => (is <=> q[k] \in SpeakingFor)
  BY <1>3, <1>4 DEF S
<1>7. (~Mentions(q, name) => (is <=> was)) /\ (Mentions(q, name) => (is <=> LastSays(q, name)))
  BY <1>5, <1>6, LastWord
<1>. QED BY <1>7, FoldsOfPolicy DEF was, is

\* A change of masks puts in, or takes out, the atom that it names and no other.
LEMMA MaskStep ==
  ASSUME NEW rules \in Seq([atom : Atoms]), NEW w \in MaskWords
  PROVE  \A atom : [atom |-> atom] \in Range(MaskChange(rules, w))
                     <=> IF w.name = atom THEN w.enabled ELSE [atom |-> atom] \in Range(rules)
<1>. DEFINE rule == [atom |-> w.name]
<1>1. rule \in [atom : Atoms] /\ w.enabled \in BOOLEAN
  BY DEF MaskWords, Words
<1>2. \A atom : [atom |-> atom] = rule <=> atom = w.name
  <2>1. \A atom : [atom |-> atom].atom = atom
    OBVIOUS
  <2>. QED BY <2>1
<1>3. MaskChange(rules, w) = IF w.enabled THEN Append(rules, rule) ELSE Without(rules, rule)
  BY DEF MaskChange
<1>. HIDE DEF rule
<1>4. CASE ~w.enabled
  <2>1. Range(Without(rules, rule)) = Range(rules) \ {rule}
    BY WithoutFacts
  <2>. QED BY <1>2, <1>3, <1>4, <2>1
<1>5. CASE w.enabled
  <2>1. <<rule>> \in Seq([atom : Atoms]) /\ Append(rules, rule) = rules \o <<rule>>
    BY <1>1
  <2>2. Range(rules \o <<rule>>) = Range(rules) \cup Range(<<rule>>)
    BY <2>1, RangeOfBoth
  <2>3. Range(<<rule>>) = {rule}
    BY DEF Range
  <2>4. Range(MaskChange(rules, w)) = Range(rules) \cup {rule}
    BY <1>3, <1>5, <2>1, <2>2, <2>3
  <2>. QED BY <1>2, <1>5, <2>4
<1>. QED BY <1>4, <1>5

\* A file of masks masks, or takes back, what it says last, and leaves what it
\* does not mention.
LEMMA MaskFileDecides ==
  ASSUME NEW rules \in Seq([atom : Atoms]), NEW q \in Seq(MaskWords), NEW atom
  PROVE  /\ ~Mentions(q, atom) => ([atom |-> atom] \in Range(applyPackageMaskChanges(rules, q))
                                     <=> [atom |-> atom] \in Range(rules))
         /\ Mentions(q, atom) => ([atom |-> atom] \in Range(applyPackageMaskChanges(rules, q)) <=> LastSays(q, atom))
<1>. DEFINE P == {l \in Seq([atom : Atoms]) : [atom |-> atom] \in Range(l)}
            S == WordsAbout(atom)
            was == [atom |-> atom] \in Range(rules)
            is == [atom |-> atom] \in Range(MaskFolds!Fold(rules, q))
<1>1. \A l \in Seq([atom : Atoms]), w \in MaskWords :
        /\ MaskChange(l, w) \in Seq([atom : Atoms])
        /\ MaskChange(l, w) \in P <=> IF w \in S THEN w \in SpeakingFor ELSE l \in P
  <2>. SUFFICES ASSUME NEW l \in Seq([atom : Atoms]), NEW w \in MaskWords
                PROVE  /\ MaskChange(l, w) \in Seq([atom : Atoms])
                       /\ MaskChange(l, w) \in P <=> IF w \in S THEN w \in SpeakingFor ELSE l \in P
    OBVIOUS
  <2>1. MaskChange(l, w) \in Seq([atom : Atoms])
    BY MaskChangeType
  <2>2. [atom |-> atom] \in Range(MaskChange(l, w)) <=> IF w.name = atom THEN w.enabled ELSE [atom |-> atom] \in Range(l)
    BY MaskStep
  <2>3. w \in Words
    BY DEF MaskWords
  <2>. QED BY <2>1, <2>2, <2>3 DEF WordsAbout, SpeakingFor
<1>2. MaskFolds!Fold(rules, q) \in Seq([atom : Atoms])
  BY MaskChangesType, FoldsOfPolicy
<1>3. (rules \in P <=> was) /\ (MaskFolds!Fold(rules, q) \in P <=> is)
  BY <1>2
<1>. HIDE DEF P, S
<1>4. /\ (\A i \in DOMAIN q : q[i] \notin S) => (MaskFolds!Fold(rules, q) \in P <=> rules \in P)
      /\ \A k \in DOMAIN q : q[k] \in S /\ (\A j \in k + 1..Len(q) : q[j] \notin S)
                           => (MaskFolds!Fold(rules, q) \in P <=> q[k] \in SpeakingFor)
  <2>1. MaskFolds!Deciding(MaskWords, Seq([atom : Atoms]), P, S, SpeakingFor)
    BY <1>1 DEF MaskFolds!Deciding
  <2>. QED BY <2>1, MaskFolds!LastDecides
<1>5. was \in BOOLEAN /\ is \in BOOLEAN /\ q \in Seq(Words)
  <2>1. MaskWords \subseteq Words
    BY DEF MaskWords
  <2>. QED BY <2>1
<1>. HIDE DEF was, is
<1>6. /\ (\A i \in DOMAIN q : q[i] \notin WordsAbout(atom)) => (is <=> was)
      /\ \A k \in DOMAIN q : q[k] \in WordsAbout(atom) /\ (\A j \in k + 1..Len(q) : q[j] \notin WordsAbout(atom))
                           => (is <=> q[k] \in SpeakingFor)
  BY <1>3, <1>4 DEF S
<1>7. (~Mentions(q, atom) => (is <=> was)) /\ (Mentions(q, atom) => (is <=> LastSays(q, atom)))
  BY <1>5, <1>6, LastWord
<1>. QED BY <1>7, FoldsOfPolicy DEF was, is

\* It stays so, whatever is read.
LEMMA OrdersKeptStep == FieldInv /\ OrdersKept /\ [Next]_vars => OrdersKept'
<1>. SUFFICES ASSUME FieldInv, OrdersKept, [Next]_vars PROVE OrdersKept'
  OBVIOUS
<1>1. "repositories" \in DOMAIN config /\ "directories" \in DOMAIN config
  BY DEF FieldInv, Fields
<1>2. CASE WalkMasters
  BY <1>2 DEF WalkMasters, OrdersKept, readVars, parentVars, Has
<1>3. CASE RepositoriesKnown
  BY <1>1, <1>3 DEF RepositoriesKnown, RepositoryOrder, Goes, OrdersKept, masterVars, parentVars, Has
<1>4. CASE WalkParents
  BY <1>4 DEF WalkParents, OrdersKept, readVars, masterVars, Has
<1>5. CASE ProfileKnown
  BY <1>1, <1>5 DEF ProfileKnown, Goes, OrdersKept, masterVars, parentVars, Has
<1>6. CASE Fail
  BY <1>6 DEF Fail, NoConfig, OrdersKept
<1>7. CASE UNCHANGED vars
  BY <1>7 DEF vars, masterVars, parentVars, readVars, OrdersKept, Has
<1>8. ASSUME UNCHANGED <<masterVars, parentVars, dialect>>,
             phase' \in {"repositories", "globals", "profile"} => phase \in {"repositories", "globals", "profile"},
             phase \notin {"repositories", "failed"},
             config'.repositories = config.repositories, config'.directories = config.directories
      PROVE  OrdersKept'
  BY <1>8 DEF masterVars, parentVars, OrdersKept, Has
<1>9. CASE ReadGlobals
  BY <1>8, <1>9 DEF ReadGlobals, Goes
<1>10. CASE MergeLayer
  <2>1. PICK layer \in LayerContents : config' = mergeProfileLayer(config, layer)
    BY <1>10 DEF MergeLayer
  <2>2. config'.repositories = config.repositories /\ config'.directories = config.directories
    BY <2>1 DEF mergeProfileLayer
  <2>. QED BY <1>8, <1>10, <2>2 DEF MergeLayer, Turn
<1>11. CASE LayersMerged \/ ReadDefaults \/ DefaultsRead
  BY <1>8, <1>11 DEF LayersMerged, ReadDefaults, DefaultsRead, Over, Turn, Goes, readVars
<1>12. CASE ReadMakeConf
  <2>1. config'.repositories = config.repositories /\ config'.directories = config.directories
    BY <1>12 DEF ReadMakeConf
  <2>. QED BY <1>8, <1>12, <2>1 DEF ReadMakeConf, Goes
<1>13. CASE ReadPackageUse \/ ReadPackageKeywords
  <2>1. config'.repositories = config.repositories /\ config'.directories = config.directories
    BY <1>1, <1>13 DEF ReadPackageUse, ReadPackageKeywords
  <2>. QED BY <1>8, <1>13, <2>1 DEF ReadPackageUse, ReadPackageKeywords, Goes
<1>14. CASE applyConfigEnvironment
  <2>1. config'.repositories = config.repositories /\ config'.directories = config.directories
    BY <1>14 DEF applyConfigEnvironment
  <2>. QED BY <1>8, <1>14, <2>1 DEF applyConfigEnvironment, Goes
<1>15. CASE MaskRepository \/ MaskDirectory \/ MaskUser
  <2>1. config'.repositories = config.repositories /\ config'.directories = config.directories
    BY <1>1, <1>15 DEF MaskRepository, MaskDirectory, MaskUser, Mask
  <2>. QED BY <1>8, <1>15, <2>1 DEF MaskRepository, MaskDirectory, MaskUser, Turn, Goes
<1>16. CASE RepositoriesMasked \/ DirectoriesMasked
  BY <1>8, <1>16 DEF RepositoriesMasked, DirectoriesMasked, Over, Goes, readVars
<1>17. CASE Returned
  BY <1>7, <1>17 DEF Returned
<1>. QED BY <1>2, <1>3, <1>4, <1>5, <1>6, <1>7, <1>9, <1>10, <1>11, <1>12, <1>13, <1>14, <1>15, <1>16, <1>17 DEF Next

\* A layer more decides what it mentions, and leaves the rest to those before it.
LEMMA LayerOnTop ==
  ASSUME dialect \in Dialects, NEW layers \in Seq(LayerContents), NEW layer \in LayerContents,
         NEW field \in ListFields, NEW list \in Seq(STRING), NEW name,
         \A i \in DOMAIN layers :
           /\ Mentions(layers[i][field], name)
           /\ \A j \in i + 1..Len(layers) : ~Mentions(layers[j][field], name)
           => (name \in Range(list) <=> LastSays(layers[i][field], name)),
         NEW i \in DOMAIN Append(layers, layer), Mentions(Append(layers, layer)[i][field], name),
         \A j \in i + 1..Len(Append(layers, layer)) : ~Mentions(Append(layers, layer)[j][field], name)
  PROVE  name \in Range(applyProfileChanges(list, layer[field])) <=> LastSays(Append(layers, layer)[i][field], name)
<1>. DEFINE n == Len(layers)
            more == Append(layers, layer)
<1>1. /\ n \in Nat /\ DOMAIN layers = 1..n /\ Len(more) = n + 1 /\ DOMAIN more = 1..n + 1 /\ more[n + 1] = layer
      /\ \A k \in 1..n : more[k] = layers[k]
  OBVIOUS
<1>2. layer[field] \in Seq(Words)
  BY LayerTypes DEF ListFields
<1>. HIDE DEF n, more
<1>3. CASE i = n + 1
  <2>1. more[i] = layer /\ Mentions(layer[field], name)
    BY <1>1, <1>3 DEF more
  <2>. QED BY <1>2, <2>1, FileDecides DEF more
<1>4. CASE i # n + 1
  <2>1. i \in 1..n /\ n + 1 \in i + 1..Len(more) /\ \A j \in i + 1..n : j \in i + 1..Len(more) /\ j \in 1..n
    BY <1>1, <1>4 DEF more
  <2>2. more[i] = layers[i] /\ ~Mentions(layer[field], name) /\ \A j \in i + 1..n : ~Mentions(layers[j][field], name)
    BY <1>1, <2>1 DEF more
  <2>3. Mentions(layers[i][field], name)
    BY <2>2 DEF more
  <2>4. name \in Range(list) <=> LastSays(layers[i][field], name)
    BY <1>1, <2>1, <2>2, <2>3 DEF n
  <2>5. name \in Range(applyProfileChanges(list, layer[field])) <=> name \in Range(list)
    BY <1>2, <2>2, FileDecides
  <2>. QED BY <2>2, <2>4, <2>5 DEF more
<1>. QED BY <1>3, <1>4

\* It stays so, layer by layer.
LEMMA LayersDecideStep == ReadInv /\ ShapeInv /\ FieldInv /\ LayersDecide /\ [Next]_vars => LayersDecide'
<1>. SUFFICES ASSUME ReadInv, ShapeInv, FieldInv, LayersDecide, [Next]_vars PROVE LayersDecide'
  OBVIOUS
<1>1. "layers" \in DOMAIN config /\ "useForce" \in DOMAIN config /\ "system" \in DOMAIN config
  BY DEF ShapeInv, UseFields, FieldInv, Fields
<1>2. CASE config'.layers = config.layers /\ \A field \in ListFields : config'[field] = config[field]
  BY <1>2 DEF LayersDecide, LayerDecides
<1>3. CASE MergeLayer
  <2>1. PICK layer \in LayerContents : config' = mergeProfileLayer(config, layer)
    BY <1>3 DEF MergeLayer
  <2>2. /\ config'.layers = Append(config.layers, layer)
        /\ config'.useForce = applyProfileChanges(config.useForce, layer.useForce)
        /\ config'.system = applyProfileChanges(config.system, layer.system)
    BY <1>1, <2>1 DEF mergeProfileLayer
  <2>3. dialect \in Dialects /\ config.layers \in Seq(LayerContents)
    BY DEF ReadInv, ShapeInv
  <2>4. \A field \in ListFields : /\ config[field] \in Seq(STRING)
                                  /\ config'[field] = applyProfileChanges(config[field], layer[field])
    BY <2>2, TypesOfFields DEF ListFields, FieldInv, Fields
  <2>. SUFFICES ASSUME NEW field \in ListFields, NEW i \in DOMAIN config'.layers, NEW name \in STRING,
                       Mentions(config'.layers[i][field], name),
                       \A j \in i + 1..Len(config'.layers) : ~Mentions(config'.layers[j][field], name)
                PROVE  name \in Range(config'[field]) <=> LastSays(config'.layers[i][field], name)
    BY Zenon DEF LayersDecide, LayerDecides
  <2>5. \A k \in DOMAIN config.layers :
          /\ Mentions(config.layers[k][field], name)
          /\ \A j \in k + 1..Len(config.layers) : ~Mentions(config.layers[j][field], name)
          => (name \in Range(config[field]) <=> LastSays(config.layers[k][field], name))
    BY DEF LayersDecide, LayerDecides
  <2>6. /\ i \in DOMAIN Append(config.layers, layer) /\ Mentions(Append(config.layers, layer)[i][field], name)
        /\ \A j \in i + 1..Len(Append(config.layers, layer)) : ~Mentions(Append(config.layers, layer)[j][field], name)
    BY <2>2
  <2>7. name \in Range(applyProfileChanges(config[field], layer[field]))
          <=> LastSays(Append(config.layers, layer)[i][field], name)
    BY <2>3, <2>4, <2>5, <2>6, LayerOnTop
  <2>. QED BY <2>2, <2>4, <2>7
<1>4. CASE Fail
  <2>1. config'.layers = <<>>
    BY <1>4 DEF Fail, NoConfig
  <2>. QED BY <2>1 DEF LayersDecide, LayerDecides
<1>5. CASE RepositoriesKnown \/ ProfileKnown
  BY <1>1, <1>2, <1>5 DEF RepositoriesKnown, ProfileKnown, ListFields
<1>6. CASE ReadMakeConf
  BY <1>2, <1>6 DEF ReadMakeConf, ListFields
<1>7. CASE ReadPackageUse \/ ReadPackageKeywords
  BY <1>1, <1>2, <1>7 DEF ReadPackageUse, ReadPackageKeywords, ListFields
<1>8. CASE applyConfigEnvironment
  BY <1>2, <1>8 DEF applyConfigEnvironment, ListFields
<1>9. CASE MaskRepository \/ MaskDirectory \/ MaskUser
  BY <1>1, <1>2, <1>9 DEF MaskRepository, MaskDirectory, MaskUser, Mask, ListFields
<1>10. CASE WalkMasters \/ ReadGlobals \/ WalkParents \/ LayersMerged \/ ReadDefaults \/ DefaultsRead
           \/ RepositoriesMasked \/ DirectoriesMasked \/ Returned \/ UNCHANGED vars
  BY <1>2, <1>10 DEF WalkMasters, ReadGlobals, WalkParents, LayersMerged, ReadDefaults, DefaultsRead,
    RepositoriesMasked, DirectoriesMasked, Returned, vars, readVars
<1>. QED BY <1>3, <1>4, <1>5, <1>6, <1>7, <1>8, <1>9, <1>10 DEF Next

\* each element once
InOnePlace(list) == \A i, j \in 1..Len(list) : list[i] = list[j] => i = j

\* No repository and no directory is twice in an order.
LEMMA WalksOnce == MastersProofs!WalkInv /\ ParentsProofs!WalkInv => InOnePlace(repositoryOrder) /\ InOnePlace(profileOrder)
BY DEF MastersProofs!WalkInv, MastersProofs!Ordered, ParentsProofs!WalkInv, ParentsProofs!Ordered, InOnePlace

\* A repository more decides what it mentions, and leaves the rest to those before it.
LEMMA RepositoryOnTop ==
  ASSUME NEW repos \in Seq(Repositories), \A i, j \in DOMAIN repos : repos[i] = repos[j] => i = j,
         NEW p \in DOMAIN repos, NEW said \in [Repositories -> Seq(MaskWords)], NEW file \in Seq(MaskWords),
         NEW rules \in Seq([atom : Atoms]), NEW atom,
         \A i \in 1..p - 1 :
           /\ Mentions(said[repos[i]], atom)
           /\ \A j \in i + 1..p - 1 : ~Mentions(said[repos[j]], atom)
           => ([atom |-> atom] \in Range(rules) <=> LastSays(said[repos[i]], atom)),
         NEW now, now = [said EXCEPT ![repos[p]] = file],
         NEW i \in 1..p, Mentions(now[repos[i]], atom), \A j \in i + 1..p : ~Mentions(now[repos[j]], atom)
  PROVE  [atom |-> atom] \in Range(applyPackageMaskChanges(rules, file)) <=> LastSays(now[repos[i]], atom)
<1>1. DOMAIN repos = 1..Len(repos) /\ Len(repos) \in Nat /\ p \in 1..Len(repos) /\ repos[p] \in Repositories
  OBVIOUS
<1>2. now[repos[p]] = file
  BY <1>1
<1>3. \A k \in 1..p - 1 : k \in 1..p /\ k \in DOMAIN repos /\ k # p /\ repos[k] \in Repositories
  BY <1>1
<1>4. \A k \in 1..p - 1 : now[repos[k]] = said[repos[k]]
  <2>. SUFFICES ASSUME NEW k \in 1..p - 1 PROVE now[repos[k]] = said[repos[k]]
    OBVIOUS
  <2>1. k # p /\ k \in DOMAIN repos
    BY <1>3
  <2>2. repos[k] # repos[p]
    BY <2>1
  <2>. QED BY <2>1, <2>2
<1>5. CASE i = p
  <2>1. Mentions(file, atom)
    BY <1>2, <1>5
  <2>2. [atom |-> atom] \in Range(applyPackageMaskChanges(rules, file)) <=> LastSays(file, atom)
    BY <2>1, MaskFileDecides
  <2>. QED BY <1>2, <1>5, <2>2
<1>6. CASE i # p
  <2>1. i \in 1..p - 1 /\ p \in i + 1..p /\ \A j \in i + 1..p - 1 : j \in i + 1..p /\ j \in 1..p - 1
    BY <1>1, <1>6
  <2>2. ~Mentions(file, atom)
    BY <1>2, <2>1
  <2>3. Mentions(said[repos[i]], atom) /\ \A j \in i + 1..p - 1 : ~Mentions(said[repos[j]], atom)
    BY <1>4, <2>1
  <2>4. [atom |-> atom] \in Range(rules) <=> LastSays(said[repos[i]], atom)
    BY <2>1, <2>3
  <2>5. [atom |-> atom] \in Range(applyPackageMaskChanges(rules, file)) <=> [atom |-> atom] \in Range(rules)
    BY <2>2, MaskFileDecides
  <2>. QED BY <1>4, <2>1, <2>4, <2>5
<1>. QED BY <1>5, <1>6

\* It stays so, repository by repository, as no repository is read twice.
LEMMA RepositoriesDecideStep ==
  ReadInv /\ FieldInv /\ InOnePlace(repositoryOrder) /\ OrdersKept /\ RepositoriesDecide /\ [Next]_vars
    => RepositoriesDecide'
<1>. SUFFICES ASSUME ReadInv, FieldInv, InOnePlace(repositoryOrder), OrdersKept, RepositoriesDecide, [Next]_vars, Hearing'
              PROVE  RepositoriesDecide'
  BY DEF RepositoriesDecide
<1>. DEFINE repos == config.repositories
<1>1. /\ "repositories" \in DOMAIN config /\ "packageMasks" \in DOMAIN config
      /\ repos \in Seq(Repositories) /\ config.packageMasks \in Seq([atom : Atoms])
  BY TypesOfFields DEF FieldInv, Fields
<1>2. position \in Nat \ {0} /\ dialect \in Dialects /\ maskFile \in [Repositories -> Seq(MaskWords)]
  BY DEF ReadInv
<1>3. CASE ReadPackageKeywords
  <2>1. Heard' = position' - 1 /\ position' = 1 /\ config'.repositories = repos
    <3>1. config'.repositories = repos
      BY <1>1, <1>3 DEF ReadPackageKeywords
    <3>. QED BY <1>3, <3>1, Zenon DEF ReadPackageKeywords, Goes, Heard
  <2>2. Heard' = 0 /\ Heard' <= Len(config'.repositories)
    BY <1>1, <2>1
  <2>3. \A i \in 1..Heard' : FALSE
    BY <2>2
  <2>. QED BY <2>2, <2>3, Zenon DEF RepositoriesDecide
<1>4. CASE MaskRepository
  <2>1. position <= Len(repos) /\ position' = position + 1
    BY <1>4, Zenon DEF MaskRepository, Turn
  <2>2. Hearing /\ Heard = position - 1 /\ Heard' = position' - 1
    BY <1>4, Zenon DEF MaskRepository, Turn, Hearing, Heard, Has
  <2>3. Heard' = position
    BY <1>2, <2>1, <2>2
  <2>4. PICK file \in Seq(MaskWords) :
          /\ config' = [config EXCEPT !.packageMasks = applyPackageMaskChanges(@, file)]
          /\ maskFile' = [maskFile EXCEPT ![repos[position]] = file]
    <3>1. Parsed("repository package.mask") = {words \in Seq(Words) : \A i \in DOMAIN words : words[i].name \in Atoms}
      BY DEF Parsed, AssignmentFiles, RuleFiles, MaskFiles
    <3>2. Content("repository package.mask") \subseteq Seq(MaskWords)
      BY <1>2, <3>1, ContentType, MaskedWords, Zenon
    <3>. QED BY <1>4, <3>2, Zenon DEF MaskRepository
  <2>5. config'.repositories = repos /\ config'.packageMasks = applyPackageMaskChanges(config.packageMasks, file)
    BY <1>1, <2>4
  <2>6. \A i, j \in DOMAIN repos : repos[i] = repos[j] => i = j
    <3>1. repos = repositoryOrder
      BY <1>4, <2>2, Zenon DEF OrdersKept, Hearing, MaskRepository, Turn
    <3>. QED BY <1>1, <3>1 DEF InOnePlace
  <2>7. \A i \in 1..position - 1, atom \in Atoms :
           /\ Mentions(maskFile[repos[i]], atom)
           /\ \A j \in i + 1..position - 1 : ~Mentions(maskFile[repos[j]], atom)
           => ([atom |-> atom] \in Range(config.packageMasks) <=> LastSays(maskFile[repos[i]], atom))
    BY <2>2, Zenon DEF RepositoriesDecide
  <2>8. position \in DOMAIN repos
    BY <1>1, <1>2, <2>1
  <2>9. Heard' <= Len(config'.repositories)
    BY <2>1, <2>3, <2>5
  <2>. HIDE DEF repos
  <2>10. ASSUME NEW i \in 1..position, NEW atom \in Atoms, Mentions(maskFile'[repos[i]], atom),
                \A j \in i + 1..position : ~Mentions(maskFile'[repos[j]], atom)
         PROVE  [atom |-> atom] \in Range(config'.packageMasks) <=> LastSays(maskFile'[repos[i]], atom)
    <3>1. \A k \in 1..position - 1 :
            /\ Mentions(maskFile[repos[k]], atom)
            /\ \A j \in k + 1..position - 1 : ~Mentions(maskFile[repos[j]], atom)
            => ([atom |-> atom] \in Range(config.packageMasks) <=> LastSays(maskFile[repos[k]], atom))
      BY <2>7
    <3>2. [atom |-> atom] \in Range(applyPackageMaskChanges(config.packageMasks, file)) <=> LastSays(maskFile'[repos[i]], atom)
      BY <1>1, <1>2, <2>4, <2>6, <2>8, <2>10, <3>1, RepositoryOnTop
    <3>. QED BY <2>5, <3>2
  <2>. QED BY Zenon, <2>3, <2>5, <2>9, <2>10 DEF RepositoriesDecide
<1>5. CASE RepositoriesMasked
  <2>1. position > Len(repos) /\ UNCHANGED <<config, maskFile>>
    BY <1>5, Zenon DEF RepositoriesMasked, Over, readVars
  <2>2. Hearing /\ Heard = position - 1
    BY <1>5, Zenon DEF RepositoriesMasked, Over, Goes, Hearing, Heard, Has
  <2>3. Heard' = Len(config'.repositories)
    <3>1. phase' = "profile masks"
      BY <1>5, Zenon DEF RepositoriesMasked, Over, Goes
    <3>2. "profile masks" # "repository masks"
      BY Zenon
    <3>. QED BY <3>1, <3>2, Zenon DEF Heard
  <2>4. Heard <= Len(repos)
    BY <2>2, Zenon DEF RepositoriesDecide
  <2>5. Heard' = Heard /\ Heard' <= Len(config'.repositories)
    BY <1>1, <1>2, <2>1, <2>2, <2>3, <2>4
  <2>. QED BY Zenon, <2>1, <2>2, <2>5 DEF RepositoriesDecide
<1>6. CASE UNCHANGED vars
  <2>1. UNCHANGED <<dialect, phase, position, config, maskFile>>
    BY <1>6 DEF vars, readVars
  <2>2. Hearing /\ Heard' = Heard
    BY <2>1 DEF Hearing, Heard, Has
  <2>. QED BY Zenon, <2>1, <2>2 DEF RepositoriesDecide
<1>7. CASE MaskDirectory
  <2>1. position' = position + 1
    BY <1>7, Zenon DEF MaskDirectory, Turn
  <2>2. position' # 1
    BY <1>2, <2>1
  <2>. QED BY <1>7, <2>2, Zenon DEF Hearing, MaskDirectory, Turn
<1>8. CASE Returned
  BY <1>6, <1>8 DEF Returned
<1>9. CASE WalkMasters \/ RepositoriesKnown \/ ReadGlobals \/ WalkParents \/ ProfileKnown \/ MergeLayer
           \/ LayersMerged \/ ReadDefaults \/ DefaultsRead \/ ReadMakeConf \/ ReadPackageUse
           \/ applyConfigEnvironment \/ DirectoriesMasked \/ MaskUser \/ Fail
  <2>1. phase' \notin {"repository masks", "profile masks"}
    BY <1>9 DEF WalkMasters, RepositoriesKnown, ReadGlobals, WalkParents, ProfileKnown, MergeLayer, LayersMerged,
      ReadDefaults, DefaultsRead, ReadMakeConf, ReadPackageUse, applyConfigEnvironment, DirectoriesMasked, MaskUser,
      Fail, Goes, Turn, Over
  <2>. QED BY <2>1 DEF Hearing
<1>. QED BY <1>3, <1>4, <1>5, <1>6, <1>7, <1>8, <1>9 DEF Next

\* those that one is derived from, however far
MastersOf(r) == Masters!Above({r})
ParentsOf(d) == Parents!Above({d})

\* None of them comes after it.
MastersComeFirst ==
  \A i, j \in 1..Len(repositoryOrder) : repositoryOrder[j] \in MastersOf(repositoryOrder[i]) => j <= i
ParentsComeFirst ==
  \A i, j \in 1..Len(profileOrder) : profileOrder[j] \in ParentsOf(profileOrder[i]) => j <= i

\* The invariants of the walks say so.
LEMMA WalksUpwards ==
  /\ MastersProofs!WalkInv => MastersComeFirst
  /\ ParentsProofs!WalkInv => ParentsComeFirst
<1>1. \A R : MastersProofs!Above(R) = Masters!Above(R)
  BY DEF MastersProofs!Above, Masters!Above, MastersProofs!IsClosed, Masters!IsClosed, MastersProofs!Elements, Masters!Elements
<1>2. \A R : ParentsProofs!Above(R) = Parents!Above(R)
  BY DEF ParentsProofs!Above, Parents!Above, ParentsProofs!IsClosed, Parents!IsClosed, ParentsProofs!Elements, Parents!Elements
<1>3. ASSUME MastersProofs!WalkInv, NEW i \in 1..Len(repositoryOrder), NEW j \in 1..Len(repositoryOrder),
             repositoryOrder[j] \in MastersOf(repositoryOrder[i])
      PROVE  j <= i
  <2>1. repositoryOrder[j] \in MastersProofs!Above({repositoryOrder[i]})
    BY <1>1, <1>3 DEF MastersOf
  <2>. QED BY <1>3, <2>1, MastersProofs!AboveIsBefore
<1>4. ASSUME ParentsProofs!WalkInv, NEW i \in 1..Len(profileOrder), NEW j \in 1..Len(profileOrder),
             profileOrder[j] \in ParentsOf(profileOrder[i])
      PROVE  j <= i
  <2>1. profileOrder[j] \in ParentsProofs!Above({profileOrder[i]})
    BY <1>2, <1>4 DEF ParentsOf
  <2>. QED BY <1>4, <2>1, ParentsProofs!AboveIsBefore
<1>. QED BY <1>3, <1>4 DEF MastersComeFirst, ParentsComeFirst

\* After the last repository the phase is another, and all have been heard.
LEMMA AllHeard ==
  phase = "profile masks" /\ position = 1 /\ Has("reposConf") =>
    /\ Hearing /\ Heard = Len(config.repositories)
    /\ OrdersKept => config.repositories = repositoryOrder
<1>1. "profile masks" # "repository masks" /\ "profile masks" \notin {"repositories", "failed"}
  BY Zenon
<1>. QED BY <1>1, Zenon DEF Hearing, Heard, OrdersKept

\* An overlay is heard after its masters, and so it decides.
LEMMA OverlayDecides ==
  FieldInv /\ OrdersKept /\ RepositoriesDecide /\ MastersComeFirst => OverlaySpeaksLast
<1>. DEFINE repos == config.repositories
<1>1. SUFFICES ASSUME FieldInv, OrdersKept, RepositoriesDecide, MastersComeFirst,
                      phase = "profile masks", position = 1, Has("reposConf"),
                      NEW r \in Range(repos), NEW atom \in Atoms, Mentions(maskFile[r], atom),
                      \A q \in Repositories : Mentions(maskFile[q], atom) => q \in MastersOf(r)
               PROVE  LastSays(maskFile[r], atom) <=> [atom |-> atom] \in Range(config.packageMasks)
  BY Zenon DEF OverlaySpeaksLast, MastersOf
<1>2. Hearing /\ Heard = Len(repos) /\ repos = repositoryOrder
  BY <1>1, AllHeard, Zenon
<1>3. repos \in Seq(Repositories)
  <2>1. FieldInv
    BY <1>1, Zenon
  <2>. QED BY <2>1, TypesOfFields DEF FieldInv, Fields
<1>4. \A i \in 1..Len(repos), a \in Atoms :
        /\ Mentions(maskFile[repos[i]], a)
        /\ \A j \in i + 1..Len(repos) : ~Mentions(maskFile[repos[j]], a)
        => ([atom |-> a] \in Range(config.packageMasks) <=> LastSays(maskFile[repos[i]], a))
  BY <1>1, <1>2, Zenon DEF RepositoriesDecide
<1>5. \A i, j \in 1..Len(repos) : repos[j] \in MastersOf(repos[i]) => j <= i
  BY <1>1, <1>2, Zenon DEF MastersComeFirst
<1>6. r \in Range(repos)
  BY <1>1, Zenon
<1>. HIDE DEF repos
<1>7. Len(repos) \in Nat /\ \A i \in 1..Len(repos) : repos[i] \in Repositories
  BY <1>3
<1>8. PICK i \in 1..Len(repos) : repos[i] = r
  BY <1>3, <1>6 DEF Range
<1>9. ASSUME NEW j \in i + 1..Len(repos) PROVE ~Mentions(maskFile[repos[j]], atom)
  <2>1. j \in 1..Len(repos) /\ ~(j <= i)
    BY <1>7, <1>8
  <2>2. repos[j] \notin MastersOf(r)
    BY <1>5, <1>8, <2>1
  <2>3. repos[j] \in Repositories
    BY <1>7, <2>1
  <2>. QED BY <1>1, <2>2, <2>3, Zenon
<1>10. Mentions(maskFile[repos[i]], atom)
  BY <1>1, <1>8, Zenon
<1>11. [atom |-> atom] \in Range(config.packageMasks) <=> LastSays(maskFile[repos[i]], atom)
  BY <1>1, <1>4, <1>8, <1>9, <1>10, Zenon
<1>. QED BY <1>8, <1>11, Zenon

\* The layers of a profile, in the order of its directories.
LEMMA LayersOfOrder ==
  FieldInv /\ ShapeInv /\ LayersInStep /\ OrdersKept =>
    /\ config.layers \in Seq(LayerContents)
    /\ \A i \in DOMAIN config.layers : i \in 1..Len(profileOrder) /\ config.directories[i] = profileOrder[i]
<1>. SUFFICES ASSUME FieldInv, ShapeInv, LayersInStep, OrdersKept
              PROVE  /\ config.layers \in Seq(LayerContents)
                     /\ \A i \in DOMAIN config.layers : i \in 1..Len(profileOrder) /\ config.directories[i] = profileOrder[i]
  OBVIOUS
<1>1. config.layers \in Seq(LayerContents) /\ config.directories \in Seq(Directories)
  BY TypesOfFields DEF ShapeInv, FieldInv, Fields
<1>2. Len(config.layers) <= Len(config.directories)
  BY DEF LayersInStep
<1>3. config.directories = <<>> \/ config.directories = profileOrder
  BY DEF OrdersKept
<1>4. DOMAIN config.layers = 1..Len(config.layers) /\ Len(config.layers) \in Nat /\ Len(config.directories) \in Nat
  BY <1>1
<1>5. CASE config.directories = <<>>
  <2>1. Len(config.layers) = 0
    BY <1>2, <1>4, <1>5
  <2>. QED BY <1>1, <1>4, <2>1
<1>6. CASE config.directories = profileOrder
  BY <1>1, <1>2, <1>4, <1>6
<1>. QED BY <1>3, <1>5, <1>6

\* The layers after the nearest that mentions a name do not mention it.
LEMMA NoneIsNearer ==
  ASSUME FieldInv, ShapeInv, LayersInStep, OrdersKept, ParentsComeFirst,
         NEW field, NEW name, NEW i \in DOMAIN config.layers, Nearest(Layers(field), i, name)
  PROVE  \A j \in i + 1..Len(config.layers) : ~Mentions(config.layers[j][field], name)
<1>. SUFFICES ASSUME NEW j \in i + 1..Len(config.layers), Mentions(config.layers[j][field], name) PROVE FALSE
  OBVIOUS
<1>1. config.layers \in Seq(LayerContents)
      /\ \A k \in DOMAIN config.layers : k \in 1..Len(profileOrder) /\ config.directories[k] = profileOrder[k]
  BY LayersOfOrder
<1>2. j \in DOMAIN config.layers /\ ~(j <= i)
  BY <1>1
<1>3. DOMAIN Layers(field) = DOMAIN config.layers /\ Layers(field)[j] = config.layers[j][field]
  BY <1>2 DEF Layers
<1>4. config.directories[j] \in ParentsOf(config.directories[i])
  BY <1>2, <1>3 DEF Nearest, ParentsOf
<1>5. j \in 1..Len(profileOrder) /\ i \in 1..Len(profileOrder) /\ profileOrder[j] \in ParentsOf(profileOrder[i])
  BY <1>1, <1>2, <1>4
<1>. QED BY <1>2, <1>5 DEF ParentsComeFirst

\* A profile is merged after those it inherits from, and so it decides.
LEMMA LeafDecides ==
  FieldInv /\ ShapeInv /\ ReadInv /\ LayersInStep /\ OrdersKept /\ ParentsComeFirst /\ LayersDecide => LeafSpeaksLast
<1>. SUFFICES ASSUME FieldInv, ShapeInv, ReadInv, LayersInStep, OrdersKept, ParentsComeFirst, LayersDecide,
                     NEW field \in ListFields, NEW i \in DOMAIN Layers(field), NEW change \in Range(Layers(field)[i]),
                     Nearest(Layers(field), i, change.name)
              PROVE  LastSays(Layers(field)[i], change.name) <=> change.name \in Range(config[field])
  BY Zenon DEF LeafSpeaksLast, ListFields
<1>1. i \in DOMAIN config.layers /\ Layers(field)[i] = config.layers[i][field]
  BY DEF Layers
<1>2. config.layers[i][field] \in Seq(Words)
  <2>1. config.layers[i] \in LayerContents /\ dialect \in Dialects
    BY <1>1 DEF ShapeInv, ReadInv
  <2>. QED BY <2>1, LayerTypes DEF ListFields
<1>3. change \in Range(config.layers[i][field])
  BY <1>1
<1>4. change.name \in STRING /\ Mentions(config.layers[i][field], change.name)
  <2>1. PICK k \in DOMAIN config.layers[i][field] : config.layers[i][field][k] = change
    BY <1>3 DEF Range
  <2>2. change \in Words
    BY <1>2, <2>1
  <2>3. change.name \in STRING /\ Says(change, change.name)
    BY <2>2 DEF Says, Words
  <2>. QED BY <2>1, <2>3 DEF Mentions
<1>5. \A j \in i + 1..Len(config.layers) : ~Mentions(config.layers[j][field], change.name)
  BY <1>1, NoneIsNearer
<1>6. change.name \in Range(config[field]) <=> LastSays(config.layers[i][field], change.name)
  BY <1>1, <1>4, <1>5 DEF LayersDecide, LayerDecides
<1>. QED BY <1>1, <1>6

\* A list whose last word on a name puts it in has that word.
LEMMA SpokenFor ==
  ASSUME NEW q \in Seq(Words), NEW name, Mentions(q, name), LastSays(q, name)
  PROVE  Change(name, TRUE) \in Range(q)
<1>. DEFINE S == WordsAbout(name)
<1>1. DOMAIN q = 1..Len(q) /\ Len(q) \in Nat /\ \A i \in DOMAIN q : q[i] \in Words
  OBVIOUS
<1>2. \A i \in DOMAIN q : Says(q[i], name) <=> q[i] \in S
  BY <1>1 DEF Says, Words, WordsAbout
<1>. HIDE DEF S
<1>3. \E i \in DOMAIN q : q[i] \in S
  BY <1>2 DEF Mentions
<1>4. PICK k \in DOMAIN q : q[k] \in S /\ \A j \in k + 1..Len(q) : q[j] \notin S
  BY <1>3, ProfileFolds!LatestExists
<1>5. \A j \in k + 1..Len(q) : j \in DOMAIN q
  BY <1>1
<1>6. Says(q[k], name) /\ \A j \in k + 1..Len(q) : ~Says(q[j], name)
  BY <1>2, <1>4, <1>5
<1>7. LastSays(q, name) = q[k].enabled
  BY <1>6, LastSaysFacts
<1>8. q[k] = Change(name, TRUE)
  <2>1. q[k] \in Words /\ q[k].name = name /\ q[k].enabled = TRUE
    BY <1>1, <1>6, <1>7 DEF Says, Words
  <2>. QED BY <2>1 DEF Words, Change
<1>. QED BY <1>8 DEF Range

\* The word itself is a mention.
LEMMA WordMentions == \A q, name : Change(name, TRUE) \in Range(q) => Mentions(q, name)
BY DEF Change, Range, Mentions, Says

\* A system package is in the file of the nearest profile that mentions it, and
\* in no file after it.
LEMMA SourceIsNearest ==
  FieldInv /\ ShapeInv /\ ReadInv /\ LayersInStep /\ OrdersKept /\ ParentsComeFirst /\ LayersDecide => SystemIsTraced
<1>. SUFFICES ASSUME FieldInv, ShapeInv, ReadInv, LayersInStep, OrdersKept, ParentsComeFirst, LayersDecide,
                     NEW i \in DOMAIN config.layers, NEW value \in Range(config.system),
                     Mentions(config.layers[i].system, value), Nearest(Layers("system"), i, value)
              PROVE  systemSelectionSource(config, value) = config.directories[i]
  <2>1. \A selection \in selectionsFromProfile(config) :
          selection.value \in Range(config.system) /\ selection.source = systemSelectionSource(config, selection.value)
    BY DEF selectionsFromProfile
  <2>. QED BY <2>1, Zenon DEF SystemIsTraced
<1>. DEFINE Selects(j) == Change(value, TRUE) \in Range(config.layers[j].system)
<1>1. config.layers \in Seq(LayerContents) /\ config.layers[i] \in LayerContents /\ dialect \in Dialects
  BY DEF ShapeInv, ReadInv
<1>2. config.layers[i].system \in Seq(Words)
  BY <1>1, LayerTypes
<1>3. value \in STRING
  <2>1. config.system \in Seq(STRING)
    BY TypesOfFields DEF FieldInv, Fields
  <2>. QED BY <2>1 DEF Range
<1>4. \A j \in i + 1..Len(config.layers) : ~Mentions(config.layers[j].system, value)
  BY NoneIsNearer
<1>5. LastSays(config.layers[i].system, value)
  <2>1. "system" \in ListFields
    BY DEF ListFields
  <2>2. LayerDecides("system")
    BY <2>1 DEF LayersDecide
  <2>3. value \in Range(config["system"]) <=> LastSays(config.layers[i]["system"], value)
    BY <1>3, <1>4, <2>2 DEF LayerDecides
  <2>. QED BY <2>3
<1>6. Selects(i)
  BY <1>2, <1>5, SpokenFor
<1>7. \A j \in i + 1..Len(config.layers) : ~Selects(j)
  BY <1>4, WordMentions
<1>8. DOMAIN config.layers = 1..Len(config.layers) /\ Len(config.layers) \in Nat
  BY <1>1
<1>. HIDE DEF Selects
<1>9. ASSUME NEW k \in DOMAIN config.layers, Selects(k), \A j \in k + 1..Len(config.layers) : ~Selects(j) PROVE k = i
  <2>1. ~(k < i) /\ ~(i < k)
    BY <1>6, <1>7, <1>8, <1>9
  <2>. QED BY <1>8, <2>1
<1>10. i = CHOOSE k \in DOMAIN config.layers : Selects(k) /\ \A j \in k + 1..Len(config.layers) : ~Selects(j)
  BY <1>6, <1>7, <1>9
<1>. QED BY <1>10, Zenon DEF systemSelectionSource, Selects

\* In the beginning nobody has spoken.
LEMMA NothingHeard == Init => OrdersKept /\ LayersDecide /\ RepositoriesDecide
<1>. SUFFICES ASSUME Init PROVE OrdersKept /\ LayersDecide /\ RepositoriesDecide
  OBVIOUS
<1>1. phase = "repositories" /\ config = NoConfig
  BY DEF Init
<1>2. OrdersKept
  BY <1>1 DEF OrdersKept, NoConfig
<1>3. config.layers = <<>>
  BY <1>1 DEF NoConfig
<1>4. LayersDecide
  BY <1>3 DEF LayersDecide, LayerDecides
<1>5. ~Hearing
  BY <1>1, Zenon DEF Hearing
<1>. QED BY <1>2, <1>4, <1>5, Zenon DEF RepositoriesDecide

(***************************************************************************)
(* Whatever the sections, masters and profiles on disk and whatever their  *)
(* files say, an overlay has the last word over its masters in             *)
(* package.mask and a profile over those it inherits from in use.force and *)
(* in the system set, and a system package is traced to the profile that   *)
(* had the last word (repositories.go, profile.go, selections.go).         *)
(***************************************************************************)
THEOREM NearestSpeaksLastAlways == Spec => []NearestSpeaksLast
<1>1. Spec => []OrdersKept
  <2>1. TypeInv => FieldInv
    BY DEF TypeInv
  <2>. QED BY <2>1, NothingHeard, OrdersKeptStep, TypeInvAlways, PTL DEF Spec
<1>2. Spec => []LayersDecide
  <2>1. TypeInv => ReadInv /\ ShapeInv /\ FieldInv
    BY DEF TypeInv
  <2>. QED BY <2>1, NothingHeard, LayersDecideStep, TypeInvAlways, PTL DEF Spec
<1>3. Spec => []RepositoriesDecide
  <2>1. TypeInv => ReadInv /\ FieldInv
    BY DEF TypeInv
  <2>2. MastersProofs!WalkInv /\ ParentsProofs!WalkInv => InOnePlace(repositoryOrder)
    BY WalksOnce
  <2>. QED BY <1>1, <2>1, <2>2, NothingHeard, RepositoriesDecideStep, TypeInvAlways, PTL DEF Spec
<1>4. TypeInv /\ MastersProofs!WalkInv /\ ParentsProofs!WalkInv /\ OrdersKept /\ LayersDecide /\ RepositoriesDecide
        => NearestSpeaksLast
  BY WalksUpwards, OverlayDecides, LeafDecides, SourceIsNearest DEF TypeInv, NearestSpeaksLast
<1>. QED BY <1>1, <1>2, <1>3, <1>4, TypeInvAlways, PTL
=============================================================================
