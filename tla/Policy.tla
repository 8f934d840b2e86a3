-------------------------------- MODULE Policy --------------------------------
(***************************************************************************)
(* ReadEffectiveConfig: two walks over what is on disk, then one file after*)
(* another, each a step.  A file has the content that the environment      *)
(* chooses when it is read, from the few that the dialect allows; none is  *)
(* the empty content.  The layers of a profile are read where they are     *)
(* merged, and not during the walk: files do not change here (they do in   *)
(* SystemSnapshot).  What repos.conf and the layouts say is part of the    *)
(* dialect.                                                                *)
(***************************************************************************)
EXTENDS PolicyEvaluation, FiniteSets

CONSTANTS
  Repositories, Directories, Caller,
  RepositoryGraphs, ProfileGraphs,   \* masters and parents, as DepthFirst has them
  FlagOf,       \* the flag "group_word" of each <<group, word>>
  Candidates,   \* packages to evaluate: KEYWORDS and IUSE
  Dialects      \* what there is to read: paths, sections of repos.conf, the
                \* masters that each location's layout.conf names, profiles,
                \* contents of files

VARIABLES
  repositoryGraph, repositoryCalls, repositoryOrder, repositoryOutcome,
  profileGraph, profileCalls, profileOrder, profileOutcome,
  dialect,
  phase,        \* the file that is read next, then "ready" or "failed"
  position,     \* in the loops over repositories and directories
  values,       \* variables so far, expanded
  assignments,  \* allAssignments: all of them so far, as written
  config,       \* the EffectiveConfig and, beside it, the fields of its Profile
  maskFile,     \* the package.mask that each repository turned out to have
  environment   \* ConfigOptions.Environment

Masters == INSTANCE DepthFirst WITH
  Nodes <- Repositories, Top <- Caller, Graphs <- RepositoryGraphs, graph <- repositoryGraph,
  calls <- repositoryCalls, order <- repositoryOrder, outcome <- repositoryOutcome
Parents == INSTANCE DepthFirst WITH
  Nodes <- Directories, Top <- Caller, Graphs <- ProfileGraphs, graph <- profileGraph,
  calls <- profileCalls, order <- profileOrder, outcome <- profileOutcome

masterVars == <<repositoryGraph, repositoryCalls, repositoryOrder, repositoryOutcome>>
parentVars == <<profileGraph, profileCalls, profileOrder, profileOutcome>>
readVars == <<values, assignments, config, maskFile, environment>>
vars == <<masterVars, parentVars, dialect, phase, position, readVars>>

\* The words of a file; in assignments they may be references.
Words == [name : STRING, enabled : BOOLEAN, reference : {FALSE}]
RawWords == [name : STRING, enabled : BOOLEAN, reference : BOOLEAN]
Assignments == [name : STRING, value : Seq(RawWords)]
Rules == [atom : Atoms, changes : Seq(Words)]

AssignmentFiles == {"make.globals", "make.defaults", "make.conf", "environment"}
RuleFiles == {"profile package.use", "package.use.force", "package.use.mask", "package.use.stable.force",
              "package.use.stable.mask", "package.use", "package.accept_keywords"}
MaskFiles == {"repository package.mask", "profile package.mask", "profile package.unmask",
              "user package.mask", "user package.unmask"}

\* what a parser makes of a file
Parsed(file) ==
  IF file \in AssignmentFiles THEN Seq(Assignments)
  ELSE IF file \in RuleFiles THEN Seq(Rules)
  ELSE IF file \in MaskFiles THEN {words \in Seq(Words) : \A i \in DOMAIN words : words[i].name \in Atoms}
  ELSE Seq(Words)

ASSUME PolicyAssumption ==
  /\ Masters!GraphAssumption /\ Parents!GraphAssumption
  /\ \A d \in Dialects : \A file \in DOMAIN d.files : d.files[file] \subseteq Parsed(file)

Has(path) == path \in dialect.paths
Content(file) == IF file \in DOMAIN dialect.files THEN dialect.files[file] ELSE {<<>>}
ContentIf(path, file) == IF Has(path) THEN Content(file) ELSE {<<>>}

-----------------------------------------------------------------------------
(* Repositories                                                            *)

ofDefaults(section) == section.name = "DEFAULT"

\* all sections DEFAULT together, wherever they are, the last value of each key
Defaults(sections) ==
  FoldLeft(LAMBDA defaults, section : section.values @@ defaults, <<>>, SelectSeq(sections, ofDefaults))

AddName(names, section) ==
  IF ofDefaults(section) \/ section.name \in Range(names) THEN names ELSE Append(names, section.name)

\* a repository keeps the place of its first section
SectionNames(sections) == FoldLeft(AddName, <<>>, sections)

\* its last section replaces those before, keys that it does not set included
SectionValues(sections, name) ==
  sections[SelectLastInSeq(sections, LAMBDA section : section.name = name)].values @@ Defaults(sections)

\* resolveRepositoryLocation, the priority and the depths: an unset key and an
\* empty one are the same, and a location there must be
Valid(settings) ==
  /\ "location" \in DOMAIN settings /\ settings["location"] # ""
  /\ \A key \in DOMAIN settings : settings[key] # "malformed"

Configured(sections) ==
  \A name \in Range(SectionNames(sections)) : name \in Repositories /\ Valid(SectionValues(sections, name))

\* repositoryMasters: a location without layout.conf names none
MastersAt(layouts, settings) == IF settings["location"] \in DOMAIN layouts THEN layouts[settings["location"]] ELSE <<>>

\* what orderRepositories is called with, if it is
ConfiguredGraph(sections, layouts) ==
  LET names == IF Configured(sections) THEN SectionNames(sections) ELSE <<>>
  IN [parents |-> [r \in Repositories |-> IF r \in Range(names)
                                          THEN MastersAt(layouts, SectionValues(sections, r)) ELSE <<>>],
      roots   |-> names,
      usable  |-> Range(names)]

-----------------------------------------------------------------------------
(* Assignments                                                             *)

Incremental == {"USE", "USE_EXPAND", "USE_EXPAND_HIDDEN", "USE_EXPAND_IMPLICIT", "FEATURES",
                "ACCEPT_KEYWORDS", "ACCEPT_LICENSE"}

Value(variables, name) == IF name \in DOMAIN variables THEN variables[name] ELSE <<>>
Assign(variables, name, value) ==
  [n \in DOMAIN variables \cup {name} |-> IF n = name THEN value ELSE variables[n]]

\* the assignments of a file as they are written
AssignAll(variables, file) == FoldLeft(LAMBDA known, a : Assign(known, a.name, a.value), variables, file)

\* what a "${name}" stands for is known when the assignment is merged
Expanded(variables, value) ==
  FlattenSeq([i \in DOMAIN value |->
    IF value[i].reference THEN Value(variables, value[i].name) ELSE <<value[i]>>])

\* Defect: references are left as they are written.
MergeRaw(variables, assignment) ==
  Assign(variables, assignment.name,
         (IF assignment.name \in Incremental THEN Value(variables, assignment.name) ELSE <<>>)
         \o assignment.value)

MergeAssignment(variables, assignment) ==
  Assign(variables, assignment.name,
         (IF assignment.name \in Incremental THEN Value(variables, assignment.name) ELSE <<>>)
         \o Expanded(variables, assignment.value))

mergeConfigValues(variables, file) == FoldLeft(MergeAssignment, variables, file)

\* The variables that USE_EXPAND names.  A word "-GROUP" stays in the list with its
\* sign, and takes back none; it names no variable, and is left out here.
Groups(words) ==
  FlattenSeq([i \in DOMAIN words |-> IF words[i].enabled THEN <<words[i].name>> ELSE <<>>])

\* what the words of a USE_EXPAND variable say of flags
Materialized(group, value) ==
  [i \in DOMAIN value |->
     IF value[i].reference THEN value[i] ELSE [value[i] EXCEPT !.name = FlagOf[<<group, @>>]]]

FlagChanges(name, value, expand) ==
  IF name = "USE" THEN value
  ELSE IF name \in Range(expand) THEN Materialized(name, value) ELSE <<>>

\* the changes that those assignments spell out whose layer is one of layers
configUseChanges(assigned, expand, layers) ==
  FlattenSeq([i \in DOMAIN assigned |->
    IF assigned[i].layer \in layers THEN FlagChanges(assigned[i].name, assigned[i].value, expand) ELSE <<>>])

configKeywordChanges(assigned) ==
  FlattenSeq([i \in DOMAIN assigned |->
    IF assigned[i].name = "ACCEPT_KEYWORDS" THEN assigned[i].value ELSE <<>>])

Allowed == {"USE", "ARCH", "CHOST", "CBUILD", "CTARGET", "CFLAGS", "CXXFLAGS", "CPPFLAGS", "LDFLAGS",
            "MAKEOPTS", "FEATURES", "ACCEPT_KEYWORDS", "ACCEPT_LICENSE"}

\* Defect: the keywords of the command are added to those on disk.
EntryUnreset(entry) == IF entry.name = "ACCEPT_KEYWORDS" THEN entry.value ELSE <<>>

\* ACCEPT_KEYWORDS of the command starts anew
EntryKeywords(entry) ==
  IF entry.name = "ACCEPT_KEYWORDS" THEN <<Change("*", FALSE)>> \o entry.value ELSE <<>>

\* entries that name nothing of the policy are passed over
AllowedEntries(entries, expand) ==
  FlattenSeq([i \in DOMAIN entries |->
    IF entries[i].name \in Allowed \cup Range(expand) THEN <<entries[i]>> ELSE <<>>])

-----------------------------------------------------------------------------
(* Lists that files add to and take away from                              *)

\* Defect: "-name" puts the name in the list.
ProfileChangeUnsigned(list, change) ==
  IF change.name \in Range(list) THEN list ELSE Append(list, change.name)

ProfileChange(list, change) ==
  IF ~change.enabled THEN Without(list, change.name)
  ELSE IF change.name \in Range(list) THEN list ELSE Append(list, change.name)

applyProfileChanges(list, changes) == FoldLeft(ProfileChange, list, changes)

MaskChange(rules, change) ==
  IF change.enabled THEN Append(rules, [atom |-> change.name])
  ELSE Without(rules, [atom |-> change.name])

applyPackageMaskChanges(rules, changes) == FoldLeft(MaskChange, rules, changes)

mergeProfileLayer(c, layer) ==
  [c EXCEPT !.layers = Append(@, layer),
            !.makeDefaults = AssignAll(@, layer.makeDefaults),
            !.system = applyProfileChanges(@, layer.system),
            !.packageProvided = applyProfileChanges(@, layer.packageProvided),
            !.useForce = applyProfileChanges(@, layer.useForce),
            !.useMask = applyProfileChanges(@, layer.useMask),
            !.stableForce = applyProfileChanges(@, layer.stableForce),
            !.stableMask = applyProfileChanges(@, layer.stableMask),
            !.packageUse = @ \o layer.packageUse,
            !.packageForce = @ \o layer.packageForce,
            !.packageMask = @ \o layer.packageMask,
            !.packageStableForce = @ \o layer.packageStableForce,
            !.packageStableMask = @ \o layer.packageStableMask]

\* Defect: the search for the source starts at the root.
FirstSource(c, value) ==
  c.directories[CHOOSE i \in DOMAIN c.layers :
    /\ Change(value, TRUE) \in Range(c.layers[i].system)
    /\ \A j \in 1..i - 1 : Change(value, TRUE) \notin Range(c.layers[j].system)]

\* the profile, nearest to the user, whose packages file has the value
systemSelectionSource(c, value) ==
  c.directories[CHOOSE i \in DOMAIN c.layers :
    /\ Change(value, TRUE) \in Range(c.layers[i].system)
    /\ \A j \in i + 1..Len(c.layers) : Change(value, TRUE) \notin Range(c.layers[j].system)]

\* sorted by value, of which there are no two alike
selectionsFromProfile(c) ==
  {[value |-> value, source |-> systemSelectionSource(c, value)] : value \in Range(c.system)}

-----------------------------------------------------------------------------
(* Reading                                                                 *)

NoConfig ==
  [repositories |-> <<>>, directories |-> <<>>, layers |-> <<>>, makeDefaults |-> <<>>, system |-> <<>>,
   packageProvided |-> <<>>, useForce |-> <<>>, useMask |-> <<>>, stableForce |-> <<>>, stableMask |-> <<>>,
   packageUse |-> <<>>, packageForce |-> <<>>, packageMask |-> <<>>, packageStableForce |-> <<>>,
   packageStableMask |-> <<>>, variables |-> <<>>, useExpand |-> <<>>, profileUse |-> <<>>, userUse |-> <<>>,
   commandUse |-> <<>>, userPackageUse |-> <<>>, acceptKeywords |-> <<>>, packageKeywords |-> <<>>,
   packageMasks |-> <<>>, packageUnmasks |-> <<>>]

Init ==
  /\ dialect \in Dialects
  /\ Masters!WalkInit /\ repositoryGraph = ConfiguredGraph(dialect.sections, dialect.layouts)
  /\ Parents!WalkInit /\ profileGraph \in dialect.parents
  /\ phase = "repositories" /\ position = 1
  /\ values = <<>> /\ assignments = <<>> /\ config = NoConfig
  /\ maskFile = [r \in Repositories |-> <<>>] /\ environment = <<>>

Goes(from, to) == phase = from /\ phase' = to /\ position' = 1 /\ UNCHANGED dialect
\* one turn of a loop of n turns, and its end
Turn(at, n) == phase = at /\ position <= n /\ position' = position + 1 /\ UNCHANGED <<phase, dialect>>
Over(from, n, to) == position > n /\ Goes(from, to)

\* ReadRepositories, when the caller names no repositories; a section that is
\* not valid ends it before the walk
WalkMasters ==
  /\ phase = "repositories" /\ Has("reposConf") /\ Configured(dialect.sections) /\ Masters!WalkNext
  /\ UNCHANGED <<parentVars, dialect, phase, position, readVars>>

\* Defect: repositories stay in the order of their sections.
OrderOfSections == repositoryGraph.roots

RepositoryOrder == IF Has("reposConf") THEN repositoryOrder ELSE repositoryGraph.roots

RepositoriesKnown ==
  /\ Goes("repositories", "globals")
  /\ Has("reposConf") => repositoryOutcome = "ok"
  /\ config' = [config EXCEPT !.repositories = RepositoryOrder]
  /\ UNCHANGED <<masterVars, parentVars, values, assignments, maskFile, environment>>

\* a file of assignments, of the given layer
Merge(file, layer) ==
  /\ values' = mergeConfigValues(values, file)
  /\ assignments' = assignments \o
       [i \in DOMAIN file |-> [name |-> file[i].name, value |-> file[i].value, layer |-> layer]]

ReadGlobals ==
  /\ Goes("globals", IF Has("activeProfile") THEN "profile" ELSE "make.conf")
  /\ \E file \in ContentIf("makeGlobals", "make.globals") : Merge(file, "global")
  /\ UNCHANGED <<masterVars, parentVars, config, maskFile, environment>>

\* collectProfile
WalkParents ==
  /\ phase = "profile" /\ Parents!WalkNext
  /\ UNCHANGED <<masterVars, dialect, phase, position, readVars>>

ProfileKnown ==
  /\ Goes("profile", "layers") /\ profileOutcome = "ok"
  /\ config' = [config EXCEPT !.directories = profileOrder]
  /\ UNCHANGED <<masterVars, parentVars, values, assignments, maskFile, environment>>

LayerContents ==
  [makeDefaults : Content("make.defaults"), system : Content("packages"),
   packageProvided : Content("package.provided"), useForce : Content("use.force"), useMask : Content("use.mask"),
   stableForce : Content("use.stable.force"), stableMask : Content("use.stable.mask"),
   packageUse : Content("profile package.use"),
   packageForce : Content("package.use.force"), packageMask : Content("package.use.mask"),
   packageStableForce : Content("package.use.stable.force"),
   packageStableMask : Content("package.use.stable.mask")]

MergeLayer ==
  /\ Turn("layers", Len(config.directories))
  /\ \E layer \in LayerContents : config' = mergeProfileLayer(config, layer)
  /\ UNCHANGED <<masterVars, parentVars, values, assignments, maskFile, environment>>

LayersMerged ==
  /\ Over("layers", Len(config.directories), "make.defaults")
  /\ UNCHANGED <<masterVars, parentVars, readVars>>

ReadDefaults ==
  /\ Turn("make.defaults", Len(config.layers))
  /\ Merge(config.layers[position].makeDefaults, "profile")
  /\ UNCHANGED <<masterVars, parentVars, config, maskFile, environment>>

DefaultsRead ==
  /\ Over("make.defaults", Len(config.layers), "make.conf")
  /\ UNCHANGED <<masterVars, parentVars, readVars>>

\* the last assignments; with them, what all of them say
ReadMakeConf ==
  /\ Goes("make.conf", "package.use")
  /\ \E file \in ContentIf("configRoot", "make.conf") : Merge(file, "user")
  /\ LET words == Value(values', "USE_EXPAND")
         expand == Groups(words)
     IN config' = [config EXCEPT
          !.variables = values',
          !.useExpand = expand,
          !.profileUse = configUseChanges(assignments', expand, {"global", "profile"}),
          !.userUse = configUseChanges(assignments', expand, {"user"}),
          !.acceptKeywords = configKeywordChanges(assignments')]
  /\ UNCHANGED <<masterVars, parentVars, maskFile, environment>>

ReadPackageUse ==
  /\ Goes("package.use", "environment")
  /\ \E file \in ContentIf("configRoot", "package.use") : config' = [config EXCEPT !.userPackageUse = file]
  /\ UNCHANGED <<masterVars, parentVars, values, assignments, maskFile, environment>>

applyConfigEnvironment ==
  /\ Goes("environment", "package.accept_keywords")
  /\ environment' \in Content("environment")
  /\ LET entries == AllowedEntries(environment', config.useExpand)
     IN config' = [config EXCEPT
          !.variables = AssignAll(@, entries),
          !.acceptKeywords = @ \o FlattenSeq([i \in DOMAIN entries |-> EntryKeywords(entries[i])]),
          !.commandUse = @ \o FlattenSeq([i \in DOMAIN entries |->
                                FlagChanges(entries[i].name, entries[i].value, config.useExpand)])]
  /\ UNCHANGED <<masterVars, parentVars, values, assignments, maskFile>>

ReadPackageKeywords ==
  /\ Goes("package.accept_keywords", "repository masks")
  /\ \E file \in ContentIf("configRoot", "package.accept_keywords") :
       config' = [config EXCEPT !.packageKeywords = file]
  /\ UNCHANGED <<masterVars, parentVars, values, assignments, maskFile, environment>>

MaskRepository ==
  /\ Turn("repository masks", Len(config.repositories))
  /\ \E file \in Content("repository package.mask") :
       /\ config' = [config EXCEPT !.packageMasks = applyPackageMaskChanges(@, file)]
       /\ maskFile' = [maskFile EXCEPT ![config.repositories[position]] = file]
  /\ UNCHANGED <<masterVars, parentVars, values, assignments, environment>>

RepositoriesMasked ==
  /\ Over("repository masks", Len(config.repositories), "profile masks")
  /\ UNCHANGED <<masterVars, parentVars, readVars>>

Mask(masks, unmasks) ==
  config' = [config EXCEPT !.packageMasks = applyPackageMaskChanges(@, masks),
                           !.packageUnmasks = applyPackageMaskChanges(@, unmasks)]

MaskDirectory ==
  /\ Turn("profile masks", Len(config.directories))
  /\ \E masks \in Content("profile package.mask"), unmasks \in Content("profile package.unmask") :
       Mask(masks, unmasks)
  /\ UNCHANGED <<masterVars, parentVars, values, assignments, maskFile, environment>>

DirectoriesMasked ==
  /\ Over("profile masks", Len(config.directories), "user masks")
  /\ UNCHANGED <<masterVars, parentVars, readVars>>

MaskUser ==
  /\ Goes("user masks", "ready")
  /\ \E masks \in ContentIf("configRoot", "user package.mask"),
        unmasks \in ContentIf("configRoot", "user package.unmask") : Mask(masks, unmasks)
  /\ UNCHANGED <<masterVars, parentVars, values, assignments, maskFile, environment>>

\* An error of a walk, a file that cannot be read or parsed, a context that is
\* done: nothing is returned but the error.
Fail ==
  /\ phase \notin {"ready", "failed"}
  /\ phase = "repositories" /\ Has("reposConf") => repositoryOutcome # "ok"
  /\ phase = "profile" => profileOutcome # "ok"
  /\ phase' = "failed" /\ config' = NoConfig
  /\ UNCHANGED <<masterVars, parentVars, dialect, position, values, assignments, maskFile, environment>>

Returned == phase \in {"ready", "failed"} /\ UNCHANGED vars

Next ==
  \/ WalkMasters \/ RepositoriesKnown \/ ReadGlobals
  \/ WalkParents \/ ProfileKnown \/ MergeLayer \/ LayersMerged \/ ReadDefaults \/ DefaultsRead
  \/ ReadMakeConf \/ ReadPackageUse \/ applyConfigEnvironment
  \/ ReadPackageKeywords \/ MaskRepository \/ RepositoriesMasked
  \/ MaskDirectory \/ DirectoriesMasked \/ MaskUser
  \/ Fail \/ Returned

Spec == Init /\ [][Next]_vars

-----------------------------------------------------------------------------
(* Properties                                                              *)

\* The type invariant: the recursion is no deeper than there are nodes, every
\* layer has its directory, and no variable keeps a reference.
TypeOK ==
  /\ dialect \in Dialects /\ position \in Nat \ {0}
  /\ Masters!WalkTypeOK /\ Parents!WalkTypeOK
  /\ \A name \in DOMAIN values : values[name] \in Seq(Words)
  /\ config.repositories \in Seq(Repositories) /\ config.directories \in Seq(Directories)
  /\ Len(config.layers) <= Len(config.directories)
  /\ config.userPackageUse \in Seq(Rules) /\ config.packageKeywords \in Seq(Rules)
  /\ config.packageMasks \in Seq([atom : Atoms]) /\ config.packageUnmasks \in Seq([atom : Atoms])
  /\ maskFile \in [Repositories -> Seq(Words)]

(***************************************************************************)
(* Both walks have parents before children at every step, and say in the   *)
(* end what is true of the graph on disk.                                  *)
(***************************************************************************)
WalksInOrder == Masters!ParentsFirst /\ Parents!ParentsFirst
WalksAreRight == Masters!OutcomeIsRight /\ Parents!OutcomeIsRight

Mentions(list, name) == \E i \in DOMAIN list : Says(list[i], name)
LastSays(list, name) == list[CHOOSE i \in DOMAIN list :
  Says(list[i], name) /\ \A j \in i + 1..Len(list) : ~Says(list[j], name)].enabled

(***************************************************************************)
(* An overlay speaks after its masters: if all the other repositories that *)
(* mask an atom, or take its mask back, are masters of this one, however   *)
(* far and in whatever order their sections are, this one decides.         *)
(***************************************************************************)
OverlaySpeaksLast ==
  phase = "profile masks" /\ position = 1 /\ Has("reposConf") =>
    \A r \in Range(config.repositories), atom \in Atoms :
      /\ Mentions(maskFile[r], atom)
      /\ \A q \in Repositories : Mentions(maskFile[q], atom) => q \in Masters!Above({r})
      => (LastSays(maskFile[r], atom) <=> [atom |-> atom] \in Range(config.packageMasks))

(***************************************************************************)
(* A profile speaks after those it inherits from: the merged use.force and *)
(* system set of Profile have what the nearest profile that mentions the   *)
(* flag or package says, and a system package is traced to that profile.   *)
(***************************************************************************)
Layers(field) == [i \in DOMAIN config.layers |-> config.layers[i][field]]
Nearest(lists, i, name) ==
  \A j \in DOMAIN lists : Mentions(lists[j], name) =>
    config.directories[j] \in Parents!Above({config.directories[i]})

LeafSpeaksLast ==
  phase = "ready" => \A field \in {"useForce", "system"} :
    LET lists == Layers(field)
    IN \A i \in DOMAIN lists : \A change \in Range(lists[i]) :
      Nearest(lists, i, change.name)
      => (LastSays(lists[i], change.name) <=> change.name \in Range(config[field]))

SystemIsTraced ==
  phase = "ready" => \A i \in DOMAIN config.layers, selection \in selectionsFromProfile(config) :
    Mentions(config.layers[i].system, selection.value) /\ Nearest(Layers("system"), i, selection.value)
    => selection.source = config.directories[i]

(***************************************************************************)
(* Whoever is nearest to the user decides, among repositories as among     *)
(* profiles, and is named as the source.                                   *)
(***************************************************************************)
NearestSpeaksLast == OverlaySpeaksLast /\ LeafSpeaksLast /\ SystemIsTraced

Evaluations == {<<c, stable>> : c \in Candidates, stable \in BOOLEAN}
Decisions(e) == EvaluateUse(config, e[1].declared, e[2])

\* the last element of a list that is in S
LastIn(list, S, default) ==
  LET i == SelectLastInSeq(list, LAMBDA x : x \in S) IN IF i = 0 THEN default ELSE list[i]

OrdinaryKinds ==
  {"iuse-default", "profile-use", "profile-package-use", "user-use", "user-package-use", "command-use"}

(***************************************************************************)
(* The evidence retained in precedence order explains the decision: the    *)
(* last mask, else the last force, else the last ordinary change; taking a *)
(* force or a mask back restores what the ordinary changes say.            *)
(***************************************************************************)
UseFollowsEvidence ==
  phase = "ready" => \A e \in Evaluations : \A decision \in Range(Decisions(e)) :
    LET Latest(kinds, default) ==
          LastIn(decision.evidence, [kind : kinds, enabled : BOOLEAN], Evidence("none", default)).enabled
    IN decision.enabled <=> Latest(Masks, TRUE) /\ (Latest(Forces, FALSE) \/ Latest(OrdinaryKinds, FALSE))

(***************************************************************************)
(* The "ordered explanation" of visibility explains it: a package is masked*)
(* when a mask is cited and no unmask is, a keyword is accepted when the   *)
(* last change that is about it, or about all, says so, and one of the     *)
(* architecture needs none.                                                *)
(***************************************************************************)
VisibilityFollowsEvidence ==
  phase = "ready" /\ ArchitectureValid(config) => \A c \in Candidates :
    LET v == EvaluateCandidate(config, c).visibility
        Cited(kinds) == {item \in Range(v.evidence) : item.kind \in kinds}
        keywords == Cited({"accept-keywords", "package-accept-keywords"})
        Latest(keyword) ==
          LastIn(v.evidence, {item \in keywords : Applies(item.change, keyword)},
                 [kind |-> "none", change |-> Change(keyword, keyword = Architecture(config))])
    IN /\ v.status = "package_masked" <=> Cited({"package-mask"}) # {} /\ Cited({"package-unmask"}) = {}
       /\ \A keyword \in {item.change.name : item \in keywords} \cup Architectures \cup Testing :
            keyword \in Range(v.accepted) <=> Latest(keyword).change.enabled

(***************************************************************************)
(* What is decided is what the evidence says, of flags and of visibility.  *)
(***************************************************************************)
DecisionFollowsEvidence == UseFollowsEvidence /\ VisibilityFollowsEvidence

\* the configuration with the policy for stable packages struck out
Unstable(c) ==
  [c EXCEPT !.layers = [i \in DOMAIN c.layers |->
     [c.layers[i] EXCEPT !.stableForce = <<>>, !.stableMask = <<>>,
                         !.packageStableForce = <<>>, !.packageStableMask = <<>>]]]

(***************************************************************************)
(* Policy for stable packages bears on no other: the evaluation of one     *)
(* that is not stable, evidence included, is the one without that policy.  *)
(***************************************************************************)
StableOnlyForStable ==
  phase = "ready" => \A e \in Evaluations :
    EvaluateUse(config, e[1].declared, FALSE) = EvaluateUse(Unstable(config), e[1].declared, e[2])

(***************************************************************************)
(* Profile.UseForce and Profile.UseMask, merged over the layers, and the   *)
(* replay of the layers by EvaluateUse agree on what is forced and masked, *)
(* where no rule for packages or for stable ones has a say.                *)
(***************************************************************************)
MergedIsReplayed ==
  phase = "ready" /\ (\A layer \in Range(config.layers) :
                        Matched(layer.packageForce) = FALSE /\ Matched(layer.packageMask) = FALSE) =>
    \A c \in Candidates : \A flag \in DOMAIN c.declared :
      LET decision == EvaluateUse(config, c.declared, FALSE)[flag]
      IN /\ decision.forced <=> flag \in Range(config.useForce)
         /\ decision.masked <=> flag \in Range(config.useMask)

(***************************************************************************)
(* ACCEPT_KEYWORDS in the command environment resets what is on disk: for  *)
(* a package without keyword rules of its own, what is accepted is what    *)
(* the last such entry spells, whatever make.globals, profile and user say.*)
(***************************************************************************)
CommandResets ==
  phase = "ready" /\ ArchitectureValid(config) /\ ~Matched(config.packageKeywords) =>
    \A i \in DOMAIN environment :
      /\ environment[i].name = "ACCEPT_KEYWORDS"
      /\ \A j \in i + 1..Len(environment) : environment[j].name # "ACCEPT_KEYWORDS"
      => \A c \in Candidates :
           EvaluateCandidate(config, c).visibility.accepted = applyKeywordChanges(<<>>, environment[i].value)

(***************************************************************************)
(* References are expanded: every word of the variable USE, as expanded,   *)
(* is among the changes of flags.  (CHANGELOG.md, v0.8.2; the code reads   *)
(* the changes off the assignments as written.)                            *)
(***************************************************************************)
ReferencesReachFlags ==
  phase = "environment" =>
    Range(Value(config.variables, "USE")) \subseteq Range(config.profileUse \o config.userUse)
=============================================================================
