--------------------------- MODULE PolicyEvaluation ---------------------------
(***************************************************************************)
(* EvaluateUse, EvaluateVisibility and EvaluateCandidate: what an effective*)
(* configuration says of one package.  An atom is known by whether it      *)
(* matches that package; a change is a word with or without its "-".       *)
(***************************************************************************)
EXTENDS Naturals, Sequences, SequencesExt, Functions

CONSTANTS
  Atoms, Matching,   \* atoms of rules, and those that match the package
  Architectures,     \* stable keywords
  TestingOf          \* the "~" keyword of each architecture

ASSUME EvaluationAssumption ==
  /\ Matching \subseteq Atoms
  /\ DOMAIN TestingOf = Architectures

\* a word of a list; a reference is the text "${name}", which names no flag
Change(name, enabled) == [name |-> name, enabled |-> enabled, reference |-> FALSE]
Says(change, name) == ~change.reference /\ change.name = name
Resets(change) == Says(change, "*") /\ ~change.enabled

\* what is left of a list when a value is taken out
Without(list, value) ==
  FlattenSeq([i \in DOMAIN list |-> IF list[i] = value THEN <<>> ELSE <<list[i]>>])

Tagged(kind, changes) == [i \in DOMAIN changes |-> [kind |-> kind, change |-> changes[i]]]

\* the flags of the rules whose atom matches, in order
MatchingChanges(rules) ==
  FlattenSeq([i \in DOMAIN rules |-> IF rules[i].atom \in Matching THEN rules[i].changes ELSE <<>>])

-----------------------------------------------------------------------------
(* USE                                                                     *)

Evidence(kind, enabled) == [kind |-> kind, enabled |-> enabled]

\* declared: IUSE, the default of each flag ("+", "-" or "")
Declared(declared) ==
  [flag \in DOMAIN declared |->
     [enabled |-> declared[flag] = "+", forced |-> FALSE, masked |-> FALSE,
      evidence |-> IF declared[flag] = "" THEN <<>>
                   ELSE <<Evidence("iuse-default", declared[flag] = "+")>>]]

Applies(change, flag) == Resets(change) \/ Says(change, flag)

applyChange(decisions, entry) ==
  [flag \in DOMAIN decisions |->
     IF Applies(entry.change, flag)
     THEN [decisions[flag] EXCEPT !.enabled = entry.change.enabled,
                                  !.evidence = Append(@, Evidence(entry.kind, entry.change.enabled))]
     ELSE decisions[flag]]

Ordinary(config) ==
  Tagged("profile-use", config.profileUse)
  \o Tagged("profile-package-use", MatchingChanges(config.packageUse))
  \o Tagged("user-use", config.userUse)
  \o Tagged("user-package-use", MatchingChanges(config.userPackageUse))
  \o Tagged("command-use", config.commandUse)

Forces == {"profile-force", "profile-stable-force", "package-force", "package-stable-force"}
Masks == {"profile-mask", "profile-stable-mask", "package-mask", "package-stable-mask"}

\* Defect: package rules for stable packages apply to all.
LayerUnguarded(layer, stable) ==
  Tagged("profile-force", layer.useForce) \o Tagged("profile-mask", layer.useMask)
  \o (IF stable THEN Tagged("profile-stable-force", layer.stableForce)
                     \o Tagged("profile-stable-mask", layer.stableMask) ELSE <<>>)
  \o Tagged("package-force", MatchingChanges(layer.packageForce))
  \o Tagged("package-mask", MatchingChanges(layer.packageMask))
  \o Tagged("package-stable-force", MatchingChanges(layer.packageStableForce))
  \o Tagged("package-stable-mask", MatchingChanges(layer.packageStableMask))

\* applyForceMaskLayer
LayerForceMask(layer, stable) ==
  Tagged("profile-force", layer.useForce) \o Tagged("profile-mask", layer.useMask)
  \o (IF stable THEN Tagged("profile-stable-force", layer.stableForce)
                     \o Tagged("profile-stable-mask", layer.stableMask) ELSE <<>>)
  \o Tagged("package-force", MatchingChanges(layer.packageForce))
  \o Tagged("package-mask", MatchingChanges(layer.packageMask))
  \o (IF stable THEN Tagged("package-stable-force", MatchingChanges(layer.packageStableForce))
                     \o Tagged("package-stable-mask", MatchingChanges(layer.packageStableMask)) ELSE <<>>)

\* Defect: a force or mask changes the flag where it is met.
ForceMaskAtOnce(decisions, entry) ==
  [flag \in DOMAIN decisions |->
     IF Says(entry.change, flag)
     THEN [decisions[flag] EXCEPT
             !.forced = IF entry.kind \in Forces THEN entry.change.enabled ELSE @,
             !.masked = IF entry.kind \in Masks THEN entry.change.enabled ELSE @,
             !.enabled = IF entry.change.enabled THEN entry.kind \in Forces ELSE @,
             !.evidence = Append(@, Evidence(entry.kind, entry.change.enabled = (entry.kind \in Forces)))]
     ELSE decisions[flag]]

applyForceMask(decisions, entry) ==
  [flag \in DOMAIN decisions |->
     IF Says(entry.change, flag)
     THEN [decisions[flag] EXCEPT
             !.forced = IF entry.kind \in Forces THEN entry.change.enabled ELSE @,
             !.masked = IF entry.kind \in Masks THEN entry.change.enabled ELSE @,
             !.evidence = Append(@, Evidence(entry.kind, entry.change.enabled = (entry.kind \in Forces)))]
     ELSE decisions[flag]]

Settled(decision) ==
  [decision EXCEPT !.enabled = (decision.forced \/ decision.enabled) /\ ~decision.masked]

EvaluateUse(config, declared, stable) ==
  LET ordinary == FoldLeft(applyChange, Declared(declared), Ordinary(config))
      layers == FlattenSeq([i \in DOMAIN config.layers |-> LayerForceMask(config.layers[i], stable)])
      decisions == FoldLeft(applyForceMask, ordinary, layers)
  IN [flag \in DOMAIN decisions |-> Settled(decisions[flag])]

-----------------------------------------------------------------------------
(* Visibility                                                              *)

Testing == Range(TestingOf) \cup {"~*"}

\* Defect: "-*" takes back the keyword "*" and no other.
KeywordUnreset(keywords, change) ==
  IF change.reference THEN keywords
  ELSE IF ~change.enabled THEN Without(keywords, change.name)
  ELSE IF change.name \in Range(keywords) THEN keywords
  ELSE Append(keywords, change.name)

\* a reference is a text that is no keyword
applyKeywordChange(keywords, change) ==
  IF change.reference THEN keywords
  ELSE IF Resets(change) THEN <<>>
  ELSE IF ~change.enabled THEN Without(keywords, change.name)
  ELSE IF change.name \in Range(keywords) THEN keywords
  ELSE Append(keywords, change.name)

applyKeywordChanges(keywords, changes) == FoldLeft(applyKeywordChange, keywords, changes)

Accepts(allow, keyword) ==
  \/ allow = keyword
  \/ allow = "*" /\ keyword \notin Testing
  \/ allow = "~*" /\ keyword \in Testing

keywordPolicyAccepts(keywords, accepted) ==
  \E i \in DOMAIN accepted :
    accepted[i] = "**" \/ \E j \in DOMAIN keywords : Accepts(accepted[i], keywords[j])

\* a rule without keywords accepts the testing keyword of the host
RuleKeywords(rules, architecture) ==
  LET Named(rule) == IF rule.changes = <<>> THEN <<Change(TestingOf[architecture], TRUE)>> ELSE rule.changes
  IN MatchingChanges([i \in DOMAIN rules |-> [rules[i] EXCEPT !.changes = Named(rules[i])]])

\* the atoms that match, as evidence names them
MatchingAtoms(rules) ==
  FlattenSeq([i \in DOMAIN rules |-> IF rules[i].atom \in Matching THEN <<Change(rules[i].atom, TRUE)>> ELSE <<>>])

Matched(rules) == \E i \in DOMAIN rules : rules[i].atom \in Matching

Architecture(config) == config.variables["ARCH"][1].name
ArchitectureValid(config) ==
  /\ "ARCH" \in DOMAIN config.variables
  /\ Len(config.variables["ARCH"]) = 1
  /\ config.variables["ARCH"][1] \in {Change(a, TRUE) : a \in Architectures}

\* for a configuration whose ARCH is valid; it is an error otherwise
EvaluateVisibility(config, keywords) ==
  LET architecture == Architecture(config)
      unmasked == Matched(config.packageUnmasks) \/ ~Matched(config.packageMasks)
      packageKeywords == applyKeywordChanges(<<>>, keywords)
      ruled == RuleKeywords(config.packageKeywords, architecture)
      accepted == applyKeywordChanges(<<architecture>>, config.acceptKeywords \o ruled)
      keywordAccepted == keywordPolicyAccepts(packageKeywords, accepted)
      supported == Range(packageKeywords) \cap {architecture, TestingOf[architecture]} # {}
  IN [visible  |-> unmasked /\ keywordAccepted,
      stable   |-> architecture \in Range(packageKeywords),
      status   |-> CASE ~unmasked -> "package_masked"
                     [] unmasked /\ keywordAccepted -> "visible"
                     [] unmasked /\ ~keywordAccepted /\ supported -> "keyword_masked"
                     [] OTHER -> "unsupported_architecture",
      accepted |-> accepted,
      evidence |-> Tagged("package-mask", MatchingAtoms(config.packageMasks))
                   \o Tagged("package-unmask", MatchingAtoms(config.packageUnmasks))
                   \o Tagged("accept-keywords", config.acceptKeywords)
                   \o Tagged("package-accept-keywords", ruled)]

\* SystemSnapshot.EvaluateCandidate, of the candidate it has found
EvaluateCandidate(config, candidate) ==
  LET visibility == EvaluateVisibility(config, candidate.keywords)
  IN [visibility |-> visibility,
      use        |-> EvaluateUse(config, candidate.declared, visibility.stable)]
=============================================================================
