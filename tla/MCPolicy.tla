------------------------------- MODULE MCPolicy -------------------------------
(***************************************************************************)
(* Instances of Policy.  Each dialect has files of the kinds that have to  *)
(* do with one another, and a graph in which their order matters.          *)
(***************************************************************************)
EXTENDS Policy

On(name) == Change(name, TRUE)
Off(name) == Change(name, FALSE)
Reference(name) == [name |-> name, enabled |-> TRUE, reference |-> TRUE]
Is(name, value) == [name |-> name, value |-> value]
Rule(atom, changes) == [atom |-> atom, changes |-> changes]

Graph(parents, roots, usable) == [parents |-> parents, roots |-> roots, usable |-> usable]

Lists(S) == {<<>>} \cup {<<x>> : x \in S} \cup {<<x, y>> : x, y \in S}

\* three profiles with the leaf d1: chains, diamonds, cycles of every length,
\* a parent named twice, a profile that cannot be used
AllProfiles ==
  {Graph([d1 |-> first, d2 |-> second, d3 |-> third], <<"d1">>, usable) :
     first \in Lists({"d2", "d3"}), second \in Lists({"d1", "d3"}), third \in Lists({"d2"}) \cup {<<"d3">>},
     usable \in {Directories, Directories \ {"d3"}}}
\* d1 inherits from d2 and d3, d2 from d3
Diamond == Graph([d1 |-> <<"d2", "d3">>, d2 |-> <<"d3">>, d3 |-> <<>>], <<"d1">>, Directories)
\* d1 inherits from two that know nothing of each other
Fork == Graph([d1 |-> <<"d2", "d3">>, d2 |-> <<>>, d3 |-> <<>>], <<"d1">>, Directories)
Chain == Graph([d1 |-> <<"d2">>, d2 |-> <<>>, d3 |-> <<>>], <<"d1">>, Directories)
Alone == Graph([d \in Directories |-> <<>>], <<"d1">>, Directories)

Section(name, settings) == [name |-> name, values |-> settings]
At(location) == "location" :> location
Gentoo == Section("gentoo", At("/gentoo"))
OverlaySection == Section("overlay", At("/overlay"))
OverGentoo == "/overlay" :> <<"gentoo">>

\* an overlay whose section comes first, one below it, a cycle, a missing master;
\* a section whose defaults come after it; a section that replaces another and
\* moves the repository, and one that leaves it without a location; a name that
\* is none
RepositoryKinds ==
  {<<<<OverlaySection, Gentoo>>, OverGentoo>>, <<<<Gentoo, OverlaySection>>, OverGentoo>>,
   <<<<Gentoo, OverlaySection>>, OverGentoo @@ ("/gentoo" :> <<"overlay">>)>>,
   <<<<OverlaySection>>, OverGentoo>>,
   <<<<Section("gentoo", "priority" :> ""), OverlaySection,
       Section("DEFAULT", At("/gentoo") @@ ("priority" :> "malformed")), Section("overlay", At("/overlay") @@ ("priority" :> "1"))>>,
     OverGentoo>>,
   <<<<Section("overlay", At("/elsewhere")), Gentoo, OverlaySection>>, OverGentoo>>,
   <<<<OverlaySection, Gentoo, Section("overlay", "priority" :> "1")>>, OverGentoo>>,
   <<<<Gentoo, Section("my overlay", At("/overlay"))>>, OverGentoo>>}

Paths == {"reposConf", "makeGlobals", "activeProfile", "configRoot"}
Dialect(paths, parents, files) ==
  [paths |-> paths, sections |-> <<Gentoo>>, layouts |-> <<>>, parents |-> parents, files |-> files]

Masking == {<<>>, <<On("exact")>>, <<Off("exact")>>, <<On("exact"), On("other")>>}
Forcing == {<<>>, <<On("a")>>, <<Off("a")>>, <<On("b"), Off("a")>>}
Ruling == {<<>>, <<Rule("exact", <<On("a")>>)>>, <<Rule("exact", <<Off("a")>>), Rule("other", <<On("a")>>)>>}

Graphs == Dialect(Paths, AllProfiles, <<>>)
MaskStacks ==
  {[Dialect(Paths, {Alone},
    ("repository package.mask" :> Masking) @@ ("profile package.mask" :> Masking)
      @@ ("user package.mask" :> {<<>>, <<Off("exact")>>}) @@ ("user package.unmask" :> {<<>>, <<On("exact")>>}))
    EXCEPT !.sections = kind[1], !.layouts = kind[2]] : kind \in RepositoryKinds}
\* the caller names repositories, which are taken in its order
GivenRepositories ==
  [Dialect({"configRoot"}, {Alone}, "repository package.mask" :> Masking)
    EXCEPT !.sections = <<OverlaySection, Gentoo>>]
ForceStacks ==
  Dialect(Paths, {Diamond, Fork}, ("use.force" :> Forcing))
SystemSets ==
  Dialect(Paths, {Diamond, Fork, Chain},
    ("packages" :> {<<>>, <<On("a")>>, <<Off("a")>>, <<Off("a"), On("a")>>}) @@ ("package.provided" :> {<<>>, <<On("p")>>}))
MaskedFlags ==
  Dialect(Paths, {Chain},
    ("use.force" :> {<<>>, <<On("a")>>, <<Off("a")>>}) @@ ("use.mask" :> {<<>>, <<On("a")>>, <<Off("a")>>})
    @@ ("make.conf" :> {<<Is("USE", <<On("a")>>)>>, <<Is("USE", <<On("a"), Off("*")>>)>>}))
StableFlags ==
  Dialect(Paths, {Chain},
    ("use.stable.force" :> {<<>>, <<On("a")>>, <<Off("a")>>}) @@ ("use.mask" :> {<<>>, <<On("a")>>})
    @@ ("package.use.stable.mask" :> Ruling))
PackageFlags ==
  Dialect(Paths, {Chain},
    ("package.use.force" :> Ruling) @@ ("use.force" :> {<<>>, <<Off("a")>>})
    @@ ("package.use.mask" :> {<<>>, <<Rule("exact", <<On("a")>>)>>}))
LayeredUse ==
  Dialect(Paths, {Chain},
    ("make.defaults" :> {<<>>, <<Is("USE", <<On("a")>>)>>, <<Is("USE", <<Off("a"), On("b")>>)>>})
    @@ ("profile package.use" :> {<<>>, <<Rule("exact", <<Off("a")>>)>>})
    @@ ("make.conf" :> {<<>>, <<Is("USE", <<On("a")>>)>>, <<Is("USE", <<Off("*")>>)>>})
    @@ ("package.use" :> {<<>>, <<Rule("exact", <<On("a")>>)>>})
    @@ ("environment" :> {<<>>, <<Is("USE", <<Off("a")>>), Is("PATH", <<On("a")>>)>>}))
Variables ==
  Dialect(Paths, {Alone},
    ("make.globals" :> {<<>>, <<Is("USE_EXPAND", <<On("GROUP")>>)>>})
    @@ ("make.defaults" :> {<<>>, <<Is("BASE", <<On("a")>>), Is("USE", <<Reference("BASE")>>)>>,
                            <<Is("GROUP", <<On("x"), Reference("BASE")>>)>>})
    @@ ("make.conf" :> {<<>>, <<Is("USE_EXPAND", <<On("GROUP")>>)>>, <<Is("USE_EXPAND", <<Off("GROUP")>>)>>,
                        <<Is("GROUP", <<Off("x")>>)>>,
                        <<Is("BASE", <<Off("a")>>), Is("USE", <<On("b"), Reference("BASE")>>)>>})
    @@ ("environment" :> {<<>>, <<Is("GROUP", <<On("x")>>)>>}))
Keywords ==
  Dialect(Paths, {Alone},
    ("make.globals" :> {<<>>, <<Is("ARCH", <<On("amd64")>>)>>})
    @@ ("make.defaults" :> {<<>>, <<Is("ACCEPT_KEYWORDS", <<On("~amd64")>>)>>})
    @@ ("make.conf" :> {<<>>, <<Is("ACCEPT_KEYWORDS", <<On("**")>>)>>, <<Is("ACCEPT_KEYWORDS", <<Off("*"), On("~*")>>)>>})
    @@ ("environment" :> {<<>>, <<Is("ACCEPT_KEYWORDS", <<On("x86")>>)>>, <<Is("ARCH", <<On("x86")>>)>>,
                          <<Is("ACCEPT_KEYWORDS", <<On("amd64")>>), Is("ACCEPT_KEYWORDS", <<>>)>>})
    @@ ("package.accept_keywords" :> {<<>>, <<Rule("exact", <<>>)>>, <<Rule("other", <<On("**")>>)>>})
    @@ ("user package.mask" :> {<<>>, <<On("exact")>>}))

MCDialects == MaskStacks \cup
  {Graphs, GivenRepositories, ForceStacks, SystemSets, MaskedFlags, StableFlags, PackageFlags, LayeredUse,
   Variables, Keywords}
OnlyVariables == {Variables}

MCRepositoryGraphs == {ConfiguredGraph(d.sections, d.layouts) : d \in MCDialects}
MCProfileGraphs == AllProfiles
MCFlagOf == <<"GROUP", "x">> :> "group_x"
MCTestingOf == [amd64 |-> "~amd64", x86 |-> "~x86"]
MCCandidates ==
  {[keywords |-> <<On("amd64")>>, declared |-> [a |-> "", b |-> "+", group_x |-> ""]],
   [keywords |-> <<On("~amd64"), On("x86")>>, declared |-> [a |-> "+"]],
   [keywords |-> <<On("amd64"), Off("*"), On("~x86")>>, declared |-> [a |-> "-"]]}
=============================================================================
