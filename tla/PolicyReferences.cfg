SPECIFICATION Spec
CONSTANTS
  Atoms = {"exact", "other"}
  Matching = {"exact"}
  Architectures = {"amd64", "x86"}
  TestingOf <- MCTestingOf
  Repositories = {"gentoo", "overlay"}
  Directories = {"d1", "d2", "d3"}
  Caller = "caller"
  RepositoryGraphs <- MCRepositoryGraphs
  ProfileGraphs <- MCProfileGraphs
  FlagOf <- MCFlagOf
  Candidates <- MCCandidates
  Dialects <- OnlyVariables
INVARIANT ReferencesReachFlags
