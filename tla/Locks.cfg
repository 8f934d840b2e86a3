SPECIFICATION FairLocksSpec
CONSTANTS
  Paths <- MCPaths
  Readers <- AliasReaders
  Requested <- AliasRequested
  Writers <- OneWriter
  WriterOrder <- OppositeOrder
  InitialKinds = {"absent", "present", "unreadable", "broken"}
  MaxTxn = 1
INVARIANTS LocksTypeOK HeldIsLocked NothingLeaks NeverDegrades
PROPERTIES ReaderReturns ContextEndsWait
