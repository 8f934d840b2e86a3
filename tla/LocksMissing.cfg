SPECIFICATION LocksSpec
CONSTANTS
  Paths <- MCPaths
  Readers <- TwoReaders
  Requested <- TwoRequested
  Writers <- OneWriter
  WriterOrder <- SortedOrder
  InitialKinds = {"absent", "present"}
  MaxTxn = 1
INVARIANTS LockedMeansProtected
