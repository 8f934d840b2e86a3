SPECIFICATION ZeroSpec
CONSTANTS
  Paths <- MCPaths
  Readers = {"snapshot"}
  Writers = {"portage"}
  Requested <- MCRequested
  WriterOrder <- MCWriterOrder
  InitialKinds = {"present", "unreadable"}
  MaxTxn = 1
  Caller <- MCCaller
  Cells <- PairCells
  LockOf <- PairLockOf
  Slots <- PairSlots
  CellOf <- PairCellOf
  StageOf <- PairStageOf
  Contents = {0, 1}
  Orders <- PairOrders
  Unread = Unread
  Reverts = TRUE
  Rogue = FALSE
  Requests <- LockedRequests
  Flaky = {}
  MaxChange = 4
  Endless = TRUE
ACTION_CONSTRAINT LocksMatter
INVARIANTS LockedMeansProtected LockedPartExisted
PROPERTIES CallReturns
