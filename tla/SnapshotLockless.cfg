SPECIFICATION Spec
CONSTANTS
  Paths <- MCPaths
  Readers = {"snapshot"}
  Writers = {}
  Requested <- MCRequested
  WriterOrder <- MCWriterOrder
  InitialKinds = {"present"}
  MaxTxn = 0
  Caller <- MCCaller
  Cells <- TreeCells
  LockOf <- TreeLockOf
  Slots <- TreeSlots
  CellOf <- TreeCellOf
  StageOf <- TreeStageOf
  Contents = {0, 1}
  Orders <- TreeOrders
  Unread = Unread
  Reverts = FALSE
  Rogue = TRUE
  Requests <- MixedRequests
  Flaky = {"config","system"}
  MaxChange = 2
  Endless = FALSE
INVARIANTS TypeOK SnapshotExisted ErrorHasCause
PROPERTIES ImplementsContract
