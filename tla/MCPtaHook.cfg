SPECIFICATION Spec
CONSTANTS
  Mode = {"ptr", "cg"}
  K = 1
  BBCtxPlusOne = 1
  CGCtxPlusOne = 2
  Records <- SomeRecords
  BufferSize = 2
  MaxPush = 4
CONSTRAINT OnlyEntriesInTrouble
INVARIANTS BufferNeverOverrun EndsWithDump RowsHappened
PROPERTIES FilesFinal ReportsWhatWasPushed
CHECK_DEADLOCK FALSE
