SPECIFICATION MCSpec
CONSTANTS
  b1 = b1
  b2 = b2
  b3 = b3
  b4 = b4
  Proc = {p1, p2}
  Block = {b1, b2}
  Value = {v0, v1}
  InitValue = v0
  LOGBLOCKS = 6
  MAXOPBLOCKS = 3
  OpBlocks = 2
  MaxCrashes = 2
  None = None
  BufProc = {d1, d2}
  NBUF = 2
  BlockNo = {b1, b2, b3, b4}
  BlockValue = {v0, v1}
  BlockZero = v0
  Changed = {b1}
  Nested <- MCNested
  MaxPinned = 2
  NoBuf = NoBuf
INVARIANTS StorageTypeOK LogExact BuffersExact
PROPERTIES TransactionsSpec CommitWaitersWake BufferCacheContract
