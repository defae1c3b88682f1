SPECIFICATION FairSpec
CONSTANTS
  Proc = {p1, p2}
  Block = {b1, b2}
  Value = {v0, v1}
  InitValue = v0
  LOGBLOCKS = 6
  MAXOPBLOCKS = 3
  OpBlocks = 2
  MaxCrashes = 0
  None = None
PROPERTY SpaceWaitersWake
