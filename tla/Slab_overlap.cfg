SPECIFICATION FairSpec
CONSTANTS
  t1 = t1
  t2 = t2
  NULL = NULL
  NOFREE = NOFREE
  Threads = {t1, t2}
  Creators = {}
  Destroyers = {t1}
  NumCaches = 2
  KmallocCaches = {1}
  InitialCaches = {1, 2}
  LayoutOrder = 0
  LayoutObjs = 2
  NumBlocks = 2
  MaxOrder = 0
  Clients = {"overlap", "wrong_cache"}
INVARIANTS
  SlabsKept
PROPERTIES
  DestroyReturns
