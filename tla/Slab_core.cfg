SPECIFICATION Spec
CONSTANTS
  t1 = t1
  t2 = t2
  NULL = NULL
  NOFREE = NOFREE
  Threads = {t1, t2}
  Creators = {t1}
  Destroyers = {t1}
  NumCaches = 2
  KmallocCaches = {1}
  InitialCaches = {1}
  LayoutOrder = 1
  LayoutObjs = 2
  NumBlocks = 4
  MaxOrder = 1
  Clients = {"double_free"}
INVARIANTS
  TypeOK
  SlabsExact
  InUseFindable
  NoPageLost
  CreatedCacheIntact
PROPERTIES
  PageContract
