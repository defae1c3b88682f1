SPECIFICATION Spec
CONSTANTS
  t1 = t1
  t2 = t2
  NULL = NULL
  NOFREE = NOFREE
  Threads = {t1, t2}
  Creators = {}
  Destroyers = {t1}
  NumCaches = 1
  KmallocCaches = {}
  InitialCaches = {1}
  LayoutOrder = 1
  LayoutObjs = 2
  NumBlocks = 4
  MaxOrder = 1
  Clients = {"overlap"}
INVARIANTS
  GivenBackUnowned
