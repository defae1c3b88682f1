SPECIFICATION InodeSpec
CONSTANTS
  p1 = p1
  p2 = p2
  FsProc = {p1, p2}
  NINODES = 3
  FsBlock = {1, 2, 3}
  RootBlock = 1
  FsName = {"a", "b", ".."}
  FsCalls <- MCFsCalls
  NoProc = NoProc
  MaxNlink = 2
INVARIANT IlockFindsInode
