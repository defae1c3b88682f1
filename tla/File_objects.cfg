SPECIFICATION FileTableSpec
CONSTANTS
  FtProc = {p1, p2}
  FtFirst = p1
  NOFILE = 2
  NFILE = 2
  FileObjects = 4
  pipe_cache = FALSE
  NoFile = NoFile
INVARIANT FileObjectsReturned
