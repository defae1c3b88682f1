SPECIFICATION ProcessSpec
CONSTANTS
  NPROC = 2
  NCPU = 1
  MemoryPages = 9
  MaxPid = 2
  ProcVictims = {}
  None = None
INVARIANT
  PagesReturned
