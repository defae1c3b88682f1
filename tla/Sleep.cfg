SPECIFICATION MCSpec
CONSTANTS
  w = w
  x = x
  r = r
  PipeProc = {w, x, r}
  PIPESIZE = 2
  UINT = 4
  PipeCounts = {3}
  PipeVictims = {x}
  PipeEnds <- MCPipeEnds
  Nobody = Nobody
  ConReader = {r1, r2}
  ConWriter = {w1}
  INPUT_BUF_SIZE = 2
  UINTC = 4
  ConChar = {"x", "newline", "D", "U", "H"}
  ReadCounts = {2}
  WriteCount = 3
  WriteBatch = 2
  UartFifo = 3
  ConVictims = {r1}
  NoChar = NoChar
  DiskProc = {d1, d2, d3}
  NUM = 7
  UINT16 = 14
  Nil = Nil
  ClockProc = {p1, p2}
  UINTT = 5
  Pauses <- MCPauses
  ClockVictims = {p1}
  NoPauser = NoPauser
  NPROC = 4
  NCPU = 2
  MemoryPages = 16
  MaxPid = 4
  ProcVictims = {2}
  None = None
  NTHREAD = 2
  Cpu = {c0, c1}
  BootCpu = c0
  NoThread = NoThread
  NoCpu = NoCpu
INVARIANTS
  SleepTypeOK
  WaitsExact
  RingsExact
  ProcessTreeExact
  LocksExact
PROPERTIES
  PipeIsFifo
  ConsoleIsLineDiscipline
  RequestsFinish
