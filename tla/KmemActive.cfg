SPECIFICATION Spec
CONSTANTS
  p1 = p1
  p2 = p2
  c1 = c1
  c2 = c2
  Procs = {p1, p2}
  CPUs = {c1, c2}
  KERNEL = KERNEL
  NULL = NULL
INVARIANTS
  OwnCallsOnly
