CONSTANTS
  p1 = p1  p2 = p2
  t3 = t3  h2 = h2
  Proc = {p1, p2}
  Thread = {t1, t2, t3}
  Handle = {h1, h2}
  ProcOf <- MCProcOf
  HandleProc <- MCHandleProc
  Key = {k1, k2}
  BadKey = bad
  Val = {v1, v2}
  None = None
  Faults = {"flock", "malloc"}
  MaxCalls = 3
  MaxCrashes = 0
  MaxLosses = 0
SPECIFICATION Spec
INVARIANTS TypeOK MutualExclusion
PROPERTIES ImplementsStore
SYMMETRY Symmetry
CHECK_DEADLOCK FALSE
