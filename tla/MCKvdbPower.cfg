CONSTANTS
  p1 = p1  p2 = p2
  t3 = t3  h2 = h2
  Proc = {p1, p2}
  Thread = {t1, t3}
  Handle = {h1, h2}
  ProcOf <- MCProcOf
  HandleProc <- MCHandleProc
  Key = {k1}
  BadKey = bad
  Val = {v1}
  None = None
  Faults = {"flock", "write", "malloc"}
  MaxCalls = 3
  MaxCrashes = 1
  MaxLosses = 1
SPECIFICATION FairSpec
INVARIANTS NoHiddenRecord AckedDurable
PROPERTIES AppendOnly ImplementsStore CallsReturn
CHECK_DEADLOCK FALSE
