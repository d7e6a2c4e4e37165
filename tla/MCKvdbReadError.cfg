CONSTANTS
  p1 = p1  p2 = p2
  t3 = t3  h2 = h2
  Proc = {p1, p2}
  Thread = {t1}
  Handle = {h1, h2}
  ProcOf <- MCProcOf
  HandleProc <- MCHandleProc
  Key = {k1}
  BadKey = bad
  Val = {v1}
  None = None
  Faults = {"read"}
  MaxCalls = 3
  MaxCrashes = 0
  MaxLosses = 0
SPECIFICATION Spec
PROPERTIES AppendOnly
CHECK_DEADLOCK FALSE
