CONSTANTS
  Lines <- FiveLines
  MAX_SYSCALLS = 3
  TOP = 2
  Times = {0, 1, 2}
  REFRESH = 1
  PipeCap = 1
  Faults = {"pipe", "exec", "fdopen", "getline", "wait"}
  MaxTrace = 4
SPECIFICATION Spec
INVARIANTS ReportsTrue FinalReport
PROPERTIES EndsWithCommand
CHECK_DEADLOCK FALSE
