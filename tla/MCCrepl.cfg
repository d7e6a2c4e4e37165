CONSTANTS
  Fn = {f, g, rand}
  Own = {f, g}
  Libc = {rand}
  Native <- LibcCode
  NoFn = none
  Line <- Lines
  MAX_HANDLES = 2
  Faults = {"mkstemp", "write", "fork", "cc", "wait", "dlopen", "dlsym"}
  MaxLines = 4
SPECIFICATION Spec
INVARIANTS NothingLeftBehind
PROPERTIES ImplementsRepl LineAnswered
CHECK_DEADLOCK FALSE
