CONSTANTS
  Proc = {p1, p2}
  Player = {"1", "2"}
  Files <- AllBoards
  Moves = {"up", "down", "left", "right", "print", "jump"}
  MAX_ROWS = 3
  MAX_COLS = 3
  BUF = 2
  Faults = {"open", "read", "write", "crash"}
  MaxRuns = 2
SPECIFICATION Spec
INVARIANTS FailureKeepsFile ConnectedMeansReachable FileValid RowsTrue
PROPERTIES ImplementsGame
SYMMETRY Symmetry
CHECK_DEADLOCK FALSE
