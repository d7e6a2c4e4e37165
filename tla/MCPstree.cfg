CONSTANTS
  MaxPid = 4
  Name <- Names
  InitName <- FirstNames
  BATCH = 2
  ListCap = 2
  Faults = {"open", "malloc"}
  MaxBirths = 1
SPECIFICATION Spec
INVARIANTS PrintedOnce NobodyMissing IndentedUnderParent SiblingsInOrder
CHECK_DEADLOCK FALSE
