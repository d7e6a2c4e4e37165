CONSTANTS
  Images <- AllImages
  Headers <- AllHeaders
  Ext = {2, 4, 5}
  Odd = {3}
  HEADER = 3
  ENTRY = 2
  BMP_HEADER = 3
  MAX_FOUND = 2
  MAX_LFN_PARTS = 2
  Faults = {"open", "mkstemp", "write", "close", "pipe", "tool", "wait"}
SPECIFICATION Spec
INVARIANTS InBounds CandidatesRight DigestsRight NothingLeft
PROPERTIES Ends
CHECK_DEADLOCK FALSE
