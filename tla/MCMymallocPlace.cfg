CONSTANTS
  Thread = {t1, t2}
  NoThread = NoThread
  WORD = 64
  PAGE_SIZE = 8
  CHUNK_SIZE = 16
  MIN_PAYLOAD = 2
  ALIGN = 2
  HDR = 4
  Requests = {1, 3, 13}
  Placement = "anywhere"
  MaxMallocs = 4
SPECIFICATION Spec
INVARIANTS LiveDisjoint
SYMMETRY Symmetry
CHECK_DEADLOCK FALSE
