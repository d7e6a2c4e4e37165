CONSTANTS
  V = 2
  L = 2
  NH = 2
  C = 2
  maxT = 2
  Limit = 3
  MAX_WORKERS = 3
  MAX_THREADS = 64
  EOT = 9
  RawTokens = {1, 2}
  MaxMissing = 1
SPECIFICATION Spec
INVARIANTS ReadsReady NoRace InBounds EachUnitOnce TableNotFull
