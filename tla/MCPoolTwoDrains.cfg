\* One caller, one slot, two drain() calls.
SPECIFICATION FairSpec
CONSTANTS
  Caller = {c1}
  Drainer = {d1, d2}
  Resource = {r1, r2}
  MaxSize = 1
  HasValidate = FALSE
  HasIdleTimeout = FALSE
  None = None
PROPERTIES
  DrainResolves
CHECK_DEADLOCK FALSE
