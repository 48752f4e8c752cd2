\* Two callers, one slot, no validation, no drain.
SPECIFICATION FairSpec
CONSTANTS
  Caller = {c1, c2}
  Drainer = {}
  Resource = {r1, r2}
  MaxSize = 1
  HasValidate = FALSE
  HasIdleTimeout = FALSE
  None = None
PROPERTIES
  WaitingIsServed
CHECK_DEADLOCK FALSE
