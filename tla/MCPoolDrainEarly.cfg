\* One caller, one slot, one drain() while the resource is in use.
SPECIFICATION Spec
CONSTANTS
  Caller = {c1}
  Drainer = {d1}
  Resource = {r1, r2}
  MaxSize = 1
  HasValidate = FALSE
  HasIdleTimeout = FALSE
  None = None
PROPERTIES
  DrainAwaitsDestroy
CHECK_DEADLOCK FALSE
