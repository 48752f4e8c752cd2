\* Three callers compete for two slots; one drain() comes at any time.
SPECIFICATION FairSpec
CONSTANTS
  Caller = {c1, c2, c3}
  Drainer = {d1}
  Resource = {r1, r2, r3}
  MaxSize = 2
  HasValidate = TRUE
  HasIdleTimeout = TRUE
  None = None
INVARIANTS
  TypeOK
  SlotsAccounted
  ResourcesAccounted
  DrainedMeansGivenUp
PROPERTIES
  ImplementsLease
  ServedUnlessStranded
  DrainResolves
\* after a drain the pool is at its end
CHECK_DEADLOCK FALSE
