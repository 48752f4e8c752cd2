\* Two calls meet the circuit after its cooldown.
SPECIFICATION BreakerSpec
CONSTANTS
  Request = {r1, r2}
  FailureThreshold = 1
  SuccessThreshold = 1
  Cooldown = 1
INVARIANTS
  OneProbe
