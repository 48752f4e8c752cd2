SPECIFICATION EmitterSpec
CONSTANTS
  Listener = {h1}
  OnceCall = {w1}
  Hole = Hole
  MaxAdded = 3
  MaxSets = 2
  MaxNested = 2
INVARIANT OnceFiresOnce
CHECK_DEADLOCK FALSE
