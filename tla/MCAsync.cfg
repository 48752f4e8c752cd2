\* Five callers compete for two permits.  Three jobs for two slots; the clock may step
\* either way.
SPECIFICATION Spec
CONSTANTS
  Caller = {c1, c2, c3, c4, c5}
  Permits = 2
  Concurrency = 2
  HasOnError = TRUE
  Priorities = {1, 2}
  Clock = {0, 1}
  Drainer = {d1}
  MaxJobs = 3
  MaxDepth = 3
  None = None
INVARIANTS
  SemaphoreSound
  QueueSound
PROPERTIES
  ImplementsTurnstile
  EveryCallRuns
  ImplementsJobBoard
  DrainResolves
