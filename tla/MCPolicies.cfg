\* Three sends and three next() calls on a channel from a rendezvous to more room than
\* there are messages.  Three calls at a breaker; 2.5 tokens, 1.5 added every 2 ticks; three keys in a
\* cache of two; three attempts for two callers.  Three tasks in parallel; a Lazy and one
\* derived from it; streams of up to three elements through two operators; five events;
\* three chunks against a limit of two; two builders and two layers of middleware.
SPECIFICATION Spec
CONSTANTS
  Message = {m1, m2, m3}
  n1 = n1
  n2 = n2
  n3 = n3
  i1 = i1
  i2 = i2
  Receiver = {n1, n2, n3}
  IteratorOf <- MCIteratorOf
  Capacities = {0, 1, 4}
  None = None
  Done = Done
  Request = {r1, r2, r3}
  FailureThreshold = 3
  SuccessThreshold = 2
  Cooldown = 2
  Capacity = 5
  RefillRate = 3
  Interval = 2
  Unit = 2
  MaxNow = 5
  MaxClock = 5
  Key = {k1, k2, k3}
  Fetch = {f1}
  Ttl = 2
  Ttls = {0}
  MaxSize = 2
  NoKey = NoKey
  MaxAttempts = 3
  Caller = {c1, c2}
  NumTasks = 3
  MaxReads = 3
  MaxRuns = 4
  Policies <- MCPolicySet
  Supplies <- MCSupplies
  FirstStage = {"map", "mapErr", "flatMap", "filter", "take", "drop", "takeWhile", "chunk",
                "window", "scan", "distinct", "throttle", "zip", "concat"}
  SecondStage = {"none", "take", "chunk"}
  Terminals = {"iterate", "groupBy", "first"}
  Amount = 2
  MachineConfigs <- MCMachineConfigs
  Events = {"go", "stay", "odd"}
  MaxSends = 5
  Waiter = {w1, w2}
  MaxBody = 2
  MaxSent = 4
  MaxChunks = 2
  MaxBuilders = 2
  MaxLayers = 2
  MaxCalls = 3
INVARIANTS
  ChannelSound
  PoliciesTypeOK
  GrantsBounded
  SuccessEndsTheCall
  AdaptersSound
  PipelineFaithful
  TasksSound
  HooksBracketStates
  
PROPERTIES
  ImplementsConduit
  OpenRunsItsCourse
  Recovers
  ImplementsBucket
  EvictsOnlyWhenFull
  AnswersArrive
\* The clocks end at MaxNow and MaxClock, and calls end.
CHECK_DEADLOCK FALSE
