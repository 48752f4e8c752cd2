\* Merge: three sources of two values; debounce: up to three Oks and three Errs;
\* lifecycle: two connections; router: three routes of up to two segments;
\* emitter: two nested emits.
SPECIFICATION Spec
CONSTANTS
  Nothing = Nothing
  NumSources = 3
  MaxValues = 2
  MaxEach = 3
  Connection = {c1, c2}
  Running = Running
  Word = {"a"}
  PathWord = {"a", "b"}
  ParamName = {"id"}
  Verb = {"GET", "ALL"}
  RequestVerb = {"GET", "POST"}
  MaxRoutes = 3
  MaxSegments = 2
  Listener = {h1}
  OnceCall = {w1}
  Hole = Hole
  MaxAdded = 3
  MaxSets = 2
  MaxNested = 2
  DaysIn <- MCDaysIn
  DaysInWeek = 3
  HoursInDay = 2
  MinutesInHour = 3
  YearsAhead = 4
  Never = Never
  Parts <- MCFieldParts
  Starts <- MCStarts
  Moments <- MCMoments
  Schedules <- MCSchedules
  MaxStarts = 2
  WorkTypes = {"feat", "fix"}
  MaxHistory = 4
  MaxReleases = 2
INVARIANTS
  StreamsFaithful
  RoutedByTable
  OnceUnlessOrphaned
  CronKeepsSchedule
  ReleasesSound
PROPERTIES
  ServerStops
\* Streams end, processes exit, and the bounded tables are full in the end.
CHECK_DEADLOCK FALSE
