SPECIFICATION RouterSpec
CONSTANTS
  Word = {"a"}
  PathWord = {"a", "b"}
  ParamName = {"id", "name"}
  Verb = {"GET", "ALL"}
  RequestVerb = {"GET", "POST"}
  MaxRoutes = 2
  MaxSegments = 2
INVARIANT ParamsNamed
CHECK_DEADLOCK FALSE
