\* Map: five keys, four of which collide in pairs; vector: four inserts; list: up to three
\* items; draft: four steps of a recipe; accessors three deep, two reads each; chains of three
\* methods, four containers collected,
\* two writes through optics, three flatMaps and three arms of a match; two pairs of keys and
\* three uses of them; three calls of the terminal; three receives; paths of three tokens.
SPECIFICATION Spec
CONSTANTS
  MapKey = {"k1", "k2", "k3", "k4", "k5"}
  MapValue = {1, 2}
  HashOf <- MCHashOf
  Width = 2
  Levels = 2
  MaxInserts = 4
  MaxItems = 3
  MaxSteps = 4
  SchemaNames <- MCSchemaNames
  Inputs <- MCInputs
  MaxMethods = 3
  MaxGathered = 4
  MaxPuts = 2
  MaxBinds = 3
  MaxArms = 3
  MaxPairs = 2
  MaxUses = 3
  ByteSize = 4
  MaxRange = 17
  ExactBelow = 32
  MaxAsked = 3
  MaxKeys = 3
  MaxLines = 3
  Receive = {q1, q2, q3}
  Send = {s1}
  MaxChunk = 3
  Names = {"a", "b"}
  MaxTokens = 3
  MaxLinks = 4
  MaxArgs = 4
  MaxSums = 2
  NsPerMs = 3
  MaxInstant = 12
  HexBase = 4
  MaxText = 4
  MaxLoggers = 3
INVARIANTS
  MapIsFunction
  CollectionsFaithful
  
  CryptoSound
  TerminalSound
  SocketSound
\* All but the map and the schemas come to their bounds.
CHECK_DEADLOCK FALSE
