SPECIFICATION AssetsSpec
CONSTANTS
  Writer = {w1, w2}
  Inodes = 4
  Chunks = 2
  MaxCrashes = 2
  RelativePaths <- SmallPaths
  Roots <- SmallRoots
  PathPolicies <- SmallPolicies
  Buffers = {1, 4, 8}
  FileSizes = {0, 1, 2, 3, 5, 6, 7}
  LoadLimits = {0, 1, 2, 5, 6}
  FirstBlock = 2
  Base = 2
  Items <- SmallItems
  Schemas = {1, 2}
  PayloadLimits = {6, 16}
  FirstPayload = 3
  ReadSizes = {0, 2}
  MaxItems = 2
  Lines <- SmallLines
  MaxLines = 5
  Unnamed = ""
  Hash <- SmallHash
  FirstSlots = 2
  FirstEntries = 1
  MaxEntries = 3
INVARIANTS
  DestinationIsWhole
  PathsStayInside
  InputsAreExact
  SaveRoundTrips
PROPERTIES
  ReplacesAtomically
CHECK_DEADLOCK FALSE
