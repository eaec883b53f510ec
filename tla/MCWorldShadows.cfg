SPECIFICATION WorldSpec
CONSTANTS
  SizeLimit = 100
  CoordinateLimit = 16
  EpochLimit = 2
  CostLimit = 1000
  PathRequests <- MCPathRequests
  Reservations = {8, 12}
  MaxSearches = 3
  InlineTasks = 16
  Views <- MCViews
  Callers = {"viewer"}
  Rays <- MCRays
  Sizes <- MCSizes
  EditorSizes <- MCEditorSizes
  Tiles = {0, 1}
INVARIANTS
  ShadowsAreDark
CHECK_DEADLOCK FALSE
