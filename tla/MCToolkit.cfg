SPECIFICATION ToolkitSpec
CONSTANTS
  Capacity = 4
  Lifetimes = {1, 2}
  Deltas = {1, 2}
  Requests = {0, 1, 3}
  FrameLists <- FrameListsUsed
  TimeMax = 10
  MaxPlayed = 14
  Durations = {0, 1, 4, 5}
  Steps = {0, 1, 3}
  Ends <- TweenEnds
  MaxClock = 7
  SpriteSizes <- SpriteSizesUsed
  Scales = {0, 1, 2}
  Positions <- SpritePositions
  SpriteClips <- SpriteClipsUsed
  CoordLimit = 4
  MaxItems = 4
  MaxRows = 3
  Int32Limit = 8
  MultiplierBits = 3
  Canvases <- CanvasRects
  Widgets <- WidgetsUsed
  LayoutBounds <- BoundsUsed
  MaxClips = 2
  MaxPanes = 4
  SizeLimit = 100
  CoordinateLimit = 16
  EpochLimit = 2
  CostLimit = 1000
  PathRequests <- MCPathRequests
  Reservations = {8, 12}
  MaxSearches = 3
  InlineTasks = 1
  Views <- MCViews
  Callers = {"planner", "viewer", "shooter", "camera", "editor"}
  Rays <- MCRays
  Sizes <- MCSizes
  EditorSizes <- MCEditorSizes
  Tiles = {0, 1}
INVARIANTS
  InterfaceFits
  CachesAreExact
  ScansAreExact
  EffectsFollowClock
  SpriteShowsImage
  MenuFollowsItems
  SearchIsExact
  SightIsComplete
  RayStopsFirst
  TargetIsOnScreen
  CellsHoldLastEdit
CHECK_DEADLOCK FALSE
