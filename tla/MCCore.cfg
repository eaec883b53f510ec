SPECIFICATION FairCoreSpec
CONSTANTS
  overlay = overlay
  menu = menu
  world = world
  NoScene = NoScene
  Scenes = {overlay, menu, world}
  Capacity = 2
  flags <- MCFlags
  Configs <- MCConfigs
  AccLimit = 4
  IndexModulus = 2
INVARIANTS
  StackIsSound
  NoUseAfterDestroy
  OwnershipIsExact
  ClockIsExact
PROPERTIES
  WalkIsStable
  CommandsInOrder
  QuitStops
