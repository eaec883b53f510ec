SPECIFICATION MCSpec
CONSTANTS
  MaxEntities = 3
  ViewedEntities = 2
  ViewedRevisions = 7
  MaxTypes = 2
  MaxGeneration = 3
  MaxRevision = 8
  InitialSlots = 1
  InitialDense = 0
  InitialStores = 1
  Reservations = {0, 2}
  Values = {v1, v2}
  View = {w}
  Requirements <- MCRequirements
INVARIANTS
  TablesAreExact
  NothingIsSkipped
PROPERTIES
  CleanupIsHonoured
  ChangesAreDated
  KeepsPromise
  RowsAreOfNow
