SPECIFICATION StorageSpec
CHECK_DEADLOCK FALSE
CONSTANTS
  g = g
  a1 = a1
  a2 = a2
  a3 = a3
  a4 = a4
  b1 = b1
  b2 = b2
  b3 = b3
  Headers = {g, a1, a2, a3, a4, b1, b2}
  Root = g
  ParentOf <- MCParentOf
  NumberOf <- MCNumberOf
  Ancestry <- MCAncestry
  NoHash = NoHash
  SectionSize = 2
  Confirms <- MCConfirms
  CheckpointHeads = {NoHash, a3}
  MaxHeadEvents = 2
  MaxQueue = 1
  MaxSetHeads = 1
  MaxRestarts = 1
  Roots = {g, a1, a2, a3, a4, b3}
  Genesis = g
  RootParent <- MCRootParent
  DiffOf <- MCDiffOf
  RootNumber <- MCRootNumber
  Owner <- MCOwner
  NoRoot = NoRoot
  Layers = 2
  GenLayers = 1
  Flaky = Flaky
  Stale = Stale
  NotCovered = NotCovered
  FlushAt = {2}
  MaxObjs = 9
  MaxIncidents = 2
INVARIANTS
  IndexSound
  LayersTrue
PROPERTIES
  TreeKept
