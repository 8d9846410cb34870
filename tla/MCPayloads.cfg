CONSTANTS
  Bodies <- MCBodies
  FirstItems = 4
  MaxItems = 6
  Limits = {0, 1, 2}
  DefaultLimit = 3
  Leaves <- MCLeaves
  Values <- MCValues
  Routes <- MCRoutes
  Bases <- MCBases
  Paths <- MCPaths
SPECIFICATION MCSpec
INVARIANTS EventsExact PagesComplete ValidationSound
PROPERTIES WalksEnd ChunksDoNotShow
CHECK_DEADLOCK FALSE
