CONSTANTS
  h1 = h1
  h2 = h2
  Handlers <- MCHandlers
  Most = 4
  OneAtATime = TRUE
  Base = 3
  Padded = 3
  DayLength = 4
  Week = 2
  Horizon = 3
  NoEnd = NoEnd
  Zones <- MCZones
  Posts <- MCPosts
  Early = 1
  Grace = 1
  Break = 1
  Last = 10
SPECIFICATION MCSpec
SYMMETRY Symmetry
INVARIANTS
  NumbersKept
  TraceTellsStatus
  DutyFound
  HoursCountedOnce
CHECK_DEADLOCK FALSE
