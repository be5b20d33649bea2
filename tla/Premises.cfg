CONSTANTS
  k1 = k1
  k2 = k2
  s1 = s1
  s2 = s2
  a1 = a1
  c1 = c1
  c2 = c2
  c3 = c3
  p1 = p1
  h1 = h1
  h2 = h2
  None = None
  Clients <- MCClients
  Sites <- MCSites
  Routes <- MCRoutes
  Checkpoints <- MCCheckpoints
  Patrols <- MCPatrols
  Handlers <- MCHandlers
  MaxNumber = 3
  MaxRequests = 4
SPECIFICATION MCSpec
SYMMETRY Symmetry
INVARIANTS
  PatrolKeepsItsRoute
  RefusedForThePast
  ArchivedClientHasNoSite
CHECK_DEADLOCK FALSE
