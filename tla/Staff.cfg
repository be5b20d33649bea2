CONSTANTS
  u1 = u1
  u2 = u2
  u3 = u3
  r1 = r1
  r2 = r2
  h1 = h1
  h2 = h2
  NoUser = NoUser
  NoRelation = NoRelation
  Users <- MCUsers
  Relations <- MCRelations
  Handlers <- MCHandlers
  MaxRequests = 4
SPECIFICATION MCSpec
SYMMETRY Symmetry
INVARIANTS
  ReadingAgrees
  AdministratorRemains
  SupervisionKept
  ArchivedProfileEndsAccount
CHECK_DEADLOCK FALSE
