CONSTANTS
  f1 = f1
  f2 = f2
  c1 = c1
  c2 = c2
  h1 = h1
  h2 = h2
  None = None
  Files <- MCFiles
  Contents <- MCContents
  SizeOf <- MCSizeOf
  Handlers <- MCHandlers
  Quota = 2
  MaxRequests = 5
  Users = {"u1", "u2"}
  Devices = {"d1", "d2"}
  OwnerOf <- MCOwnerOf
  Alarms = {"sos"}
  Messages = {"sos", "news"}
SPECIFICATION MCSpec
SYMMETRY Symmetry
INVARIANTS
  QuotaKept
  ContentKept
  NoticesTold
CHECK_DEADLOCK FALSE
