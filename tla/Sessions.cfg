CONSTANTS
  client = client
  admin = admin
  phone = phone
  NoDevice = NoDevice
  Clients <- MCClients
  Admins <- MCAdmins
  Devices <- MCDevices
  Asked <- MCAsked
  AutoApprove = FALSE
  MaxFailed = 1
  MaxAttempts = 1
  MaxSessions = 2
  MaxPassword = 1
  MaxCodes = 2
SPECIFICATION MCSpec
INVARIANTS
  FamiliesKept
  PasswordEndsSessions
  PermittedOrLate
  CodesBounded
CHECK_DEADLOCK FALSE
