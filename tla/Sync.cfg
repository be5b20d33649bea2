CONSTANTS
  s1 = s1
  s2 = s2
  s3 = s3
  p1 = p1
  p2 = p2
  NoPayload = NoPayload
  Senders <- MCSenders
  Direct <- MCDirect
  Payloads <- MCPayloads
  PayloadOf <- MCPayloadOf
  Hashes <- MCHashes
  MaxFaults = 1
SPECIFICATION SyncFairSpec
INVARIANTS
  MadeOnce
  AnswersKept
PROPERTIES
  EveryOperationSettles
CHECK_DEADLOCK FALSE
