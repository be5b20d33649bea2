\* Locks expire and servers stop; one key, with two requests of each of two
\* payloads.
CONSTANTS
  r1 = r1 r2 = r2 r3 = r3 r4 = r4 r5 = r5
  k1 = k1 k2 = k2 h1 = h1 h2 = h2
  NoBody = NoBody
  Requests = {r1, r2, r4, r5}
  Keys = {k1}
  Hashes = {h1, h2}
  KeyOf <- KeysOfLeases
  HashOf <- HashesOfLeases
  UniqueKeys = {}
  Crashable = {r1, r2}
  LockTicks = 1
  MaxTime = 1
SPECIFICATION Spec
SYMMETRY LeaseSymmetry
INVARIANTS AnswersRight OneEffectUntilDisturbed
PROPERTIES StoredResponseKept ImplementsPromise
CHECK_DEADLOCK FALSE
