SPECIFICATION MCSpec
CONSTANTS
  N = 1
  MaxCalls = 1
  MaxOutages = 0
  MaxRestarts = 0
  MaxCancels = 0
  b1 = b1
  b2 = b2
  Batch <- MCTwo
  Frames = 1
  KtSockets = 2
  Racing = TRUE
  a1 = a1
  a2 = a2
  a3 = a3
  k1 = k1
  k2 = k2
  s1 = s1
  s2 = s2
  NoOne = NoOne
  Servers = {s1, s2}
  Lease = 1
  Ttl = 1
  MaxRecords = 1
  TrimEvery = 1
  Timely = TRUE
  MaxMissed = 0
  Attempts = {a1, a2, a3}
  Keys = {k1, k2}
  KeyOf <- ThreeOf
  HashOf <- ThreeHash
  ServerOf <- ThreeOn
  KcAttempts = {a1, a2, a3}
  KcKeys = {k1, k2}
  KcKeyOf <- ThreeOf
  KcHashOf <- ThreeHash
  KcLease = 1
  KcTtl = 1
  KcMaxSize = 1
  KcTries = 2
  KcMaxNow = 1
  KcNoOne = NoOne
  LateFailures = FALSE
CHECK_DEADLOCK FALSE
INVARIANT SocketEndsItsBatches
