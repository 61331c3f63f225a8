SPECIFICATION MCSpec
CONSTANTS
  N = 3
  MaxDirect = 1
  MaxOutages = 2
  MaxReloads = 1
  b1 = b1
  b2 = b2
  b3 = b3
  Batch <- MCBatches
  Ops = 2
  MaxSockets = 2
  Overlap = FALSE
  a1 = a1
  a2 = a2
  k1 = k1
  s1 = s1
  s2 = s2
  NoOne = NoOne
  Servers = {s1, s2}
  Lease = 3
  Ttl = 2
  MaxRecords = 2
  TrimEvery = 2
  Timely = TRUE
  MaxMissed = 1
  Attempts = {a1, a2}
  Keys = {k1}
  KeyOf <- PairOf
  HashOf <- PairHash
  ServerOf <- PairOn
  r1 = r1
  r2 = r2
  r3 = r3
  None = None
  Gap = Gap
  CacheKeys <- Rows
  Policy <- Merges
  Calls <- AllCalls
  FirstRows <- TwoRows
  Inserted = {r3}
  Workloads <- OneOpen
CHECK_DEADLOCK FALSE
INVARIANT QueueKept
INVARIANT SocketsKept
INVARIANT OwnerHoldsKey
INVARIANT RecordsAreTrue
INVARIANT ScreensHold
PROPERTY ShowsLayers
PROPERTY SentEnds
PROPERTY ScreenCatchesUp
