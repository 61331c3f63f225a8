SPECIFICATION MCSpec
CONSTANTS
  b1 = b1
  b2 = b2
  h = h
  c1 = c1
  d1 = d1
  d2 = d2
  l = l
  g = g
  NoOne = NoOne
  Batches = {b1, b2, h}
  HttpBatches = {h}
  Ids = {1, 2}
  OpsOf <- Ops
  Workloads <- Apart
  LiveOps <- Live
  Conns = {c1}
  ConnOf <- OnConn
  Drains = {d1, d2}
  AtShutdown = d1
  ClientsRead = TRUE
  KsBatches = {b1, b2, h, l, g}
  KsOpsOf <- KtOps
  KsLive <- KtLive
  KsConns = {c1}
  KsConnOf <- KtOn
  KsHttp = NoOne
  KsDrains = {d1, d2}
  KsWorkloads <- KtApart
CHECK_DEADLOCK FALSE
INVARIANT FlightsCounted
PROPERTY AnswersComeThrough
INVARIANT KtSessionsKept
PROPERTY ServersEnd
