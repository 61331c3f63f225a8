SPECIFICATION ClientSpec
CONSTANTS
  r1 = r1
  r2 = r2
  r3 = r3
  None = None
  Gap = Gap
  CacheKeys <- Rows
  Policy <- Merges
  Calls <- SelfLink
  FirstRows <- TwoRows
  Inserted = {r3}
  Workloads <- SelfLinked
CHECK_DEADLOCK FALSE
PROPERTY NestedAreStored
