SPECIFICATION MCSpec
CONSTANTS
  Parts = {"kotlin"}
  Ids <- MCIds
  Kinds = {"query", "command", "stream", "live"}
  k1 = k1  k2 = k2  k3 = k3  i1 = i1  i2 = i2
  Ops <- MCOpsDef
  Keys = {k1, k2, k3}
  Plain = {k3}
  MaxErrors = 1
  MaxItems = 2
  Yields = 3
  Items = {i1, i2}
  Root = Root
  NoRead = NoRead
  ItemsReach = TRUE
  EarlierOp = FALSE
  MaxWrites = 3
  KbIds <- MCIds
  KbKinds = {"query", "command", "stream", "live"}
  KbRenewalsThrow = FALSE
CHECK_DEADLOCK FALSE
INVARIANT KtOneAnswer
