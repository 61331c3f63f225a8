SPECIFICATION RulesSpec
CONSTANTS
  NoMember = NoMember
  Bases = {"Int", "Text"}
  Names = {"x", "y", "z"}
  MaxVersions = 3
  MaxOrdinal = 3
  MaxWritten = 1
  Schema <- MCSchema
  Unions <- MCUnions
  Data <- MCData
  Shapes <- MCShapes
  Worlds <- MCWorlds
  Positions <- MCPositions
  DefaultFirst = 2
  MaxFirst = 2
  Policies <- MCPolicies
  Records <- MCRecords
  Columns <- MCColumns
  Base = 16
  Precision = 7
  KeyNames <- MCKeyNames
  MaxNesting = 2
  MaxExpansion = 1
  ExpansionFloor = 4
  Messages <- MCMessages
  Garbage <- MCGarbage
  WrittenShapes <- MCWrittenShapes
  Registered <- MCRegistered
  NamedViews <- MCNamedViews
  MaxShapeNesting = 3
  MaxLearned = 2
  CacheOf <- MCCacheOf
  None = None
  OfViewer <- MCOfViewer
  Requests <- MCRequests
  Servers <- MCServers
  MaxChanges = 1
  MaxKey = 3
  Parents = {"p", "q"}
  NoRow = NoRow
  MaxTableWrites = 2
  PageSizes = {1, 2}
  r1 = r1  r2 = r2  a1 = a1  a2 = a2  a3 = a3  a4 = a4
  ka = ka  kb = kb  kc = kc  fa = fa  fb = fb  fc = fc
  Relay <- MCRelay
  MaxSent <- MCSent
  Sizes = {"inline", "large"}
  Ttl = 0
  MaxTime = 1
  Callers <- MCCallers
  CallerKey <- MCCallerKey
  LeaseTime = 1
  RecordTime = 1
  MaxEntries = 1
  MaxClock = 1
  Nobody = Nobody
  Files <- MCFiles
  SizeOf <- MCSizeOf
  MaxBytes = 2
  KeptFor = 1
  LastTime = 1
CHECK_DEADLOCK FALSE
INVARIANT SchemaKept
PROPERTY OrdinalsKept
INVARIANT AnswersHold
INVARIANT PushdownIsSafe
INVARIANT PagesHold
INVARIANT WireFormsHold
INVARIANT RequestsHold
INVARIANT HeardInOrder
INVARIANT RecordsAreBounded
PROPERTY NothingGoesUnheard
PROPERTY MemoryKeepsKeys
PROPERTY UploadsKept
