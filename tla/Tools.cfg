SPECIFICATION ToolsSpec
CONSTANTS
  Chats = {x1, x2}
  NoChat = NoChat
  MaxConnections = 1
  MaxRetries = 1
  MaxFaults = 2
  MaxBusy = 1
  Servers = {"s1", "s2"}
  Transport <- MCTransport
  ServerCalls = {"k1", "k2"}
  ServerOf <- MCServerOf
  Destructive = {"k2"}
  Home = Home
  Away = Away
  Chains <- MCChains
  MaxHops = 2
  Results <- MCResults
  MaxText = 3
  MaxImages = 2
  MaxBytes = 3
  ImageBytes = 2
  MaxDrops = 1
  PlanRows = {"t1", "t2"}
  QueueSize = 2
  Workloads <- MCWorkloads
  MaxMessages = 2
  Files = {"f"}
  Setbacks <- MCSetbacks
  StreamRequests = {"r1", "r2"}
  Scopes = {"thread", "viewer"}
  PageScopes = {"viewer"}
  Members = {}
  FrameLimit = 1
  Situations <- MCSituations
  Commands = {"p1", "p2"}
  Versions = {1, 2}
  NoVersion = NoVersion
  Jobs <- MCJobs
  MaxStops = 1
  Outputs <- MCOutputs
  MaxOutput = 2
INVARIANTS
  ToolsTypeOK
  TabStaysConnected
  ServersAreContained
  CommandsAreContained
  TurnIsStored
  PublishedRunsAreApart
PROPERTIES
  LiveIsNotEvicted
  ToolsEnd
CHECK_DEADLOCK FALSE
