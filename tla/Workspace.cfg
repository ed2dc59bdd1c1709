SPECIFICATION WorkspaceSpec
CONSTANTS
  MaxRows = 3
  RowKinds = {"user", "image", "reply", "calls", "big", "legacy", "result"}
  LoadLimit = 3
  LoadBytes = 4
  ImageTurns = 1
  TurnsKept = 3
  MaxCalls = 2
  Knowledge <- MCKnowledge
  ByteLimits = {5, 7, 10}
  Families = {"sdk", "gateway", "openai", "gemini"}
  MaxEvents = 3
  MaxReplies = 2
  MaxUsage = 2
  Bodies <- MCBodies
  SkillTasks = {"t1", "t2"}
  SkillLoads <- MCSkillLoads
  FilesOf <- MCFilesOf
  MaxBundle = 2
  MaxSkillFaults = 1
  AgentTasks = {"t1", "t2"}
  Editors = {"e"}
  KnowledgeLoads <- MCKnowledgeLoads
  MaxLoaded = 1
  MaxTurns = 1
  MaxIndexFaults = 1
  GitTasks = {"t1", "t2"}
  GitLoads <- MCGitLoads
  MaxMishaps = 1
  RemoteLoads <- MCRemoteLoads
  CallReplies <- MCReplies
  MaxChars = 2
  MaxFileSize = 2
  MaxInlineSize = 1
  MaxFiles = 2
  MemoryLoads <- MCMemoryLoads
  MaxShown = 2
  MaxNotes = 1
  MaxTabs = 2
  MinSaid = 1
  SpecCalls = {"s1", "s2", "s3"}
  SpecLoads <- MCSpecLoads
  KeepRuns = 1
  MaxBytes = 2
  MaxTests = 2
  MaxFailed = 1
  MaxEntries = 3
  ToolLoads <- MCToolLoads
  Denied = {"shell"}
  MaxDeclared = 2
  LogCap = 2
  TailLines = 2
INVARIANTS
  WorkspaceTypeOK
  RequestsAreSound
  BooksAreKept
CHECK_DEADLOCK FALSE
