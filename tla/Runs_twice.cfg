SPECIFICATION RunsSpec
CONSTANTS
  MaxTurns = 2
  MaxChunks = 2
  MaxCrashes = 1
  MaxCompressions = 1
  RecentKeep = 1
  RunFaults = {}
INVARIANTS
  TextAppearsOnce
CHECK_DEADLOCK FALSE
