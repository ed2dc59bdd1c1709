SPECIFICATION RunsSpec
CONSTANTS
  MaxTurns = 1
  MaxChunks = 1
  MaxCrashes = 0
  MaxCompressions = 0
  RecentKeep = 1
  RunFaults = {}
INVARIANTS
  RaisedIsNotCompleted
CHECK_DEADLOCK FALSE
