SPECIFICATION FairRunsSpec
CONSTANTS
  MaxTurns = 2
  MaxChunks = 1
  MaxCrashes = 1
  MaxCompressions = 1
  RecentKeep = 1
  RunFaults = {"create"}
INVARIANTS
  RunsTypeOK
  CompletedIsAnswered
  NothingLeftRunning
PROPERTIES
  RunIsSettled
CHECK_DEADLOCK FALSE
