SPECIFICATION RecordsSpec
CONSTANTS
  Tasks = {t1, t2}
  Runs = {r1, r2, r3}
  Loops = {loop, duplicate}
  Requests = {q1}
  Editors = {}
  Crons = {1}
  Slots = 1
  MaxBackground = 2
  MaxTime = 1
  MaxStarts = 2
  Faults = {"claim", "insert", "settle", "sweep"}
  None = None
  MaxTurns = 2
  MaxChunks = 2
  MaxCrashes = 2
  MaxCompressions = 0
  RecentKeep = 1
  RunFaults = {"persist", "finish", "sweep"}
INVARIANTS
  RunsTellTheTruth
PROPERTIES
  LaunchesAreApart
  RunsAreKept
CHECK_DEADLOCK FALSE
