SPECIFICATION ServicesSpec
CONSTANTS
  Projects = {p1, p2}
  Deletions = {d1, d2}
  ProjectTurns = {w1}
  Scripts = {w2}
  Troubles <- MCTroubles
  MaxRestarts = 1
  Empty = Empty
  Debris = Debris
  c1 = c1
  c2 = c2
  Callers = {c1, c2}
  Casts <- MCCasts
  Tabs = {tab}
  Values = {yes}
  Cancelled = Cancelled
  NoAnswer = NoAnswer
  NoCaller = NoCaller
  Unsaved = Unsaved
  PlanTasks = {1, 2, 3, 4}
  Plans <- MCPlans
  Parallel = 2
  Calls = {k1, k2}
  Turns = {1, 2}
  MaxDepth = 2
  NoCall = NoCall
  pg = pg
  ag = ag
  ScriptCalls = {pg, ag}
  FromPage = {pg}
  ScriptSlots = 1
  MaxLines = 1
  MaxBoots = 1
  Mishaps <- MCMishaps
  MaxSteps = 2
  Factor = 2
  MaxPauses = 1
  MaxTools = 1
  MaxPlans = 2
  MaxTyped = 1
  q1 = q1
  q2 = q2
  q3 = q3
  Requesters = {q1, q2, q3}
  Users = {"owner", "guest"}
  User <- MCUser
  RecentKeep = 1
  MaxSaid = 3
  Nobody = Nobody
  HourMinutes = 2
  DayHours = 4
  WeekDays = 3
  MonthDays = 4
  MaxDays = 5
  Expressions <- MCExpressions
  Transitions <- MCTransitions
  Late = 1
  Tasks = {t1}
  Runs = {r1, r2}
  Loops = {loop1}
  Requests = {}
  Editors = {e1}
  Crons = {1, 2}
  Slots = 1
  MaxBackground = 1
  MaxTime = 2
  MaxStarts = 2
  Faults = {}
  None = None
INVARIANTS
  ServicesTypeOK
  DelegationIsContained
  PlanIsSound
  LoopIsSound
  FireTimesAreRight
  ScriptsAreAccounted
  HistoryIsKept
PROPERTIES
  DeletionIsSafe
  PromptsAreSound
  SchedulesAreKept
  EverythingEnds
CHECK_DEADLOCK FALSE
