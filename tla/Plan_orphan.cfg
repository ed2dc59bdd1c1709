SPECIFICATION PlanSpec
CONSTANTS
  PlanTasks = {1, 2, 3}
  Plans <- BesideAChain
  Parallel = 2
INVARIANTS
  NoTaskOutlivesPlan
CHECK_DEADLOCK FALSE
