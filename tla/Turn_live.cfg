SPECIFICATION LoopSpec
CONSTANTS
  Sockets = {s1}
  Msgs = {m1, m2}
  Jobs = {j1}
  Cancellable = {}
  Deliveries = {d1}
  Deletes = {}
  MaxSockets = 1
  PendingLimit = 2
  QueueLimit = 2
  None = None
PROPERTIES
  StopEndsTurn
  ClaimIsReleased
  QueuedIsSettled
