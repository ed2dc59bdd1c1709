SPECIFICATION LoopSpec
CONSTANTS
  Sockets = {s1}
  Msgs = {m1}
  Jobs = {j1}
  Cancellable = {j1}
  Deliveries = {}
  Deletes = {}
  MaxSockets = 2
  PendingLimit = 2
  QueueLimit = 2
  None = None
PROPERTIES
  ClaimIsReleased
