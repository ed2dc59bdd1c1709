SPECIFICATION LoopSpec
CONSTANTS
  Sockets = {s1}
  Msgs = {m1}
  Jobs = {}
  Cancellable = {}
  Deliveries = {d1}
  Deletes = {}
  MaxSockets = 2
  PendingLimit = 2
  QueueLimit = 2
  None = None
PROPERTIES
  BufferedIsDrained
