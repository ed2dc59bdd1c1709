SPECIFICATION Spec
CONSTANTS
  Sockets = {s1, s2}
  Msgs = {m1, m2, m3}
  Jobs = {j1}
  Cancellable = {j1}
  Deliveries = {d1}
  Deletes = {x1, x2}
  MaxSockets = 2
  PendingLimit = 1
  QueueLimit = 2
  None = None
CONSTRAINT Casts
SYMMETRY Symmetry
INVARIANTS
  TypeOK
  AtMostOneTurn
  StopsAreHeard
  StopIsNotForgotten
  NoStaleStop
  DeletedIsQuiet
  TabsAreServed
PROPERTIES
  ImplementsTurnClaim
