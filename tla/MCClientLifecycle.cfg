CONSTANTS
  Sockets = {c1}
  Securers = {s1}
  Closers = {d1, d2}
  Callbacks = {b1}
  Dispatcher = Dispatcher
  Nobody = Nobody
  Cap = 1
  MaxEvents = 1
  MaxSnaps = 3
SPECIFICATION FairSpec
INVARIANTS
  NoSendOnClosed
  NothingUpAfterDisconnect
  SnapshotsAdvance
PROPERTIES
  DisconnectEnds
  LatestDelivered
CHECK_DEADLOCK FALSE
