\* SignalEndsItsOwn with a close between the fork of a dispatch coroutine and its
\* start; MakerWorks when the coroutine that makes a connection ends with an error.
SPECIFICATION Spec
CONSTANTS
  Callers = {c1, c2}
  Nil = Nil
  Modes = {"order", "session"}
  MaxConnects = 2
  MaxRequests = 2
  MaxCloses = 1
  EarlyClose = TRUE
INVARIANTS
  SignalEndsItsOwn
  MakerWorks
CHECK_DEADLOCK FALSE
