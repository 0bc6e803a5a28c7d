\* Two coroutines, a token they may share, three sessions, two requests.
SPECIFICATION Spec
CONSTANTS
  Nil = Nil
  Break = Break
  Coroutines = {11, 12}
  SharedTokens = {k1}
  MaxSession = 3
  MaxRequests = 2
  MaxWakeups = 2
INVARIANTS
  TypeOK
  ResumesItsWaiter
  SleepersReachable
  TablesDrained
  AnsweredOnce
\* every coroutine may be suspended for good, and the bounds run out
CHECK_DEADLOCK FALSE
