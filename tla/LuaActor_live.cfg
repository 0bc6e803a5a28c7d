\* Two coroutines, a token they may share, two sessions and two requests: the
\* sleeps end, with any message left over by the scheduler.
SPECIFICATION FairSpec
CONSTANTS
  Nil = Nil
  Break = Break
  Coroutines = {11, 12}
  SharedTokens = {k1}
  MaxSession = 2
  MaxRequests = 2
  MaxWakeups = 1
PROPERTY EverySleepEnds
\* every coroutine may be suspended for good, and the bounds run out
CHECK_DEADLOCK FALSE
