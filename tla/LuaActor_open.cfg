\* What ResumesItsWaiter and EverySleepEnds leave out.  AllAwaited: a coroutine that
\* catches the error of a duplicate token is resumed later by the RESPONSE of that
\* sleep, wherever it is.  SleepEndsAlone: a timer's RESPONSE that is queued while the
\* flag is being cleared stays there, and the sleep does not end.
SPECIFICATION FairSpec
CONSTANTS
  Nil = Nil
  Break = Break
  Coroutines = {11, 12}
  SharedTokens = {k1}
  MaxSession = 2
  MaxRequests = 2
  MaxWakeups = 1
INVARIANT AllAwaited
PROPERTY SleepEndsAlone
\* every coroutine may be suspended for good, and the bounds run out
CHECK_DEADLOCK FALSE
