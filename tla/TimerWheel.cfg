\* A clock of 5 bits: a near window has two ticks and each level two slots.  Two
\* timers take delays of every kind, the shortest, one that starts on an upper level
\* and the longest, at every time, through the wrap of the clock.
SPECIFICATION FairSpec
CONSTANTS
  NEAR = 2
  LEVEL = 2
  Timers = {n1, n2}
  Delays = {0, 3, 15}
INVARIANTS
  TypeOK
  SlotsSound
PROPERTIES
  FiresOnTimeInOrder
  EveryTimerFires
\* the server may stop
CHECK_DEADLOCK FALSE
