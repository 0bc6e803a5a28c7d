\* Liveness and shutdown of two workers that two services compete for, also when
\* both run one service because of accepts; no symmetry.
SPECIFICATION FairSpec
CONSTANTS
  None = None
  Services = {s1, s2}
  Workers = {w1, w2}
  Posters = {p1}
  Acceptors = {p1}
  MaxStray = 1
  MaxMsgs = 2
PROPERTIES
  ScheduledMessagesHandled
  StopTerminates
