\* One service, one worker, one poster: a message sent between Empty() and
\* Invoke_.store(false) is never handled.
SPECIFICATION FairSpec
CONSTANTS
  None = None
  Services = {s1}
  Workers = {w1}
  Posters = {p1}
  Acceptors = {}
  MaxStray = 1
  MaxMsgs = 2
PROPERTY EveryMessageHandled
