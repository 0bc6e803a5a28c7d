\* The poster is the socket worker accepting connections with send(msg): two
\* accepts put the service twice on the global queue.
SPECIFICATION Spec
CONSTANTS
  None = None
  Services = {s1}
  Workers = {w1, w2}
  Posters = {p1}
  Acceptors = {p1}
  MaxStray = 1
  MaxMsgs = 2
INVARIANT PopNeverNull
