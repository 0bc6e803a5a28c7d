\* One service, one worker, one poster: the server stops while a send is between
\* push_message and its compare-exchange, or before a send; the send uses a
\* deleted service.
SPECIFICATION Spec
CONSTANTS
  None = None
  Services = {s1}
  Workers = {w1}
  Posters = {p1}
  Acceptors = {}
  MaxStray = 1
  MaxMsgs = 2
INVARIANT DeletedIsUnused
