\* Two services, two message workers and one posting thread (the timer or the
\* socket worker); four messages, so that a message can arrive
\* at every point of service::start; the server may stop at any time.
SPECIFICATION Spec
CONSTANTS
  None = None
  Services = {s1, s2}
  Workers = {w1, w2}
  Posters = {p1}
  Acceptors = {}
  MaxStray = 1
  MaxMsgs = 4
SYMMETRY Symmetry
INVARIANTS
  TypeOK
  ScheduledOnce
  InvokeIsScheduled
  OneWorkerPerService
  PopNeverNull
  FreedIsNotRun
PROPERTY ActorSpec
