\* The signal comes on a worker's or a sender's stack.
SPECIFICATION Spec
CONSTANTS
  Consumers = {w1, w2}
  Producers = {p1}
  Handler = handler
  Main = main
  Interrupted = {w1, w2, p1}
  Nil = Nil
  Values = {s1, s2}
  MaxPushes = 3
  MaxCancels = 2
INVARIANTS
  HandlerReturns
CHECK_DEADLOCK FALSE
