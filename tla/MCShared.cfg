\* Two coroutines on a channel of at most two connections, three requests and one
\* close.  Six bytes in pushes of up to three; socket::send takes two at once, so a
\* push can need two turns of its loop, and the kernel has room for three.  Three
\* items through a queue with two consumers and two producers, cancelled twice.  Two
\* workers and main(), three services created one by another.
SPECIFICATION Spec
CONSTANTS
  Nil = Nil
  Callers = {c1, c2}
  Modes = {"order", "session"}
  MaxConnects = 2
  MaxRequests = 3
  MaxCloses = 1
  EarlyClose = FALSE
  Calls = {{"send"}, {"async_send"}}
  SendSize = 2
  Room = 3
  MaxPush = 3
  MaxBytes = 6
  Consumers = {w1, w2}
  Producers = {p1, p2}
  Handler = handler
  Main = main
  Interrupted = {main}
  Values = {s1, s2}
  MaxPushes = 3
  MaxCancels = 2
  Workers = {w1, w2}
  MaxServices = 3
  MaxPosts = 1
INVARIANTS
  TypeOK
  OwnAnswer
  NobodyForgotten
  ConnectionOwned
  BytesLeave
  QueueServed
  StartsSafely
PROPERTY QueueIsAtomic
\* everybody may be done
CHECK_DEADLOCK FALSE
