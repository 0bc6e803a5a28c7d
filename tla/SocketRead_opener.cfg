\* One connection the service opens is enough.
SPECIFICATION Spec
CONSTANTS
  Clients = {}
  Servers = {s1}
  Listener = l1
  RecvSize = 1
  MaxBytes = 1
  MaxHangups = 0
INVARIANT EveryOpenerTold
\* peers and coroutines may have nothing left to do
CHECK_DEADLOCK FALSE
