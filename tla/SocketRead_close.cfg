\* One accepted connection is enough.
SPECIFICATION Spec
CONSTANTS
  Clients = {c1}
  Servers = {}
  Listener = l1
  RecvSize = 1
  MaxBytes = 2
  MaxHangups = 0
INVARIANT ReaderHearsClose
\* peers and coroutines may have nothing left to do
CHECK_DEADLOCK FALSE
