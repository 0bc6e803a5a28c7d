\* One accepted connection, watched edge-triggered, and one opened by the service,
\* level-triggered.  A ::recv takes one byte, so it may have to be called again.
SPECIFICATION Spec
CONSTANTS
  Clients = {c1}
  Servers = {s1}
  Listener = l1
  RecvSize = 1
  MaxBytes = 2
  MaxHangups = 1
INVARIANTS
  TypeOK
  NothingUnnoticed
  RecordsInTime
PROPERTY OnlyPeersClose
\* peers and coroutines may have nothing left to do
CHECK_DEADLOCK FALSE
