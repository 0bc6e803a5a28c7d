\* What socket::send leaves open; tlc -continue shows all three: async_send pushes
\* while the socket worker gives up EPOLLOUT; what the kernel refuses has left the
\* buffer; and two threads inside socket::send copy the same bytes.
SPECIFICATION Spec
CONSTANTS
  Uses = {{"send"}, {"async_send"}, {"send", "async_send"}}
  SendSize = 2
  Room = 3
  MaxPush = 3
  MaxBytes = 4
INVARIANTS
  WillBeSent
  NothingLost
  LeavesInOrder
CHECK_DEADLOCK FALSE
