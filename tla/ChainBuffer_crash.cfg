\* A separator of two bytes of which the first has come.
SPECIFICATION Spec
CONSTANTS
  Bytes = {"r", "n"}
  Removers = {r1}
  BUFFER_CHAIN_SIZE = 1
  MIN_BUFFER_SIZE = 4
  BUFFER_CHAIN_MAX_AUTO_SIZE = 8
  MAX_TO_REALIGN_IN_EXPAND = 4
  BUFFER_CHAIN_MAX = 64
  MaxAdd = 2
  MaxTotal = 4
  Sep <- TwoBytes
INVARIANT SearchStaysInside
\* a null chunk may have been dereferenced: the process is gone
CHECK_DEADLOCK FALSE
