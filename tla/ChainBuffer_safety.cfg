\* Every content and every layout of a buffer that can be filled to its limit; the
\* separator comes whole, in parts, over two chunks.
SPECIFICATION Spec
CONSTANTS
  Bytes = {"r", "n"}
  Removers = {r1}
  BUFFER_CHAIN_SIZE = 1
  MIN_BUFFER_SIZE = 2
  BUFFER_CHAIN_MAX_AUTO_SIZE = 4
  MAX_TO_REALIGN_IN_EXPAND = 2
  BUFFER_CHAIN_MAX = 6
  MaxAdd = 7
  MaxTotal = 7
  Sep <- TwoBytes
INVARIANTS
  TypeOK
  ChainShape
  NoSeparatorSkipped
PROPERTY InOrder
\* a null chunk may have been dereferenced: the process is gone
CHECK_DEADLOCK FALSE
