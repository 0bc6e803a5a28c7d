SPECIFICATION Spec
CONSTANTS
  Base = 4  BLOCK_SIZE = 7  MAX_COOKIE = 3  MAX_DEPTH = 2  MaxArgs = 3
  SMALL_CHUNK = 8  Values <- MCValues  Calls <- MCCalls  Texts <- MCTexts
  W = 16  P = 13  G = 5  COUNTER = 128  Worlds <- MCAllWorlds
  Requests <- MCRequests  Replies <- MCReplies  MaxWaiting = 2
  Topics = {"news", "talk"}  MaxCommands = 4
  MaxHeap = 4  MaxTree = 4  MaxList = 3  Delays = {0, 2}  Types = {"MIN_HEAP", "RBTREE", "ZKIPLIST"}
  MaxLevel = 3  Block = 2  FirstSize = 2  FirstSleep = 1
  BYTES = 3  MaxPending = 2  MaxId = 34  Documents <- MCDocuments
INVARIANTS
  SerializeSound
  CryptSound
  ReloadSound
  DriversSound
PROPERTY TimersSound
