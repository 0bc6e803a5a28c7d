\* What the conditions of ReloadSound, DriversSound and TimersSound leave out: each of
\* the invariants is violated.
SPECIFICATION Spec
CONSTANTS
  Base = 4  BLOCK_SIZE = 7  MAX_COOKIE = 3  MAX_DEPTH = 2  MaxArgs = 3
  SMALL_CHUNK = 8  Values = {}  Calls = {}  Texts = {}
  W = 16  P = 13  G = 5  COUNTER = 128  Worlds <- MCAllWorlds
  Requests <- MCNullInPipeline  Replies <- MCReplies  MaxWaiting = 2
  Topics = {}  MaxCommands = 4
  MaxHeap = 1  MaxTree = 1  MaxList = 2  Delays = {0, 3}  Types = {"MIN_HEAP", "ZKIPLIST"}
  MaxLevel = 4  Block = 3  FirstSize = 2  FirstSleep = 2
  BYTES = 3  MaxPending = 2  MaxId = 33  Documents <- MCDocuments
INVARIANTS
  ReloadedHeld
  ReloadedAll
  DriversAnyCommand
  DriversAnyNumber
  ListInBounds
\* a request whose count is too large waits for a server that waits for more
CHECK_DEADLOCK FALSE
