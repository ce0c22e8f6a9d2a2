SPECIFICATION Spec
CONSTANTS
  Threads = {"t1", "t2"}
  Existing = {"t1"}
  None = None
  Entries = {"other", "mine"}
  Own = {"mine"}
  Home <- MCHome
  CallOf <- MCNoCalls
  Streaming = {"t1", "t2"}
  MaxLoads = 2
  MaxDrops = 1
INVARIANTS
  BubbleEnds
