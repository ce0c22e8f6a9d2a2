SPECIFICATION FairSpec
CONSTANTS
  Threads = {"t1", "t2"}
  Existing = {"t1"}
  None = None
  Entries = {"call", "result", "mine"}
  Own = {"mine"}
  Home <- MCHome
  CallOf <- MCCallOf
  Streaming = {}
  MaxLoads = 2
  MaxDrops = 1
INVARIANTS
  TypeOK
  NoGap
  ForeignOnlyByReply
PROPERTIES
  EventuallyShown
