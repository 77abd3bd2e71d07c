SPECIFICATION FairSpec
CONSTANTS
  Threads = {t1,t2,t3}
  MaxSessions = 2
  FrameCount = 1
  None = None
  LastRevision = 2
  MaxCalls = 3
  CallsMade = {"open", "close", "storage", "clear"}
PROPERTY CallsReturn
CHECK_DEADLOCK FALSE
