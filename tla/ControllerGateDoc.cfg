SPECIFICATION Spec
CONSTANTS
  Threads = {t1,t2}
  MaxSessions = 2
  FrameCount = 2
  None = None
  LastRevision = 3
  MaxCalls = 4
  CallsMade = {"open", "close", "navigate", "load", "export", "storage", "clear"}
INVARIANT StorageMeetsNoSession
