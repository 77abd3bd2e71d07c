SPECIFICATION Spec
CONSTANTS
  Threads = {t1,t2,t3}
  MaxSessions = 2
  FrameCount = 2
  None = None
  LastRevision = 2
  MaxCalls = 4
  CallsMade = {"open", "close", "navigate", "load", "export", "storage", "clear"}
SYMMETRY ThreadSymmetry
INVARIANT SnapshotIsLive
INVARIANT NoSessionLeaks
INVARIANT DeliveredFrameIsShown
INVARIANT ClearMeetsNoSession
INVARIANT StorageExcludesTransitions
