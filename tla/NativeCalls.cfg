SPECIFICATION Spec
CONSTANTS
  RamThreads = {r1, r2}
  RamKeys <- TwoSources
  RamBudgets = {0, 2, 3}
  RamSizes = {1, 2}
  MaxRamCalls = 5
  PreviewFrames <- Shapes
  Edges = {1, 2, 4}
  ByteLimits = {0, 8, 14}
  FrameLimits = {0, 2, 3}
  PrepareThreads = {p1, p2}
  MaxGeneration = 5
  MaxNavigations = 2
  ScrubThreads = {s1, s2}
  Sessions = {1, 2}
  ScrubBudgets = {0, 2}
  MaxRetained = 1
  MaxScrubCalls = 3
  Capacity = 2
  MaxId = 5
  MaxFrames = 4
  Interval = 3
  Timestamps = {0, 1, 2}
  MaxClock = 2
  ExportFrames = {0, 1}
  Jobs = {1, 2}
  Navs = {1}
  MaxEpoch = 3
  SearchStreams = {"s", "t"}
  SearchGenerations = {1, 2}
  Algorithms = {1, 2}
  Timeline <- ShortTimeline
  Media <- ShortMedia
  Bands = 2
  SearchBatch = 2
  Containers <- SmallContainers
  MaxValue = 3
  MaxDecoders = 2
  MaxDecoderCalls = 3
  Files <- SmallFiles
  Chunk = 2
  MaxReaders = 2
  None = None
SYMMETRY Symmetry
INVARIANT AccountingIsExact
PROPERTY EvictsOldestFirst
INVARIANT CancellationIsExact
 
INVARIANT BarrierStopsPreviews
 
INVARIANT ExportedImageIsExact
INVARIANT PreviewsFitRequest
INVARIANT ProgressIsTruthful
INVARIANT AnswersAreWhole
INVARIANT DecoderIsFaithful
 
CHECK_DEADLOCK FALSE
