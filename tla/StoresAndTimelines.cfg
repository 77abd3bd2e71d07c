SPECIFICATION Spec
CONSTANTS
  DiskHandles = {h1, h2}
  Paths <- ThreeEntries
  DiskSizes = {1, 2}
  Budget = 2
  MaxOps = 4
  CompanionIdentities <- ThreeIdentities
  CompanionGenerations = {1, 2}
  CompanionRows = 2
  NoFile = NoFile
  Garbage = Garbage
  Analyses = {a1, a2, a3}
  FrameCount = 2
  GroupBatch = 1
  MaxBuilds = 3
  Sources = {s1, s2}
  MaxRows = 2
  MaxCalls = 2
  Timelines <- ShortTimelines
  Drifts <- ShortDrifts
  MaxForward = 2
  Identities = {1}
  ReuseSafe = {1}
  MaxTicks = 4
  StreamStart = StreamStart
  JumpIndexes <- NarrowIndexes
  JumpNumerator = 2
  JumpDenominator = 3
  PlanIndexes <- PlannedIndexes
  Arguments <- SmallArguments
  MaxWord = 4
  PlanNumerator = 1
  PlanDenominator = 1
  MaxValue = 3
  Overflow = Overflow
  Hashes = {0, 1}
  Tones = {0, 1, 2}
  GroupHashDistance = 0
  MinimumSimilarity = 9
  GroupScale = 10
  MaxFrames = 5
  Colours <- ThreeColours
  PictureSizes <- SmallSizes
  Side = 2
  HashSide = 2
  BandBits = 2
  Unit = 4
  Insets = {0, 1, 3}
  Radius = 2
  Minimum = 9300
  MaxHashDistance = 1
  MinimumConfirmation = 9700
  None = None
INVARIANT EntriesAreWhole
INVARIANT BudgetIsKept
 
INVARIANT NavigatorIsWhole
INVARIANT CatalogueTellsTruth
 
INVARIANT ExactFrame
INVARIANT AnswersReconcile
 
INVARIANT PlansAreExact
INVARIANT GroupsPartitionTimeline
 
CHECK_DEADLOCK FALSE
