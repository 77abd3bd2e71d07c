SPECIFICATION FairSpec
CONSTANTS
  None = None
  StreamStart = StreamStart
  MaxTicks = 9
  BatchSize = 2
  ResumeOverlap = 2
  MaxOverlap = 3
  ScanLimit = 3
  Identities <- DriftIdentities
  ReuseSafe <- DriftIdentities
  Content <- DriftContent
  Leftovers <- Fresh
INVARIANT FullReplayIsExact
INVARIANT OneRebuildSuffices
PROPERTY OpenEnds
