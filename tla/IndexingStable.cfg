SPECIFICATION Spec
CONSTANTS
  None = None
  StreamStart = StreamStart
  MaxTicks = 9
  BatchSize = 2
  ResumeOverlap = 2
  MaxOverlap = 3
  ScanLimit = 3
  Identities <- StableIdentities
  ReuseSafe <- StableReuseSafe
  Content <- StableContent
  Leftovers <- StableLeftovers
INVARIANT ServedIndexIsExact
INVARIANT StoredIndexRevalidates
PROPERTY WorkIsKept
