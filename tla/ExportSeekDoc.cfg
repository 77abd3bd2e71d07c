SPECIFICATION Spec
CONSTANTS
    Timelines <- MCTimelines
    Strides = {1, 2}
    Identities = {id1}
    ReuseSafe = {id1}
    MaxTicks = 4
    None = None
    StreamStart = StreamStart
CHECK_DEADLOCK FALSE
INVARIANT SeekNeverChangesPixels
