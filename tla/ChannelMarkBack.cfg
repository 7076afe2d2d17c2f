\* A zero-copy reader holds a slot while one writer takes over from another
\* with a header it has read before.
CONSTANTS
    EntryCount = 2
    Words = {w1}
    MaxClaims = 5
    MaxRestarts = 1
    WriteCalls = {"write"}
    OverlapHandles = FALSE
    Readers = {r1}
    ZcReaders = {r1}
    ReadRetries = 1
    FromSeqs = {}
    ReadersCrash = FALSE
    Openers = {c1}
SPECIFICATION ChannelSpec
PROPERTY WatermarkMonotone
