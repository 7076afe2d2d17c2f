\* Two writers take turns, each binding with a header it may have read long before.
CONSTANTS
    EntryCount = 2
    Words = {w1}
    MaxClaims = 4
    MaxRestarts = 2
    WriteCalls = {"write"}
    OverlapHandles = FALSE
    Readers = {r1}
    ZcReaders = {}
    ReadRetries = 1
    FromSeqs = {}
    ReadersCrash = FALSE
    Openers = {c1, c2}
SPECIFICATION ChannelSpec
INVARIANTS UntornRead ResumeExact PromiseKept
PROPERTY WatermarkMonotone
SYMMETRY ChannelSymmetry
