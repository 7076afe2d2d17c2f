\* A writer binds with a header read while its predecessor was still writing.
CONSTANTS
    EntryCount = 3
    Words = {w1}
    MaxClaims = 5
    MaxRestarts = 1
    WriteCalls = {"write"}
    OverlapHandles = FALSE
    Readers = {r1}
    ZcReaders = {}
    ReadRetries = 1
    FromSeqs = {}
    ReadersCrash = FALSE
    Openers = {c1, c2}
SPECIFICATION ChannelSpec
INVARIANT ResumePlace
SYMMETRY ChannelSymmetry
