\* Everything at once: zero-copy, overlapping write handles, lost handles,
\* and writers that die and that bind with a header read long before.
CONSTANTS
    EntryCount = 2
    Words = {w1}
    MaxClaims = 3
    MaxRestarts = 1
    WriteCalls = {"write", "acquire"}
    OverlapHandles = TRUE
    Readers = {r1}
    ZcReaders = {r1}
    ReadRetries = 1
    FromSeqs = {}
    ReadersCrash = FALSE
    Openers = {c1}
SPECIFICATION ChannelSpec
INVARIANTS TypeOK NoPhantom
