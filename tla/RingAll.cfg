\* Everything at once: zero-copy, overlapping write handles, crashes of both ends.
CONSTANTS
    EntryCount = 2
    Words = {w1}
    MaxClaims = 3
    MaxRestarts = 1
    WriteCalls = {"write", "acquire"}
    OverlapHandles = TRUE
    Readers = {r1}
    ZcReaders = {r1}
    ReadRetries = 2
    FromSeqs = {}
    ReadersCrash = TRUE
SPECIFICATION Spec
INVARIANTS TypeOK NoPhantom
