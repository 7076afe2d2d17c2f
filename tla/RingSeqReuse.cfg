\* Two crashes around a slot that a zero-copy reader holds.
CONSTANTS
    EntryCount = 2
    Words = {w1}
    MaxClaims = 3
    MaxRestarts = 2
    WriteCalls = {"write"}
    OverlapHandles = FALSE
    Readers = {r1}
    ZcReaders = {r1}
    ReadRetries = 4
    FromSeqs = {}
    ReadersCrash = FALSE
SPECIFICATION SerialSpec
INVARIANT ResumeExact
