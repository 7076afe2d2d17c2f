\* Zero-copy handles, the calls of the two ends one after the other.
CONSTANTS
    EntryCount = 2
    Words = {w1}
    MaxClaims = 4
    MaxRestarts = 1
    WriteCalls = {"write", "acquire"}
    OverlapHandles = FALSE
    Readers = {r1, r2}
    ZcReaders = {r1}
    ReadRetries = 1
    FromSeqs = {}
    ReadersCrash = TRUE
SPECIFICATION SerialSpec
INVARIANTS PinnedStable
PROPERTIES BusyMeansAllHeld RetiredForGood
