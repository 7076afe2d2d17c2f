\* A second call while a write handle is outstanding.
CONSTANTS
    EntryCount = 2
    Words = {w1}
    MaxClaims = 3
    MaxRestarts = 0
    WriteCalls = {"write", "acquire"}
    OverlapHandles = TRUE
    Readers = {r1}
    ZcReaders = {r1}
    ReadRetries = 2
    FromSeqs = {}
    ReadersCrash = FALSE
SPECIFICATION Spec
INVARIANT HandleSlotHidden
