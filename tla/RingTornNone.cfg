\* A one-copy read that is overtaken and returns None.
CONSTANTS
    EntryCount = 2
    Words = {w1, w2}
    MaxClaims = 6
    MaxRestarts = 0
    WriteCalls = {"write"}
    OverlapHandles = FALSE
    Readers = {r1}
    ZcReaders = {}
    ReadRetries = 4
    FromSeqs = {}
    ReadersCrash = FALSE
SPECIFICATION Spec
INVARIANT OutUntouched
