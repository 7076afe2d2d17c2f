\* A claim races the compare-and-swap of a zero-copy read.
CONSTANTS
    EntryCount = 2
    Words = {w1}
    MaxClaims = 3
    MaxRestarts = 0
    WriteCalls = {"write"}
    OverlapHandles = FALSE
    Readers = {r1}
    ZcReaders = {r1}
    ReadRetries = 4
    FromSeqs = {}
    ReadersCrash = FALSE
SPECIFICATION Spec
INVARIANT PinnedStable
