\* A polling reader, a writer that may crash.
CONSTANTS
    EntryCount = 2
    Words = {w1, w2}
    MaxClaims = 4
    MaxRestarts = 1
    WriteCalls = {"write"}
    OverlapHandles = FALSE
    Readers = {r1}
    ZcReaders = {}
    ReadRetries = 2
    FromSeqs = {}
    ReadersCrash = FALSE
SPECIFICATION FairSpec
PROPERTIES Drain
