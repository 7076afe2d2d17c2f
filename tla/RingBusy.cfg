\* A reader takes every slot; the writer retries, the reader releases.
CONSTANTS
    EntryCount = 2
    Words = {w1}
    MaxClaims = 4
    MaxRestarts = 0
    WriteCalls = {"write"}
    OverlapHandles = FALSE
    Readers = {r1}
    ZcReaders = {r1}
    ReadRetries = 2
    FromSeqs = {}
    ReadersCrash = FALSE
SPECIFICATION RetrySpec
PROPERTIES BusyPasses
