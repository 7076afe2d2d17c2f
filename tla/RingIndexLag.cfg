\* A writer that dies before it persists its index, twice.
CONSTANTS
    EntryCount = 3
    Words = {w1, w2}
    MaxClaims = 7
    MaxRestarts = 2
    WriteCalls = {"write"}
    OverlapHandles = FALSE
    Readers = {r1}
    ZcReaders = {}
    ReadRetries = 2
    FromSeqs = {1}
    ReadersCrash = FALSE
SPECIFICATION Spec
INVARIANT ResumePlace
SYMMETRY WordSymmetry
