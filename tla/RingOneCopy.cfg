\* One-copy readers and a writer that may crash once.
CONSTANTS
    EntryCount = 3
    Words = {w1, w2}
    MaxClaims = 7
    MaxRestarts = 1
    WriteCalls = {"write"}
    OverlapHandles = FALSE
    Readers = {r1}
    ZcReaders = {}
    ReadRetries = 2
    FromSeqs = {1}
    ReadersCrash = TRUE
SPECIFICATION Spec
INVARIANTS UntornRead OldestFirst ResumeExact ResumePlace PromiseKept Retention
PROPERTIES EmptyMeansLapped ImplementsLog
SYMMETRY WordSymmetry
