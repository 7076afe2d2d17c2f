\* The writer is used again while a write handle is outstanding.
CONSTANTS
    EntryCount = 2
    Handles = {h1, h2}
    Views = {v1, v2}
    Home = Home
    Threads = {Home}
    Overlap = TRUE
    MaxExports = 2
    NoHandle = NoHandle
SPECIFICATION Spec
INVARIANT ViewsPrivate
SYMMETRY PySymmetry
CHECK_DEADLOCK FALSE
