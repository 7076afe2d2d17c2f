\* Another thread drops references to views, handles and endpoints too.
CONSTANTS
    EntryCount = 3
    Handles = {h1, h2}
    Views = {v1, v2}
    Home = Home
    Threads = {Home, Other}
    Overlap = FALSE
    MaxExports = 2
    NoHandle = NoHandle
SPECIFICATION Spec
INVARIANTS TypeOK ViewsPinned ViewsPrivate ViewsMapped SlotReturned DropSeesNoExports
SYMMETRY PySymmetry
CHECK_DEADLOCK FALSE
