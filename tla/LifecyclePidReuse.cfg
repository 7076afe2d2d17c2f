\* The PID of a dead writer is given to a new process.
CONSTANTS
    w1 = w1
    w2 = w2
    u = u
    v = v
    z = z
    p1 = p1
    p2 = p2
    Endpoints = {w1, w2, u}
    Procs = {p1, p2}
    ProcOf <- MCProcOf
    RoleOf <- MCRoleOf
    Suppliers = {w1}
    GeometryOf <- MCGeometryOf
    Accepted <- MCAccepted
    Deferred = {w2, u}
    Segments = {s1, s2, s3}
    NoSeg = NoSeg
    NoPid = NoPid
    Orderly = TRUE
    AllowUnlink = FALSE
    ReusePids = TRUE
    MaxCrashes = 1
SPECIFICATION Spec
INVARIANT RolesExclusive
SYMMETRY SegmentSymmetry
