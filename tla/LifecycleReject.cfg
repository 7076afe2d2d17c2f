\* A writer that owns the segment is refused the writer role by a peer.
CONSTANTS
    w1 = w1
    w2 = w2
    u = u
    v = v
    z = z
    p1 = p1
    p2 = p2
    Endpoints = {w1, w2, z}
    Procs = {p1, p2}
    ProcOf <- MCProcOf
    RoleOf <- MCRoleOf
    Suppliers = {w1, z}
    GeometryOf <- MCGeometryOf
    Accepted <- MCAccepted
    Deferred = {w2}
    Segments = {s1, s2, s3}
    NoSeg = NoSeg
    NoPid = NoPid
    Orderly = TRUE
    AllowUnlink = FALSE
    ReusePids = FALSE
    MaxCrashes = 1
SPECIFICATION Spec
INVARIANT RejectedOpenKeepsName
SYMMETRY SegmentSymmetry
