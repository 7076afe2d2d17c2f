\* Two suppliers open the same name at the same time; nobody dies.
CONSTANTS
    w1 = w1
    w2 = w2
    u = u
    v = v
    z = z
    p1 = p1
    p2 = p2
    Endpoints = {w1, w2}
    Procs = {p1, p2}
    ProcOf <- MCProcOf
    RoleOf <- MCRoleOf
    Suppliers = {w1, w2}
    GeometryOf <- MCGeometryOf
    Accepted <- MCAccepted
    Deferred = {}
    Segments = {s1, s2}
    NoSeg = NoSeg
    NoPid = NoPid
    Orderly = FALSE
    AllowUnlink = FALSE
    ReusePids = FALSE
    MaxCrashes = 0
SPECIFICATION Spec
INVARIANT RolesExclusive
SYMMETRY SegmentSymmetry
