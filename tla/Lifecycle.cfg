\* Suppliers open one after the other; one process may die, and
\* its PID be reused.
CONSTANTS
    w1 = w1
    w2 = w2
    u = u
    v = v
    z = z
    p1 = p1
    p2 = p2
    Endpoints = {w1, w2, v, z}
    Procs = {p1, p2}
    ProcOf <- MCProcOf
    RoleOf <- MCRoleOf
    Suppliers = {w1, v, z}
    GeometryOf <- MCGeometryOf
    Accepted <- MCAccepted
    Deferred = {w2}
    Segments = {s1, s2, s3, s4}
    NoSeg = NoSeg
    NoPid = NoPid
    Orderly = TRUE
    AllowUnlink = FALSE
    ReusePids = TRUE
    MaxCrashes = 1
SPECIFICATION Spec
INVARIANTS TypeOK RolesExclusive RoleHeld HeaderStable DeedExclusive UnlinksOwn
SYMMETRY SegmentSymmetry
