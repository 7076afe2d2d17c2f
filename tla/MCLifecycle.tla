----------------------------- MODULE MCLifecycle -----------------------------
(***************************************************************************)
(* Lifecycle on a small instance of two processes.  p1 has a writer w1     *)
(* that supplies a geometry.  p2 has a zero-copy reader z that supplies    *)
(* the same geometry, a writer v that supplies a larger one of another     *)
(* element type, a deferred writer u that attaches to the element type of  *)
(* w1, and a deferred writer w2 that attaches to any.                      *)
(***************************************************************************)
EXTENDS Lifecycle, TLC

CONSTANTS w1, w2, u, v, z, p1, p2

MCProcOf == [e \in Endpoints |-> IF e = w1 THEN p1 ELSE p2]
MCRoleOf == [e \in Endpoints |-> IF e = z THEN "zc" ELSE "writer"]
MCGeometryOf == [e \in Endpoints |-> IF e = v THEN 2 ELSE 1]
MCAccepted ==
    [e \in Endpoints |-> IF e = w2 THEN {1, 2} ELSE {MCGeometryOf[e]}]

SegmentSymmetry == Permutations(Segments)
=============================================================================
