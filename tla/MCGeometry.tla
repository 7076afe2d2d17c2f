----------------------------- MODULE MCGeometry ------------------------------
(* Geometry on small instances.  Endpoints are interchangeable. *)
EXTENDS Geometry, TLC

EndpointSymmetry == Permutations(Endpoints)
=============================================================================
