----------------------------- MODULE MCPyHandles -----------------------------
(* PyHandles on small instances.  Handles and views are interchangeable. *)
EXTENDS PyHandles, TLC

PySymmetry == Permutations(Handles) \cup Permutations(Views)
=============================================================================
