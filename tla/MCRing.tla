------------------------------- MODULE MCRing --------------------------------
(* Ring on small instances.  The words of a payload are interchangeable. *)
EXTENDS Ring, TLC

WordSymmetry == Permutations(Words)
=============================================================================
