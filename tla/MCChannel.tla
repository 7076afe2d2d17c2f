------------------------------ MODULE MCChannel ------------------------------
(* Channel on small instances.  Words and openers are interchangeable. *)
EXTENDS Channel, TLC

ChannelSymmetry == Permutations(Words) \cup Permutations(Openers)
=============================================================================
