------------------------------ MODULE MCAiChat ------------------------------
(* Instances of AiChat for TLC.                                            *)
EXTENDS AiChat, TLC
Symmetry == Permutations(Turns)
=============================================================================
