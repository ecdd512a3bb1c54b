-------------------------- MODULE MCAccessControl --------------------------
(* The instance TLC checks: requests, role ids and role names are alike. *)
EXTENDS AccessControl, TLC

Symmetry == Permutations(Requests) \cup Permutations(Roles) \cup Permutations(Names)
=============================================================================
