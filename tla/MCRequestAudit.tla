--------------------------- MODULE MCRequestAudit ---------------------------
(* Small instances of RequestAudit for TLC. *)
EXTENDS RequestAudit, TLC

\* Requests are interchangeable, and so are the addresses of sessions.
Symmetry == Permutations(Requests) \cup Permutations(Addresses)

=============================================================================
