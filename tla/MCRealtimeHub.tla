---------------------------- MODULE MCRealtimeHub ----------------------------
(* One user's connections, small enough for TLC. *)
EXTENDS RealtimeHub, TLC

Symmetry == Permutations(Sockets) \cup Permutations(Streams) \cup Permutations(Publications)
=============================================================================
