--------------------------- MODULE MCIdentifiers ---------------------------
(* Identifiers for TLC: replicas and clients are interchangeable. *)
EXTENDS Identifiers, TLC

Interchangeable == Permutations(Replica) \cup Permutations(Client)
=============================================================================
