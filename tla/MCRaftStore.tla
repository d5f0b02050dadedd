---------------------------- MODULE MCRaftStore ----------------------------
(* The replica of a larger cluster, two operations. *)
EXTENDS RaftStore, TLC

OpSymmetry == Permutations(Op)

=============================================================================
