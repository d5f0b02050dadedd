-------------------------- MODULE MCNodeAllocation --------------------------
(* A node of two cpus and two gpus out of three ids: cpu 0 is excluded or   *)
(* goes offline, a gpu is fenced, re-encoded, replaced or lost.             *)
EXTENDS NodeAllocation, TLC

CONSTANTS g1, g2, g3

MCLayout ==
    {[cpus |-> {0, 1}, gpus |-> {g1, g2}, spec |-> {}, fenced |-> {}],
     [cpus |-> {0, 1}, gpus |-> {g1, g2}, spec |-> {0}, fenced |-> {g1}],
     [cpus |-> {1}, gpus |-> {g1, g3}, spec |-> {}, fenced |-> {}]}

MCRenaming == {[g \in Gpu |-> g], (g2 :> g3) @@ (g3 :> g2) @@ (g1 :> g1)}

JobSymmetry == Permutations(Job)

=============================================================================
