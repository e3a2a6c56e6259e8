-------------------------- MODULE MCPermissionTree --------------------------
(* Model checking PermissionTree on small instances.                       *)
EXTENDS PermissionTree, TLC

CONSTANTS n1, n2

(* Two top-level nodes, neither with a code.                               *)
MCSeeds == {[n \in {n1, n2} |-> [parent |-> Root, code |-> NoCode]]}

MCSymmetry == Permutations(Client) \cup Permutations({n1, n2})

=============================================================================
