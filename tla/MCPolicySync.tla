---------------------------- MODULE MCPolicySync ----------------------------
(* Model checking PolicySync on small instances.                           *)
EXTENDS PolicySync, TLC

(* The migrations grant codes with a wildcard, as system:* to admin.       *)
MCSeeds == {[grants |-> Role \X Wildcard, parents |-> {}]}

MCSymmetry == Permutations(Proc) \cup Permutations(Role) \cup Permutations(Replica)

=============================================================================
