-------------------------- MODULE MCPolicyDecision --------------------------
(* Model checking PolicyDecision: chains of three roles, and every code of *)
(* up to MaxCode characters.                                               *)
EXTENDS PolicyDecision

MCSymmetry == Permutations(Role)

=============================================================================
