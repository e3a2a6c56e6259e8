---------------------------- MODULE MCGraphWalks ----------------------------
(* Model checking GraphWalks on every table of four rows, and on up to     *)
(* MaxEdges inheritances between four roles.                               *)
EXTENDS GraphWalks, TLC

MCSymmetry == Permutations(Node)

=============================================================================
