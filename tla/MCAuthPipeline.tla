--------------------------- MODULE MCAuthPipeline ---------------------------
(* Model checking AuthPipeline through one rotation of two replicas.       *)
EXTENDS AuthPipeline, TLC

MCSymmetry == Permutations(Replica)

=============================================================================
