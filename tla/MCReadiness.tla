---------------------------- MODULE MCReadiness -----------------------------
(* Model checking Readiness: two probes may overlap, and the grace is      *)
(* longer than the time of a request.                                      *)
EXTENDS Readiness, TLC

MCSymmetry == Permutations(Probe)

=============================================================================
