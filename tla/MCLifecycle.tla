---------------------------- MODULE MCLifecycle -----------------------------
(* Model checking Lifecycle with two probes at a time, and the fairness    *)
(* under which its cleanup ends.                                           *)
EXTENDS Lifecycle

=============================================================================
