----------------------------- MODULE MCSessions -----------------------------
(* Model checking Sessions on small instances.                             *)
EXTENDS Sessions, TLC

CONSTANTS x1, x2, c0, c1, c3

(* c3 is another person's.  c0 has expired at the start, so that it counts *)
(* only if it is on record, and c1 expires before the others.              *)
MCBearer == [c \in Credential |-> IF c = c3 THEN x2 ELSE x1]
MCExpiry == [c \in Credential |-> IF c = c0 THEN 0 ELSE IF c = c1 THEN 1 ELSE 2]

(* Nobody has ever logged in, or x1 has twice, at another audience.        *)
MCEarlier == {{}, {c0, c1}}

MCSymmetry ==
    Permutations(Proc) \cup Permutations(Account) \cup Permutations(Session)
        \cup Permutations(Hash)

=============================================================================
