--------------------------- MODULE MCAccountRoles ---------------------------
(* Model checking AccountRoles on small instances.                         *)
EXTENDS AccountRoles, TLC

(* Bindings an operator may have provisioned before the service ran.       *)
MCSeedRoles == [Account -> {{}, {Admin}}]

(* Nothing provisioned.                                                    *)
MCNoSeed == {[a \in Account |-> {}]}

(* Accounts are interchangeable, and so are connections.                   *)
MCSymmetry == Permutations(Account) \cup Permutations(Proc)

=============================================================================
