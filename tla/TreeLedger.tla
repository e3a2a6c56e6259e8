----------------------------- MODULE TreeLedger -----------------------------
(***************************************************************************)
(* What PermissionRepo promises of the navigation tree: every change is    *)
(* one indivisible step that leaves a forest, and counts in the revision.  *)
(* Nothing is said of locks, of failures, or of who asks.                  *)
(***************************************************************************)
EXTENDS Naturals

CONSTANTS
    Node,           \* node ids
    Root,           \* RootPermissionID, the parent of a top-level node
    Code,           \* the codes of permission_definition
    NoCode          \* the zero PermissionCode of a directory or menu

VARIABLES
    parent,         \* the parent of every node there is
    code,           \* the code of every node there is
    revision        \* permission_tree_state.revision

treeVars == <<parent, code, revision>>

(* S is closed under going up: whoever starts in S ends in S or at Root.   *)
ClosedUp(up, S) == \A n \in S : up[n] \in S \cup {Root}

(* b is n or one of its ancestors: every set closed upwards from n has b.  *)
Above(up, b, n) ==
    \A S \in SUBSET DOMAIN up : n \in S /\ ClosedUp(up, S) => b \in S

(* What a node n may be given: a parent that is there and not below n, and *)
(* a code no other node has.                                               *)
MayHang(n, p) == p = Root \/ (p \in DOMAIN parent \ {n} /\ ~Above(parent, n, p))
MayCarry(n, c) == c = NoCode \/ \A m \in DOMAIN code \ {n} : code[m] # c

Put(n, p, c) ==
    /\ MayHang(n, p) /\ MayCarry(n, c)
    /\ parent' = [m \in DOMAIN parent \cup {n} |-> IF m = n THEN p ELSE parent[m]]
    /\ code' = [m \in DOMAIN code \cup {n} |-> IF m = n THEN c ELSE code[m]]
    /\ revision' = revision + 1

Add(n, p, c) == n \notin DOMAIN parent /\ Put(n, p, c)
Edit(n, p, c) == n \in DOMAIN parent /\ Put(n, p, c)

Remove(n) ==
    /\ n \in DOMAIN parent
    /\ \A m \in DOMAIN parent : parent[m] # n
    /\ parent' = [m \in DOMAIN parent \ {n} |-> parent[m]]
    /\ code' = [m \in DOMAIN code \ {n} |-> code[m]]
    /\ revision' = revision + 1

(* Every node hangs from Root: its parent is there, and every set of nodes *)
(* has one whose parent is outside, so that no way up goes round.          *)
Forest(up) ==
    /\ \A n \in DOMAIN up : up[n] \in DOMAIN up \cup {Root}
    /\ \A S \in SUBSET DOMAIN up : S # {} => \E n \in S : up[n] \notin S

Distinct(codes) ==
    \A m, n \in DOMAIN codes : codes[m] = codes[n] => m = n \/ codes[n] = NoCode

Init ==
    /\ DOMAIN parent \subseteq Node /\ DOMAIN code = DOMAIN parent
    /\ Forest(parent) /\ Distinct(code)
    /\ revision = 1

Next ==
    \E n \in Node :
        \/ \E p \in Node \cup {Root}, c \in Code \cup {NoCode} : Add(n, p, c) \/ Edit(n, p, c)
        \/ Remove(n)

Spec == Init /\ [][Next]_treeVars

=============================================================================
