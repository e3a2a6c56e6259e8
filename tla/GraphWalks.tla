----------------------------- MODULE GraphWalks -----------------------------
(***************************************************************************)
(* The walks of the access layer over the rows of one read, which          *)
(* PermissionTree and PolicyLedger take for granted: the check of a new    *)
(* parent in the permission tree, the search of a new inheritance's way    *)
(* back, and the menus of a principal.  The rows are any there could be,   *)
(* also what the locked writers never produce: an old cycle, a parent that *)
(* is gone.                                                                *)
(*                                                                         *)
(* VisibleMenus ranges over a map it adds to.  Go leaves the order open,   *)
(* and whether an entry added meanwhile is produced at all.                *)
(***************************************************************************)
EXTENDS Naturals, FiniteSets, Functions, SequencesExt

CONSTANTS
    Node,           \* nodes of the tree, or roles
    Root,           \* RootPermissionID
    Gone,           \* an id no row has
    MaxEdges        \* bounds the inheritances

ASSUME NodeAssumption == Root \notin Node /\ Gone \notin Node \cup {Root}

VARIABLES
    parent,         \* the parent of each row
    hit,            \* nodes whose own code is granted
    edges,          \* the g rules: <<child, parent>>
    pc,
    id, newParent,  \* arguments of the checks: target, and where to start
    cursor,         \* the row a walk up the tree is at
    stack,          \* rolePathExists: roles to look at
    visited,        \* the checks: ids seen
    verdict,        \* the checks: what they return
    visible,        \* VisibleMenus: its map
    produced        \* VisibleMenus: entries the range has produced

rows == <<parent, hit, edges, id, newParent>>
walkVars == <<rows, pc, cursor, stack, visited, verdict, visible, produced>>

Tables == [Node -> Node \cup {Root, Gone}]
Inheritances == {E \in SUBSET (Node \X Node) : IsFiniteSet(E) /\ Cardinality(E) <= MaxEdges}

WalkInit ==
    /\ pc \in {"check", "search", "menus"}
    /\ parent \in IF pc = "search" THEN {[n \in Node |-> Root]} ELSE Tables
    /\ edges \in IF pc = "search" THEN Inheritances ELSE {{}}
    /\ hit \in IF pc = "menus" THEN SUBSET Node ELSE {{}}
    /\ id \in IF pc = "menus" THEN {Gone} ELSE Node
    /\ newParent \in Node \cup {Root, Gone}
    /\ pc = "search" => newParent \in Node
    /\ pc = "menus" => newParent = Gone
    /\ cursor = newParent
    /\ stack = IF pc = "search" THEN <<newParent>> ELSE <<>>
    /\ visited = {} /\ verdict = "none"
    /\ visible = hit /\ produced = {}

-----------------------------------------------------------------------------
(* EnsureNoCycle.                                                          *)

Conclude(v) ==
    /\ verdict' = v /\ pc' = "done"
    /\ UNCHANGED <<rows, cursor, stack, visited, visible, produced>>

BeginCheck ==
    /\ pc = "check"
    /\ \/ newParent = Root /\ Conclude("ok")
       \/ newParent = id /\ Conclude("cycle")
       \/ /\ newParent \notin {Root, id}
          /\ pc' = "climb"
          /\ UNCHANGED <<rows, cursor, stack, visited, verdict, visible, produced>>

Climb ==
    /\ pc = "climb"
    /\ IF cursor \in visited THEN Conclude("cycle")
       ELSE IF cursor \notin Node THEN Conclude("not found")
       ELSE IF parent[cursor] = Root THEN Conclude("ok")
       ELSE IF parent[cursor] = id THEN Conclude("cycle")
       ELSE /\ visited' = visited \cup {cursor}
            /\ cursor' = parent[cursor]
            /\ UNCHANGED <<rows, pc, stack, verdict, visible, produced>>

-----------------------------------------------------------------------------
(* rolePathExists.                                                         *)

(* Mutant: the graph built the wrong way round.                            *)
ListingsReversed(child) ==
    LET inheriting == {e[1] : e \in {e \in edges : e[2] = child}}
    IN  Bijection(1 .. Cardinality(inheriting), inheriting)

(* graph[child], in the order the query happens to return the rows.        *)
Listings(child) ==
    LET inherited == {e[2] : e \in {e \in edges : e[1] = child}}
    IN  Bijection(1 .. Cardinality(inherited), inherited)

Search ==
    /\ pc = "search"
    /\ IF stack = <<>> THEN Conclude("no path")
       ELSE IF Last(stack) = id THEN Conclude("path")
       ELSE /\ IF Last(stack) \in visited THEN stack' = Front(stack) /\ UNCHANGED visited
               ELSE /\ visited' = visited \cup {Last(stack)}
                    /\ \E next \in Listings(Last(stack)) : stack' = Front(stack) \o next
            /\ UNCHANGED <<rows, pc, cursor, verdict, visible, produced>>

-----------------------------------------------------------------------------
(* VisibleMenus, before the nodes that are no menus are left out.          *)

(* The range goes on to an entry; it may end once it has produced all that *)
(* were there when it began.                                               *)
NextEntry ==
    /\ pc = "menus"
    /\ \/ \E n \in visible \ produced :
             cursor' = n /\ produced' = produced \cup {n} /\ pc' = "ancestors"
       \/ hit \subseteq produced /\ pc' = "done" /\ UNCHANGED <<cursor, produced>>
    /\ UNCHANGED <<rows, stack, visited, verdict, visible>>

(* Mutant: one parent at a time, for the range will come to it.            *)
AddAncestorOnly ==
    /\ pc = "ancestors"
    /\ visible' = visible \cup ({parent[cursor]} \cap Node)
    /\ pc' = "menus"
    /\ UNCHANGED <<rows, cursor, stack, visited, verdict, produced>>

AddAncestor ==
    /\ pc = "ancestors"
    /\ IF parent[cursor] \in Node \ visible
       THEN /\ cursor' = parent[cursor]
            /\ visible' = visible \cup {parent[cursor]}
            /\ UNCHANGED pc
       ELSE pc' = "menus" /\ UNCHANGED <<cursor, visible>>
    /\ UNCHANGED <<rows, stack, visited, verdict, produced>>

Done == pc = "done" /\ UNCHANGED walkVars

WalkNext == BeginCheck \/ Climb \/ Search \/ NextEntry \/ AddAncestor \/ Done

WalkSpec == WalkInit /\ [][WalkNext]_walkVars

-----------------------------------------------------------------------------
(* Properties.                                                             *)

(* What is at or above one of S, by definition: it is in every set that    *)
(* has S and goes up as far as there are rows.                             *)
AtOrAbove(S) ==
    {n \in Node : \A T \in SUBSET Node :
        S \subseteq T /\ (\A m \in T : parent[m] \in Node => parent[m] \in T) => n \in T}

VerdictRight ==
    verdict = "ok" <=>
        \/ newParent = Root
        \/ /\ newParent \in Node /\ id \notin AtOrAbove({newParent})
           /\ \E top \in AtOrAbove({newParent}) : parent[top] = Root

(* The roles that r inherits, and r: Reaches of PolicyLedger.              *)
Inherited(r) ==
    {t \in Node : \A T \in SUBSET Node :
        r \in T /\ (\A e \in edges : e[1] \in T => e[2] \in T) => t \in T}

PathRight == verdict = "path" <=> id \in Inherited(newParent)

(* The walks compute what they are for, whatever the rows are, in whatever *)
(* order they were read and the map is ranged over: the new parent of a    *)
(* node is refused unless it hangs from the root and not from the node     *)
(* (permission_tree.go:22), an inheritance closes a circle if and only if  *)
(* there is a way back (policy_store.go:158), and every granted node comes *)
(* with all of its ancestors, and with nothing else                        *)
(* (permission_tree.go:57).                                                *)
WalksAgree ==
    pc = "done" =>
        /\ id \notin Node => visible = AtOrAbove(hit)
        /\ id \in Node => IF verdict \in {"path", "no path"} THEN PathRight ELSE VerdictRight

=============================================================================
