--------------------------- MODULE PermissionTree ---------------------------
(***************************************************************************)
(* The navigation tree: the transactions of permission.go over             *)
(* navigation_node, under the lock of the permission_tree_state row, and   *)
(* the reads whose revision a client sends back with its next change.      *)
(*                                                                         *)
(* A client c has one request at a time, pc[c] is the statement it is at.  *)
(* The statements of a transaction between which nobody else can write     *)
(* what they read are one action; a transaction's writes show when it      *)
(* commits.  A node keeps its parent and its code; name, kind, path and    *)
(* the like are set along with them.                                       *)
(***************************************************************************)
EXTENDS Naturals, FiniteSets

CONSTANTS
    Node,           \* node ids
    Root,           \* RootPermissionID; in the table, NULL
    Code,           \* the codes of permission_definition
    NoCode,         \* the zero PermissionCode; in the table, NULL
    Client,         \* connections of the service
    NoClient,       \* the value of a free lock
    SeedTrees,      \* trees the migrations may have written
    MaxRevision     \* bound: writers start only while this is out of reach

Row == [parent : Node \cup {Root}, code : Code \cup {NoCode}]
Table == UNION {[ids -> Row] : ids \in SUBSET Node}

VARIABLES
    node,           \* navigation_node: a row for each id there is
    revision,       \* permission_tree_state.revision
    offered,        \* the codes whose status in the catalog is 1
    issued,         \* the ids the sequence has given out
    treeLock,       \* who has locked the permission_tree_state row
    pc,             \* the statement each client is at
    req,            \* what it asked for
    read,           \* the revision it read first
    view            \* the node it is looking at, as it was sent to it

table == <<node, revision, offered, issued>>
vars == <<node, revision, offered, issued, treeLock, pc, req, read, view>>

Tree == INSTANCE TreeLedger WITH
            parent <- [n \in DOMAIN node |-> node[n].parent],
            code <- [n \in DOMAIN node |-> node[n].code]

Up(rows) == [n \in DOMAIN rows |-> rows[n].parent]
Codes(rows) == [n \in DOMAIN rows |-> rows[n].code]

ASSUME ClientAssumption ==
    /\ Root \notin Node /\ NoCode \notin Code /\ NoClient \notin Client
    /\ MaxRevision \in Nat

ASSUME SeedAssumption ==
    \A rows \in SeedTrees :
        /\ DOMAIN rows \subseteq Node /\ rows \in [DOMAIN rows -> Row]
        /\ Tree!Forest(Up(rows)) /\ Tree!Distinct(Codes(rows))

Request ==
    [op : {"create"}, row : Row]
    \cup [op : {"update"}, id : Node, row : Row, expected : SUBSET Nat]
    \cup [op : {"delete"}, id : Node, expected : SUBSET Nat]
    \cup [op : {"get"}, id : Node]
NoRequest == [op |-> "none"]

View == [id : Node, row : Row, revision : Nat]
Nothing == [id |-> Root, revision |-> 0]

Is(c, op) == req[c].op = op
Writes(c) == req[c].op \in {"create", "update", "delete"}

Init ==
    /\ node \in SeedTrees
    /\ revision = 1
    /\ offered = Code
    /\ issued = DOMAIN node
    /\ treeLock = NoClient
    /\ pc = [c \in Client |-> "idle"]
    /\ req = [c \in Client |-> NoRequest]
    /\ read = [c \in Client |-> 0]
    /\ view = [c \in Client |-> Nothing]

Goto(c, s) == pc' = [pc EXCEPT ![c] = s]

-----------------------------------------------------------------------------
(* Requests.                                                               *)

Begin(c, s, r) ==
    /\ pc[c] = "idle"
    /\ Goto(c, s)
    /\ req' = [req EXCEPT ![c] = r]
    /\ UNCHANGED <<table, treeLock, read, view>>

(* Writers start only while MaxRevision leaves room for all under way.     *)
Room == revision + Cardinality({c \in Client : Writes(c)}) < MaxRevision

(* A client names ids it has heard of, and expects nothing, or the         *)
(* revision that came with the node it is looking at.                      *)
Rows == [parent : issued \cup {Root}, code : Code \cup {NoCode}]
Expected(c, n) == {{}} \cup {{view[c].revision} : m \in {n} \cap {view[c].id}}

BeginGet(c) == \E n \in issued : Begin(c, "revision", [op |-> "get", id |-> n])

BeginCreate(c) ==
    /\ Room
    /\ \E row \in Rows : Begin(c, "lock", [op |-> "create", row |-> row])

BeginUpdate(c) ==
    /\ Room
    /\ \E n \in issued, row \in Rows : \E e \in Expected(c, n) :
          Begin(c, "find", [op |-> "update", id |-> n, row |-> row, expected |-> e])

BeginDelete(c) ==
    /\ Room
    /\ \E n \in issued : \E e \in Expected(c, n) :
          Begin(c, "lock", [op |-> "delete", id |-> n, expected |-> e])

-----------------------------------------------------------------------------
(* Reads: GetByID, and List for each of its nodes.                         *)

ReadRevision(c) ==
    /\ pc[c] = "revision"
    /\ read' = [read EXCEPT ![c] = revision]
    /\ Goto(c, "row")
    /\ UNCHANGED <<table, treeLock, req, view>>

(* The end of a request: the lock is released, and the client looks at     *)
(* what it was sent.                                                       *)
Finish(c, v) ==
    /\ treeLock' = IF treeLock = c THEN NoClient ELSE treeLock
    /\ Goto(c, "idle")
    /\ req' = [req EXCEPT ![c] = NoRequest]
    /\ read' = [read EXCEPT ![c] = 0]
    /\ view' = [view EXCEPT ![c] = v]

ReadRow(c) ==
    /\ pc[c] = "row" /\ req[c].id \in DOMAIN node
    /\ Finish(c, [id |-> req[c].id, row |-> node[req[c].id], revision |-> read[c]])
    /\ UNCHANGED table

-----------------------------------------------------------------------------
(* Transactions.                                                           *)

(* The usecase of an update reads the node before the transaction.         *)
FindNode(c) ==
    /\ pc[c] = "find" /\ req[c].id \in DOMAIN node
    /\ Goto(c, "lock")
    /\ UNCHANGED <<table, treeLock, req, read, view>>

(* Mutant: only a client from the future is in conflict.                   *)
ConflictAhead(c) == ~Is(c, "create") /\ \E e \in req[c].expected : e > revision

Conflict(c) == ~Is(c, "create") /\ ~(req[c].expected \subseteq {revision})

(* Mutant: the revision is read, the row is not locked.                    *)
LockTreeNoWait(c) ==
    /\ pc[c] = "lock" /\ ~Conflict(c)
    /\ Goto(c, "check")
    /\ UNCHANGED <<table, treeLock, req, read, view>>

(* lockPermissionTree: the UPDATE waits for the row, then the revision of  *)
(* the row as it is now is compared.                                       *)
LockTree(c) ==
    /\ pc[c] = "lock" /\ treeLock = NoClient /\ ~Conflict(c)
    /\ treeLock' = c
    /\ Goto(c, "check")
    /\ UNCHANGED <<table, req, read, view>>

(* EnsureNoCycle goes up from the new parent and must reach Root without   *)
(* meeting the node.                                                       *)
NoCycle(rows, n, p) ==
    \/ p = Root
    \/ p \in DOMAIN rows \ {n} /\ ~Tree!Above(Up(rows), n, p)

(* requirePermissionDefinition.                                            *)
Defined(c) == req[c].row.code \in offered \cup {NoCode}

(* What each transaction checks before it writes.                          *)
May(c) ==
    CASE Is(c, "create") -> req[c].row.parent \in DOMAIN node \cup {Root} /\ Defined(c)
      [] Is(c, "update") -> NoCycle(node, req[c].id, req[c].row.parent) /\ Defined(c)
      [] Is(c, "delete") -> \A n \in DOMAIN node : node[n].parent # req[c].id

Check(c) ==
    /\ pc[c] = "check" /\ May(c)
    /\ Goto(c, "commit")
    /\ UNCHANGED <<table, treeLock, req, read, view>>

(* The unique index on permission_code.                                    *)
CodeFree(n, x) == x = NoCode \/ \A m \in DOMAIN node \ {n} : node[m].code # x

Write(n, row) ==
    node' = [m \in DOMAIN node \cup {n} |-> IF m = n THEN row ELSE node[m]]

(* The node as saved, with the revision of bumpPermissionTreeRevision.     *)
Saved(n, row) == [id |-> n, row |-> row, revision |-> revision + 1]

CommitCreate(c) ==
    /\ pc[c] = "commit" /\ Is(c, "create")
    /\ \E n \in Node \ issued :
         /\ CodeFree(n, req[c].row.code)
         /\ Write(n, req[c].row)
         /\ issued' = issued \cup {n}
         /\ revision' = revision + 1
         /\ Finish(c, Saved(n, req[c].row))
    /\ UNCHANGED offered

CommitUpdate(c) ==
    /\ pc[c] = "commit" /\ Is(c, "update")
    /\ req[c].id \in DOMAIN node /\ CodeFree(req[c].id, req[c].row.code)
    /\ Write(req[c].id, req[c].row)
    /\ revision' = revision + 1
    /\ Finish(c, Saved(req[c].id, req[c].row))
    /\ UNCHANGED <<offered, issued>>

(* Mutant: a deletion leaves the revision as it is.                        *)
CommitDeleteUncounted(c) ==
    /\ pc[c] = "commit" /\ Is(c, "delete") /\ req[c].id \in DOMAIN node
    /\ node' = [m \in DOMAIN node \ {req[c].id} |-> node[m]]
    /\ Finish(c, Nothing)
    /\ UNCHANGED <<revision, offered, issued>>

CommitDelete(c) ==
    /\ pc[c] = "commit" /\ Is(c, "delete") /\ req[c].id \in DOMAIN node
    /\ node' = [m \in DOMAIN node \ {req[c].id} |-> node[m]]
    /\ revision' = revision + 1
    /\ Finish(c, Nothing)
    /\ UNCHANGED <<offered, issued>>

(* ErrPermissionNotFound, ErrConcurrentModification, ErrPermissionCycle,   *)
(* ErrPermissionHasChildren, ErrUnknownPermissionCode and                  *)
(* ErrPermissionCodeDuplicated.                                            *)
Refused(c) ==
    \/ pc[c] \in {"row", "find"} /\ req[c].id \notin DOMAIN node
    \/ pc[c] = "lock" /\ treeLock = NoClient /\ Conflict(c)
    \/ pc[c] = "check" /\ ~May(c)
    \/ pc[c] = "commit" /\ Is(c, "create") /\ ~CodeFree(Root, req[c].row.code)
    \/ pc[c] = "commit" /\ ~Is(c, "create") /\ req[c].id \notin DOMAIN node
    \/ pc[c] = "commit" /\ Is(c, "update") /\ ~CodeFree(req[c].id, req[c].row.code)

Reject(c) == Refused(c) /\ Finish(c, view[c]) /\ UNCHANGED table

(* Any statement may fail, and a panic rolls back as well.                 *)
Fail(c) == pc[c] # "idle" /\ Finish(c, view[c]) /\ UNCHANGED table

(* A migration or the operator sets the status of a code to 0.             *)
Retire(x) ==
    /\ x \in offered
    /\ offered' = offered \ {x}
    /\ UNCHANGED <<node, revision, issued, treeLock, pc, req, read, view>>

-----------------------------------------------------------------------------

Next ==
    \/ \E c \in Client :
         \/ BeginGet(c) \/ BeginCreate(c) \/ BeginUpdate(c) \/ BeginDelete(c)
         \/ ReadRevision(c) \/ ReadRow(c)
         \/ FindNode(c) \/ LockTree(c) \/ Check(c)
         \/ CommitCreate(c) \/ CommitUpdate(c) \/ CommitDelete(c)
         \/ Reject(c) \/ Fail(c)
    \/ \E x \in Code : Retire(x)

Spec == Init /\ [][Next]_vars

-----------------------------------------------------------------------------
(* Properties.                                                             *)

(* The type invariant of the table, the lock and the clients' variables:   *)
(* what a proof about the module starts from.                              *)
TypeOK ==
    /\ DOMAIN node \subseteq issued /\ issued \subseteq Node
    /\ node \in [DOMAIN node -> Row]
    /\ revision \in Nat
    /\ offered \subseteq Code
    /\ treeLock \in Client \cup {NoClient}
    /\ pc \in [Client -> {"idle", "revision", "row", "find", "lock", "check", "commit"}]
    /\ req \in [Client -> Request \cup {NoRequest}]
    /\ read \in [Client -> Nat]
    /\ view \in [Client -> View \cup {Nothing}]

(* However creations, moves and deletions interleave, every node hangs     *)
(* from the root: no cycle, no orphan (permission_tree.go:7), and no code  *)
(* is on two nodes.                                                        *)
TreeSound == Tree!Forest(Up(node)) /\ Tree!Distinct(Codes(node))

(* A change that carries the revision of a node overwrites or deletes      *)
(* exactly the node its author was looking at, though revision and row     *)
(* came from two statements (PermissionRepo.Update, expectedRevision).     *)
NoLostUpdate ==
    [][\A c \in Client : CommitUpdate(c) \/ CommitDelete(c) =>
          req[c].expected = {} \/ node[req[c].id] = view[c].row]_vars

(* Every commit is one indivisible change of TreeLedger, nothing else      *)
(* shows: the checks made earlier in a transaction hold when it commits.   *)
TreeSpec == Tree!Spec

=============================================================================
