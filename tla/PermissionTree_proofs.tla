----------------------- MODULE PermissionTree_proofs ------------------------
(***************************************************************************)
(* Proofs about PermissionTree, for any nodes, codes and clients, and any  *)
(* trees the migrations may have written.                                  *)
(*                                                                         *)
(* Only the holder of the lock writes the table, so that what it has       *)
(* checked still holds when it commits (Checked), and what a client looks  *)
(* at is what is stored as long as the revision is the one it came with    *)
(* (Current).  From that a commit is a step of TreeLedger, and such a step *)
(* leaves a forest.                                                        *)
(***************************************************************************)
EXTENDS PermissionTree, TLAPS

Changes(c) == Is(c, "update") \/ Is(c, "delete")

(* Which statements each kind of request reaches.                          *)
OnRoute ==
    \A c \in Client :
        /\ pc[c] # "idle" => req[c] \in Request
        /\ pc[c] \in {"revision", "row"} => Is(c, "get")
        /\ pc[c] = "find" => Is(c, "update")
        /\ pc[c] \in {"lock", "check", "commit"} => Is(c, "create") \/ Changes(c)

(* The row is locked by the one that is past lockPermissionTree.           *)
LockHeld ==
    \A c \in Client : treeLock = c <=> pc[c] \in {"check", "commit"}

(* What a transaction has checked of the tree holds when it commits.       *)
Checked ==
    \A c \in Client : pc[c] = "commit" =>
        /\ Is(c, "create") => req[c].row.parent \in DOMAIN node \cup {Root}
        /\ Is(c, "update") => NoCycle(node, req[c].id, req[c].row.parent)
        /\ Is(c, "delete") => \A n \in DOMAIN node : node[n].parent # req[c].id

(* v is stored as it is, unless the revision has gone on since it was read.*)
Sees(v) ==
    \/ v = Nothing
    \/ /\ v \in View /\ v.revision <= revision
       /\ v.revision = revision => v.id \in DOMAIN node /\ node[v.id] = v.row

Current ==
    \A c \in Client :
        /\ read[c] <= revision
        /\ Sees(view[c])
        /\ pc[c] # "idle" /\ Changes(c) =>
             \/ req[c].expected = {}
             \/ /\ view[c] # Nothing /\ req[c].id = view[c].id
                /\ req[c].expected = {view[c].revision}
        /\ pc[c] \in {"check", "commit"} /\ Changes(c) => req[c].expected \subseteq {revision}

(* The inductive invariant.                                                *)
IInv == TypeOK /\ OnRoute /\ LockHeld /\ Checked /\ Current /\ TreeSound

-----------------------------------------------------------------------------
(* Forests: what a change of TreeLedger leaves.                            *)

(* n may hang under p: p is the root, or there and not below n.            *)
Hangs(up, n, p) == p = Root \/ (p \in DOMAIN up \ {n} /\ ~Tree!Above(up, n, p))

(* Hanging n under p keeps a forest, when n is not above p: the ancestors  *)
(* of p make a set C that n is not in, and a round trip through n would    *)
(* have to leave C by another node's parent.                               *)
LEMMA HangKeepsForest ==
    ASSUME NEW up, NEW D, D = DOMAIN up, Root \notin D, Tree!Forest(up),
           NEW n, n # Root,
           NEW p, Hangs(up, n, p),
           NEW new, new = [m \in D \cup {n} |-> IF m = n THEN p ELSE up[m]]
    PROVE  Tree!Forest(new)
  <1>1. \A m \in DOMAIN new : new[m] \in DOMAIN new \cup {Root}
    BY DEF Tree!Forest, Hangs
  <1>2. ASSUME NEW S \in SUBSET DOMAIN new, S # {}, \A m \in S : new[m] \in S
        PROVE  FALSE
    <2>1. Root \notin S /\ \A m \in S \ {n} : m \in D /\ new[m] = up[m]
      BY <1>2
    <2>2. CASE n \notin S
      BY <1>2, <2>1, <2>2 DEF Tree!Forest
    <2>3. CASE n \in S
      <3>1. new[n] = p /\ p \in S
        BY <1>2, <2>3
      <3>2. PICK C \in SUBSET D : p \in C /\ Tree!ClosedUp(up, C) /\ n \notin C
        BY <2>1, <3>1 DEF Hangs, Tree!Above
      <3>3. S \cap C # {} /\ S \cap C \in SUBSET D
        BY <3>1, <3>2
      <3>4. PICK m \in S \cap C : up[m] \notin S \cap C
        BY <3>3 DEF Tree!Forest
      <3>5. up[m] \in S /\ up[m] \in C \cup {Root}
        BY <1>2, <2>1, <3>2, <3>4 DEF Tree!ClosedUp
      <3> QED
        BY <2>1, <3>4, <3>5
    <2> QED
      BY <2>2, <2>3
  <1> QED
    BY <1>1, <1>2 DEF Tree!Forest

(* A node nobody hangs under can go.                                       *)
LEMMA CutKeepsForest ==
    ASSUME NEW up, NEW n, Tree!Forest(up), \A m \in DOMAIN up : up[m] # n,
           NEW new, new = [m \in DOMAIN up \ {n} |-> up[m]]
    PROVE  Tree!Forest(new)
  <1>1. \A m \in DOMAIN new : new[m] \in DOMAIN new \cup {Root}
    BY DEF Tree!Forest
  <1>2. ASSUME NEW S \in SUBSET DOMAIN new, S # {} PROVE \E m \in S : new[m] \notin S
    <2>1. PICK m \in S : up[m] \notin S
      BY <1>2 DEF Tree!Forest
    <2> QED
      BY <2>1
  <1> QED
    BY <1>1, <1>2 DEF Tree!Forest

(* A node that is not there yet is above nobody.                           *)
LEMMA NewIsAboveNobody ==
    ASSUME NEW up, Tree!Forest(up), NEW n, n \notin DOMAIN up, NEW p \in DOMAIN up
    PROVE  ~Tree!Above(up, n, p)
  <1>1. Tree!ClosedUp(up, DOMAIN up)
    BY DEF Tree!Forest, Tree!ClosedUp
  <1> QED
    BY <1>1 DEF Tree!Above

(* Codes stay distinct when the one that is given is free.                 *)
LEMMA CarryKeepsDistinct ==
    ASSUME NEW codes, NEW D, D = DOMAIN codes, Tree!Distinct(codes), NEW n, NEW x,
           x = NoCode \/ \A m \in D \ {n} : codes[m] # x,
           NEW new, new = [m \in D \cup {n} |-> IF m = n THEN x ELSE codes[m]]
    PROVE  Tree!Distinct(new)
  BY DEF Tree!Distinct

LEMMA CutKeepsDistinct ==
    ASSUME NEW codes, Tree!Distinct(codes), NEW n,
           NEW new, new = [m \in DOMAIN codes \ {n} |-> codes[m]]
    PROVE  Tree!Distinct(new)
  BY DEF Tree!Distinct

-----------------------------------------------------------------------------
(* What a request carries.                                                 *)

LEMMA Fields ==
    ASSUME NEW c \in Client, req[c] \in Request
    PROVE  /\ Is(c, "create") => req[c].row \in Row
           /\ Is(c, "update") =>
                req[c].row \in Row /\ req[c].id \in Node /\ req[c].expected \in SUBSET Nat
           /\ Is(c, "delete") => req[c].id \in Node /\ req[c].expected \in SUBSET Nat
           /\ Is(c, "get") => req[c].id \in Node
  BY DEF Request, Is

LEMMA InitInv == Init => IInv
  <1> SUFFICES ASSUME Init PROVE IInv
    OBVIOUS
  <1>1. TreeSound
    BY SeedAssumption DEF Init, TreeSound
  <1>2. TypeOK
    BY SeedAssumption, ClientAssumption DEF Init, TypeOK
  <1>3. OnRoute /\ LockHeld /\ Checked
    BY ClientAssumption DEF Init, OnRoute, LockHeld, Checked
  <1>4. Current
    BY DEF Init, Current, Sees
  <1> QED
    BY <1>1, <1>2, <1>3, <1>4 DEF IInv

-----------------------------------------------------------------------------
(* Steps that leave the table alone.                                       *)

(* The requests a client may make: what it expects is nothing, or came     *)
(* with the node it is looking at.                                         *)
LEMMA BeginStep ==
    ASSUME IInv, NEW c \in Client,
           NEW s \in {"revision", "find", "lock"}, NEW r \in Request, Begin(c, s, r),
           s = "revision" => r.op = "get",
           s = "find" => r.op = "update",
           s = "lock" => r.op \in {"create", "delete"},
           r.op \in {"update", "delete"} =>
             \/ r.expected = {}
             \/ view[c] # Nothing /\ r.id = view[c].id /\ r.expected = {view[c].revision}
    PROVE  IInv'
  <1> USE DEF IInv, TypeOK
  <1>1. /\ UNCHANGED <<node, revision, offered, issued, treeLock, read, view>>
        /\ pc[c] = "idle"
        /\ pc' = [pc EXCEPT ![c] = s] /\ req' = [req EXCEPT ![c] = r]
    BY DEF Begin, Goto, table
  <1>2. /\ pc'[c] = s /\ req'[c] = r
        /\ \A d \in Client \ {c} : pc'[d] = pc[d] /\ req'[d] = req[d]
    BY <1>1
  <1>3. TypeOK' /\ TreeSound'
    BY <1>1 DEF TreeSound, Tree!Forest, Tree!Distinct
  <1>4. OnRoute'
    BY <1>2 DEF OnRoute, Is, Changes
  <1>5. LockHeld'
    BY <1>1, <1>2 DEF LockHeld
  <1>6. Checked'
    BY <1>1, <1>2 DEF Checked, Is, NoCycle
  <1>7. Current'
    <2>1. \A d \in Client : read'[d] <= revision' /\ Sees(view[d])'
      BY <1>1 DEF Current, Sees
    <2>2. \A d \in Client \ {c} : Changes(d)' = Changes(d)
      BY <1>2 DEF Changes, Is
    <2>3. Changes(c)' => r.op \in {"update", "delete"}
      BY <1>2 DEF Changes, Is
    <2> QED
      BY <1>1, <1>2, <2>1, <2>2, <2>3 DEF Current
  <1> QED
    BY <1>3, <1>4, <1>5, <1>6, <1>7

LEMMA BeginsStep ==
    ASSUME IInv, NEW c \in Client,
           BeginGet(c) \/ BeginCreate(c) \/ BeginUpdate(c) \/ BeginDelete(c)
    PROVE  IInv'
  <1> USE DEF IInv, TypeOK
  <1>1. Rows \subseteq Row
    BY DEF Rows, Row
  <1>2. view[c] = Nothing \/ view[c] \in View
    OBVIOUS
  <1>3. \A n \in Node : \A e \in Expected(c, n) :
          /\ e \in SUBSET Nat
          /\ e = {} \/ (view[c] # Nothing /\ n = view[c].id /\ e = {view[c].revision})
    BY <1>2, ClientAssumption DEF Expected, Nothing, View
  <1>4. CASE BeginGet(c)
    <2>1. PICK n \in issued : Begin(c, "revision", [op |-> "get", id |-> n])
      BY <1>4 DEF BeginGet
    <2>2. [op |-> "get", id |-> n] \in Request
      BY DEF Request
    <2> QED
      BY <2>1, <2>2, BeginStep
  <1>5. CASE BeginCreate(c)
    <2>1. PICK row \in Rows : Begin(c, "lock", [op |-> "create", row |-> row])
      BY <1>5 DEF BeginCreate
    <2>2. [op |-> "create", row |-> row] \in Request
      BY <1>1 DEF Request
    <2> QED
      BY <2>1, <2>2, BeginStep
  <1>6. CASE BeginUpdate(c)
    <2>1. PICK n \in issued, row \in Rows : \E e \in Expected(c, n) :
            Begin(c, "find", [op |-> "update", id |-> n, row |-> row, expected |-> e])
      BY <1>6 DEF BeginUpdate
    <2>2. PICK e \in Expected(c, n) :
            Begin(c, "find", [op |-> "update", id |-> n, row |-> row, expected |-> e])
      BY <2>1
    <2> DEFINE r == [op |-> "update", id |-> n, row |-> row, expected |-> e]
    <2>3. r \in Request
      BY <1>1, <1>3 DEF Request
    <2>4. r.expected = {} \/ (view[c] # Nothing /\ r.id = view[c].id
                              /\ r.expected = {view[c].revision})
      BY <1>3
    <2>5. Begin(c, "find", r) /\ r.op = "update"
      BY <2>2
    <2> HIDE DEF r
    <2> QED
      BY <2>3, <2>4, <2>5, BeginStep
  <1>7. CASE BeginDelete(c)
    <2>1. PICK n \in issued : \E e \in Expected(c, n) :
            Begin(c, "lock", [op |-> "delete", id |-> n, expected |-> e])
      BY <1>7 DEF BeginDelete
    <2>2. PICK e \in Expected(c, n) :
            Begin(c, "lock", [op |-> "delete", id |-> n, expected |-> e])
      BY <2>1
    <2> DEFINE r == [op |-> "delete", id |-> n, expected |-> e]
    <2>3. r \in Request
      BY <1>3 DEF Request
    <2>4. r.expected = {} \/ (view[c] # Nothing /\ r.id = view[c].id
                              /\ r.expected = {view[c].revision})
      BY <1>3
    <2>5. Begin(c, "lock", r) /\ r.op = "delete"
      BY <2>2
    <2> HIDE DEF r
    <2> QED
      BY <2>3, <2>4, <2>5, BeginStep
  <1> QED
    BY <1>4, <1>5, <1>6, <1>7

(* The checks on the way to the commit.                                    *)
LEMMA MayMeans ==
    ASSUME NEW c \in Client, May(c)
    PROVE  /\ Is(c, "create") => req[c].row.parent \in DOMAIN node \cup {Root}
           /\ Is(c, "update") => NoCycle(node, req[c].id, req[c].row.parent)
           /\ Is(c, "delete") => \A n \in DOMAIN node : node[n].parent # req[c].id
  <1>1. CASE Is(c, "create")
    BY <1>1 DEF May, Is
  <1>2. CASE Is(c, "update")
    BY <1>2 DEF May, Is
  <1>3. CASE Is(c, "delete")
    BY <1>3 DEF May, Is
  <1> QED
    BY <1>1, <1>2, <1>3

LEMMA MoveStep ==
    ASSUME IInv, NEW c \in Client,
           ReadRevision(c) \/ FindNode(c) \/ LockTree(c) \/ Check(c)
    PROVE  IInv'
  <1> USE DEF IInv, TypeOK
  <1>1. UNCHANGED <<node, revision, offered, issued, req, view>>
    BY DEF ReadRevision, FindNode, LockTree, Check, table
  <1>2. \A d \in Client \ {c} : pc'[d] = pc[d] /\ read'[d] = read[d]
    BY DEF ReadRevision, FindNode, LockTree, Check, Goto
  <1>3. TreeSound'
    BY <1>1 DEF TreeSound, Tree!Forest, Tree!Distinct
  <1>4. \A d \in Client : Sees(view[d])'
    BY <1>1 DEF Current, Sees
  <1>5. \A d \in Client : /\ Changes(d)' = Changes(d)
                          /\ Is(d, "create")' = Is(d, "create")
                          /\ Is(d, "update")' = Is(d, "update")
                          /\ Is(d, "delete")' = Is(d, "delete")
                          /\ Is(d, "get")' = Is(d, "get")
    BY <1>1 DEF Changes, Is
  <1>6. CASE ReadRevision(c)
    <2>1. /\ pc[c] = "revision" /\ pc'[c] = "row" /\ read'[c] = revision
          /\ treeLock' = treeLock
      BY <1>6 DEF ReadRevision, Goto
    <2>2. TypeOK'
      BY <1>1, <1>6 DEF ReadRevision, Goto
    <2>3. OnRoute'
      BY <1>1, <1>2, <1>5, <2>1 DEF OnRoute
    <2>4. LockHeld'
      BY <1>2, <2>1 DEF LockHeld
    <2>5. Checked'
      BY <1>1, <1>2, <1>5, <2>1 DEF Checked, NoCycle
    <2>6. Current'
      BY <1>1, <1>2, <1>4, <1>5, <2>1 DEF Current
    <2> QED
      BY <1>3, <2>2, <2>3, <2>4, <2>5, <2>6
  <1>7. CASE FindNode(c)
    <2>1. /\ pc[c] = "find" /\ pc'[c] = "lock" /\ read' = read
          /\ treeLock' = treeLock
      BY <1>7 DEF FindNode, Goto
    <2>2. TypeOK'
      BY <1>1, <1>7 DEF FindNode, Goto
    <2>3. OnRoute'
      BY <1>1, <1>2, <1>5, <2>1 DEF OnRoute, Changes
    <2>4. LockHeld'
      BY <1>2, <2>1 DEF LockHeld
    <2>5. Checked'
      BY <1>1, <1>2, <1>5, <2>1 DEF Checked, NoCycle
    <2>6. Current'
      BY <1>1, <1>2, <1>4, <1>5, <2>1 DEF Current
    <2> QED
      BY <1>3, <2>2, <2>3, <2>4, <2>5, <2>6
  <1>8. CASE LockTree(c)
    <2>1. /\ pc[c] = "lock" /\ pc'[c] = "check" /\ read' = read
          /\ treeLock = NoClient /\ treeLock' = c
      BY <1>8 DEF LockTree, Goto
    <2>2. TypeOK'
      BY <1>1, <1>8 DEF LockTree, Goto
    <2>3. OnRoute'
      BY <1>1, <1>2, <1>5, <2>1 DEF OnRoute
    <2>4. LockHeld'
      BY <1>2, <2>1, ClientAssumption DEF LockHeld
    <2>5. Checked'
      BY <1>1, <1>2, <1>5, <2>1 DEF Checked, NoCycle
    <2>6. Changes(c) => req[c].expected \subseteq {revision}
      BY <1>8 DEF LockTree, Conflict, Changes, Is
    <2>7. Current'
      BY <1>1, <1>2, <1>4, <1>5, <2>1, <2>6 DEF Current
    <2> QED
      BY <1>3, <2>2, <2>3, <2>4, <2>5, <2>7
  <1>9. CASE Check(c)
    <2>1. /\ pc[c] = "check" /\ pc'[c] = "commit" /\ read' = read
          /\ treeLock' = treeLock /\ May(c)
      BY <1>9 DEF Check, Goto
    <2>2. TypeOK'
      BY <1>1, <1>9 DEF Check, Goto
    <2>3. OnRoute'
      BY <1>1, <1>2, <1>5, <2>1 DEF OnRoute
    <2>4. LockHeld'
      BY <1>2, <2>1 DEF LockHeld
    <2>5. Checked'
      BY <1>1, <1>2, <1>5, <2>1, MayMeans DEF Checked, NoCycle
    <2>6. Current'
      BY <1>1, <1>2, <1>4, <1>5, <2>1 DEF Current
    <2> QED
      BY <1>3, <2>2, <2>3, <2>4, <2>5, <2>6
  <1> QED
    BY <1>6, <1>7, <1>8, <1>9

(* A request that ends without a commit, and a client that looks at the    *)
(* node it has read.                                                       *)
LEMMA FinishStep ==
    ASSUME IInv, NEW c \in Client, NEW v, Finish(c, v), UNCHANGED table, Sees(v)
    PROVE  IInv'
  <1> USE DEF IInv, TypeOK
  <1>1. UNCHANGED <<node, revision, offered, issued>>
    BY DEF table
  <1>2. /\ pc'[c] = "idle" /\ read'[c] = 0 /\ view'[c] = v
        /\ \A d \in Client \ {c} : /\ pc'[d] = pc[d] /\ req'[d] = req[d]
                                    /\ read'[d] = read[d] /\ view'[d] = view[d]
        /\ treeLock' = IF treeLock = c THEN NoClient ELSE treeLock
    BY DEF Finish, Goto
  <1>3. TypeOK'
    <2>1. v \in View \cup {Nothing}
      BY DEF Sees
    <2> QED
      BY <1>1, <2>1 DEF Finish, Goto
  <1>4. TreeSound'
    BY <1>1 DEF TreeSound, Tree!Forest, Tree!Distinct
  <1>5. OnRoute'
    BY <1>2 DEF OnRoute, Is, Changes
  <1>6. LockHeld'
    BY <1>2, ClientAssumption DEF LockHeld
  <1>7. Checked'
    BY <1>1, <1>2 DEF Checked, Is, NoCycle
  <1>8. Current'
    <2>1. \A d \in Client : read'[d] <= revision' /\ Sees(view[d])'
      BY <1>1, <1>2 DEF Current, Sees
    <2>2. \A d \in Client \ {c} : Changes(d)' = Changes(d)
      BY <1>2 DEF Changes, Is
    <2> QED
      BY <1>1, <1>2, <2>1, <2>2 DEF Current
  <1> QED
    BY <1>3, <1>4, <1>5, <1>6, <1>7, <1>8

LEMMA EndStep ==
    ASSUME IInv, NEW c \in Client, ReadRow(c) \/ Reject(c) \/ Fail(c)
    PROVE  IInv'
  <1>1. CASE Reject(c) \/ Fail(c)
    <2>1. Sees(view[c])
      BY DEF IInv, Current
    <2> QED
      BY <1>1, <2>1, FinishStep DEF Reject, Fail
  <1>2. CASE ReadRow(c)
    <2> DEFINE v == [id |-> req[c].id, row |-> node[req[c].id], revision |-> read[c]]
    <2>1. pc[c] = "row" /\ req[c].id \in DOMAIN node
      BY <1>2 DEF ReadRow
    <2>2. v \in View
      BY <2>1 DEF View, IInv, TypeOK
    <2>3. read[c] <= revision
      BY DEF IInv, Current
    <2>4. Sees(v)
      BY <2>1, <2>2, <2>3 DEF Sees
    <2>5. Finish(c, v) /\ UNCHANGED table
      BY <1>2 DEF ReadRow
    <2> HIDE DEF v
    <2> QED
      BY <2>4, <2>5, FinishStep
  <1> QED
    BY <1>1, <1>2

LEMMA RetireStep == ASSUME IInv, NEW x \in Code, Retire(x) PROVE IInv'
  <1>1. UNCHANGED <<node, revision, issued, treeLock, pc, req, read, view>>
        /\ offered' \subseteq offered
    BY DEF Retire
  <1> QED
    BY <1>1 DEF IInv, TypeOK, OnRoute, LockHeld, Checked, Current, TreeSound, Sees,
                Changes, Is, NoCycle, Tree!Forest, Tree!Distinct

-----------------------------------------------------------------------------
(* Commits.                                                                *)

Commit(c) == CommitCreate(c) \/ CommitUpdate(c) \/ CommitDelete(c)

(* A commit that puts a row is TreeLedger's Put.                           *)
LEMMA WriteIsPut ==
    ASSUME IInv, NEW n \in Node, NEW row \in Row, Write(n, row), revision' = revision + 1,
           Tree!MayHang(n, row.parent), CodeFree(n, row.code)
    PROVE  Tree!Put(n, row.parent, row.code)
  <1>1. DOMAIN node' = DOMAIN node \cup {n}
    BY DEF Write
  <1>2. node' = [m \in DOMAIN node \cup {n} |-> IF m = n THEN row ELSE node[m]]
    BY DEF Write
  <1>3. Tree!MayCarry(n, row.code)
    BY DEF Tree!MayCarry, CodeFree
  <1> QED
    BY <1>1, <1>2, <1>3 DEF Tree!Put

(* What was checked earlier in the transaction holds when it commits: a    *)
(* commit is one step of the ledger.                                       *)
LEMMA CommitIsChange ==
    ASSUME IInv, NEW c \in Client, Commit(c) PROVE Tree!Next
  <1> USE DEF IInv, TypeOK
  <1>1. pc[c] = "commit" /\ req[c] \in Request
    BY DEF Commit, CommitCreate, CommitUpdate, CommitDelete, OnRoute
  <1>2. CASE CommitCreate(c)
    <2>1. PICK n \in Node \ issued :
            CodeFree(n, req[c].row.code) /\ Write(n, req[c].row) /\ revision' = revision + 1
      BY <1>2 DEF CommitCreate
    <2>2. req[c].row \in Row /\ req[c].row.parent \in DOMAIN node \cup {Root}
      BY <1>1, <1>2, Fields DEF CommitCreate, Checked
    <2>3. n \notin DOMAIN node /\ DOMAIN node = DOMAIN Up(node)
      BY DEF Up
    <2>4. Tree!MayHang(n, req[c].row.parent)
      <3>1. CASE req[c].row.parent = Root
        BY <3>1 DEF Tree!MayHang
      <3>2. CASE req[c].row.parent \in DOMAIN node
        <4>1. ~Tree!Above(Up(node), n, req[c].row.parent)
          BY <2>3, <3>2, NewIsAboveNobody DEF TreeSound
        <4> QED
          BY <2>3, <3>2, <4>1 DEF Tree!MayHang, Up
      <3> QED
        BY <2>2, <3>1, <3>2
    <2>5. PICK row \in Row : row = req[c].row
      BY <2>2
    <2>6. Tree!Put(n, row.parent, row.code)
      BY <2>1, <2>4, <2>5, WriteIsPut
    <2>7. Tree!Add(n, row.parent, row.code)
      BY <2>3, <2>6 DEF Tree!Add, Up
    <2> QED
      BY <2>7 DEF Tree!Next, Row
  <1>3. CASE CommitUpdate(c)
    <2>1. /\ Is(c, "update") /\ req[c].id \in DOMAIN node /\ CodeFree(req[c].id, req[c].row.code)
          /\ Write(req[c].id, req[c].row) /\ revision' = revision + 1
      BY <1>3 DEF CommitUpdate
    <2>2. req[c].row \in Row /\ req[c].id \in Node
      BY <1>1, <2>1, Fields
    <2>3. NoCycle(node, req[c].id, req[c].row.parent)
      BY <1>1, <2>1 DEF Checked
    <2>4. Tree!MayHang(req[c].id, req[c].row.parent)
      BY <2>3 DEF Tree!MayHang, NoCycle, Up
    <2>5. PICK n \in Node, row \in Row : n = req[c].id /\ row = req[c].row
      BY <2>2
    <2>6. Tree!Put(n, row.parent, row.code)
      BY <2>1, <2>4, <2>5, WriteIsPut
    <2>7. Tree!Edit(n, row.parent, row.code)
      BY <2>1, <2>5, <2>6 DEF Tree!Edit
    <2> QED
      BY <2>7 DEF Tree!Next, Row
  <1>4. CASE CommitDelete(c)
    <2>1. /\ Is(c, "delete") /\ req[c].id \in DOMAIN node
          /\ node' = [m \in DOMAIN node \ {req[c].id} |-> node[m]]
          /\ revision' = revision + 1
      BY <1>4 DEF CommitDelete
    <2>2. req[c].id \in Node
      BY <1>1, <2>1, Fields
    <2>3. \A n \in DOMAIN node : node[n].parent # req[c].id
      BY <1>1, <2>1 DEF Checked
    <2>4. PICK n \in Node : n = req[c].id
      BY <2>2
    <2>5. Tree!Remove(n)
      BY <2>1, <2>3, <2>4 DEF Tree!Remove
    <2> QED
      BY <2>5 DEF Tree!Next
  <1> QED
    BY <1>2, <1>3, <1>4 DEF Commit

(* Every change of the ledger leaves a forest and distinct codes.          *)
LEMMA ChangeKeepsSound ==
    ASSUME IInv, Tree!Next PROVE TreeSound'
  <1> USE DEF IInv, TypeOK
  <1>1. /\ Tree!Forest(Up(node)) /\ Tree!Distinct(Codes(node))
        /\ DOMAIN node = DOMAIN Up(node) /\ DOMAIN node = DOMAIN Codes(node)
        /\ Root \notin Node /\ DOMAIN node \subseteq Node
    BY ClientAssumption DEF TreeSound, Up, Codes
  <1>2. ASSUME NEW n \in Node, NEW p, NEW x, Tree!Put(n, p, x) PROVE TreeSound'
    <2>1. /\ Up(node)' = [m \in DOMAIN node \cup {n} |-> IF m = n THEN p ELSE Up(node)[m]]
          /\ Codes(node)' = [m \in DOMAIN node \cup {n} |-> IF m = n THEN x ELSE Codes(node)[m]]
      BY <1>2 DEF Tree!Put, Up, Codes
    <2>2. Hangs(Up(node), n, p)
      BY <1>2 DEF Tree!Put, Tree!MayHang, Hangs, Up
    <2>3. x = NoCode \/ \A m \in DOMAIN node \ {n} : Codes(node)[m] # x
      BY <1>2 DEF Tree!Put, Tree!MayCarry, Codes
    <2>4. Tree!Forest(Up(node)')
      <3>1. PICK up, new : up = Up(node) /\ new = Up(node)'
        OBVIOUS
      <3>2. PICK D : D = DOMAIN node
        OBVIOUS
      <3>3. /\ D = DOMAIN up /\ Root \notin D /\ Tree!Forest(up) /\ n # Root
            /\ Hangs(up, n, p)
            /\ new = [m \in D \cup {n} |-> IF m = n THEN p ELSE up[m]]
        BY <1>1, <2>1, <2>2, <3>1, <3>2
      <3>4. Tree!Forest(new)
        BY <3>3, HangKeepsForest
      <3> QED
        BY <3>1, <3>4
    <2>5. Tree!Distinct(Codes(node)')
      BY <1>1, <2>1, <2>3, CarryKeepsDistinct
    <2> QED
      BY <2>4, <2>5 DEF TreeSound
  <1>3. ASSUME NEW n \in Node, Tree!Remove(n) PROVE TreeSound'
    <2>1. /\ Up(node)' = [m \in DOMAIN Up(node) \ {n} |-> Up(node)[m]]
          /\ Codes(node)' = [m \in DOMAIN Codes(node) \ {n} |-> Codes(node)[m]]
          /\ \A m \in DOMAIN Up(node) : Up(node)[m] # n
      BY <1>3 DEF Tree!Remove, Up, Codes
    <2>2. Tree!Forest(Up(node)')
      BY <1>1, <2>1, CutKeepsForest
    <2>3. Tree!Distinct(Codes(node)')
      BY <1>1, <2>1, CutKeepsDistinct
    <2> QED
      BY <2>2, <2>3 DEF TreeSound
  <1> QED
    BY <1>2, <1>3 DEF Tree!Next, Tree!Add, Tree!Edit

(* The writer ends with its commit, the others have nothing checked.       *)
LEMMA CommitStep ==
    ASSUME IInv, NEW c \in Client, Commit(c) PROVE IInv'
  <1> USE DEF IInv, TypeOK
  <1>1. pc[c] = "commit" /\ req[c] \in Request /\ revision' = revision + 1 /\ offered' = offered
    BY DEF Commit, CommitCreate, CommitUpdate, CommitDelete, OnRoute
  <1>2. TreeSound'
    BY CommitIsChange, ChangeKeepsSound
  <1>3. PICK v :
          /\ Finish(c, v)
          /\ \/ v = Nothing
             \/ /\ v \in View /\ v.revision = revision + 1
                /\ v.id \in DOMAIN node' /\ node'[v.id] = v.row
    <2>1. ASSUME NEW n \in Node, NEW row \in Row, Write(n, row)
          PROVE  /\ Saved(n, row) \in View /\ Saved(n, row).revision = revision + 1
                 /\ Saved(n, row).id \in DOMAIN node'
                 /\ node'[Saved(n, row).id] = Saved(n, row).row
      BY <2>1 DEF Write, Saved, View
    <2>2. CASE CommitCreate(c)
      <3>1. PICK n \in Node \ issued : Write(n, req[c].row) /\ Finish(c, Saved(n, req[c].row))
        BY <2>2 DEF CommitCreate
      <3>2. PICK row \in Row : row = req[c].row
        BY <1>1, <2>2, Fields DEF CommitCreate
      <3>3. PICK v : v = Saved(n, row)
        OBVIOUS
      <3> QED
        BY <2>1, <3>1, <3>2, <3>3
    <2>3. CASE CommitUpdate(c)
      <3>1. PICK n \in Node, row \in Row : n = req[c].id /\ row = req[c].row
        BY <1>1, <2>3, Fields DEF CommitUpdate
      <3>2. Write(n, row) /\ Finish(c, Saved(n, row))
        BY <2>3, <3>1 DEF CommitUpdate
      <3>3. PICK v : v = Saved(n, row)
        OBVIOUS
      <3> QED
        BY <2>1, <3>2, <3>3
    <2>4. CASE CommitDelete(c)
      BY <2>4 DEF CommitDelete
    <2> QED
      BY <2>2, <2>3, <2>4 DEF Commit
  <1>4. /\ pc'[c] = "idle" /\ read'[c] = 0 /\ view'[c] = v
        /\ \A d \in Client \ {c} : /\ pc'[d] = pc[d] /\ req'[d] = req[d]
                                    /\ read'[d] = read[d] /\ view'[d] = view[d]
        /\ treeLock' = NoClient
    BY <1>1, <1>3 DEF Finish, Goto, LockHeld
  <1>5. \A d \in Client \ {c} : pc[d] \notin {"check", "commit"}
    BY <1>1 DEF LockHeld
  <1>6. TypeOK'
    <2>1. /\ DOMAIN node' \subseteq issued' /\ issued' \subseteq Node
          /\ node' \in [DOMAIN node' -> Row]
      <3>1. CASE CommitCreate(c)
        <4>1. req[c].row \in Row
          BY <1>1, <3>1, Fields DEF CommitCreate
        <4> QED
          BY <3>1, <4>1 DEF CommitCreate, Write
      <3>2. CASE CommitUpdate(c)
        <4>1. req[c].row \in Row
          BY <1>1, <3>2, Fields DEF CommitUpdate
        <4> QED
          BY <3>2, <4>1 DEF CommitUpdate, Write
      <3>3. CASE CommitDelete(c)
        BY <3>3 DEF CommitDelete
      <3> QED
        BY <3>1, <3>2, <3>3 DEF Commit
    <2>2. /\ treeLock' \in Client \cup {NoClient}
          /\ pc' \in [Client -> {"idle", "revision", "row", "find", "lock", "check", "commit"}]
          /\ req' \in [Client -> Request \cup {NoRequest}]
          /\ read' \in [Client -> Nat]
          /\ view' \in [Client -> View \cup {Nothing}]
      BY <1>3, <1>4 DEF Finish, Goto
    <2> QED
      BY <1>1, <2>1, <2>2
  <1>7. OnRoute'
    BY <1>4 DEF OnRoute, Is, Changes
  <1>8. LockHeld'
    BY <1>4, <1>5, ClientAssumption DEF LockHeld
  <1>9. Checked'
    BY <1>4, <1>5 DEF Checked
  <1>10. Current'
    <2>1. \A d \in Client : read'[d] <= revision'
      BY <1>1, <1>4 DEF Current
    <2>2. ASSUME NEW d \in Client PROVE Sees(view[d])'
      <3>1. CASE d = c
        BY <1>1, <1>3, <1>4, <3>1 DEF Sees
      <3>2. CASE d # c /\ view[d] = Nothing
        BY <1>4, <3>2 DEF Sees
      <3>3. CASE d # c /\ view[d] # Nothing
        <4>1. view[d] \in View /\ view[d].revision <= revision
          BY <3>3 DEF Current, Sees
        <4>2. view[d].revision \in Nat
          BY <4>1 DEF View
        <4> QED
          BY <1>1, <1>4, <3>3, <4>1, <4>2 DEF Sees
      <3> QED
        BY <3>1, <3>2, <3>3
    <2>3. \A d \in Client \ {c} : Changes(d)' = Changes(d)
      BY <1>4 DEF Changes, Is
    <2> QED
      BY <1>4, <1>5, <2>1, <2>2, <2>3 DEF Current
  <1> QED
    BY <1>2, <1>6, <1>7, <1>8, <1>9, <1>10

-----------------------------------------------------------------------------

(* IInv holds in every state the service and its clients can reach.        *)
THEOREM Invariance == Spec => []IInv
  <1>1. IInv /\ [Next]_vars => IInv'
    <2> SUFFICES ASSUME IInv, [Next]_vars PROVE IInv'
      OBVIOUS
    <2>1. ASSUME NEW c \in Client,
                 BeginGet(c) \/ BeginCreate(c) \/ BeginUpdate(c) \/ BeginDelete(c)
          PROVE  IInv'
      BY <2>1, BeginsStep
    <2>2. ASSUME NEW c \in Client,
                 ReadRevision(c) \/ FindNode(c) \/ LockTree(c) \/ Check(c)
          PROVE  IInv'
      BY <2>2, MoveStep
    <2>3. ASSUME NEW c \in Client, ReadRow(c) \/ Reject(c) \/ Fail(c) PROVE IInv'
      BY <2>3, EndStep
    <2>4. ASSUME NEW c \in Client, Commit(c) PROVE IInv'
      BY <2>4, CommitStep
    <2>5. ASSUME NEW x \in Code, Retire(x) PROVE IInv'
      BY <2>5, RetireStep
    <2>6. CASE UNCHANGED vars
      BY <2>6 DEF IInv, TypeOK, OnRoute, LockHeld, Checked, Current, TreeSound, Sees,
                  Changes, Is, NoCycle, Tree!Forest, Tree!Distinct, vars
    <2> QED
      BY <2>1, <2>2, <2>3, <2>4, <2>5, <2>6 DEF Next, Commit
  <1> QED
    BY <1>1, InitInv, PTL DEF Spec

(* However creations, moves and deletions interleave, the navigation is a  *)
(* forest without orphans, and no code is on two nodes (permission.go).    *)
THEOREM TreeTheorem == Spec => []TreeSound
  <1>1. IInv => TreeSound
    BY DEF IInv
  <1> QED
    BY <1>1, Invariance, PTL

(* A change that carries a revision changes the node its author looked at  *)
(* (PermissionRepo.Update and Delete).                                     *)
THEOREM NoLostUpdateTheorem == Spec => NoLostUpdate
  <1>1. IInv /\ [Next]_vars =>
          \A c \in Client : CommitUpdate(c) \/ CommitDelete(c) =>
             req[c].expected = {} \/ node[req[c].id] = view[c].row
    <2> SUFFICES ASSUME IInv, NEW c \in Client, CommitUpdate(c) \/ CommitDelete(c),
                        req[c].expected # {}
                 PROVE  node[req[c].id] = view[c].row
      OBVIOUS
    <2>1. pc[c] = "commit" /\ Changes(c)
      BY DEF CommitUpdate, CommitDelete, Changes
    <2>2. /\ view[c] # Nothing /\ req[c].id = view[c].id /\ Sees(view[c])
          /\ req[c].expected = {view[c].revision}
          /\ req[c].expected \subseteq {revision}
      BY <2>1 DEF IInv, Current
    <2> QED
      BY <2>2 DEF Sees
  <1> QED
    BY <1>1, Invariance, PTL DEF Spec, NoLostUpdate

(* PermissionTree implements TreeLedger: a commit is one of its changes,   *)
(* everything else stutters.                                               *)
THEOREM Refinement == Spec => TreeSpec
  <1>1. Init => Tree!Init
    BY InitInv DEF Init, Tree!Init, IInv, TypeOK, TreeSound, Up, Codes
  <1>2. IInv /\ [Next]_vars => [Tree!Next]_Tree!treeVars
    <2> SUFFICES ASSUME IInv, [Next]_vars PROVE [Tree!Next]_Tree!treeVars
      OBVIOUS
    <2>1. ASSUME NEW c \in Client, Commit(c) PROVE Tree!Next
      BY <2>1, CommitIsChange
    <2>2. CASE ~ \E c \in Client : Commit(c)
      <3>1. UNCHANGED <<node, revision>>
        BY <2>2 DEF Next, vars, Commit, BeginGet, BeginCreate, BeginUpdate, BeginDelete, Begin,
                    ReadRevision, ReadRow, FindNode, LockTree, Check, Reject, Fail, Retire, table
      <3> QED
        BY <3>1 DEF Tree!treeVars
    <2> QED
      BY <2>1, <2>2
  <1> QED
    BY <1>1, <1>2, Invariance, PTL DEF Spec, TreeSpec, Tree!Spec

=============================================================================
