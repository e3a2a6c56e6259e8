------------------------- MODULE PolicySync_proofs --------------------------
(***************************************************************************)
(* Proofs about PolicySync, for any roles, codes, replicas and requests.   *)
(*                                                                         *)
(* Writers hold the state row from the version they compare to COMMIT, and *)
(* a reload holds its replica's slot from the version it reads to the      *)
(* publication (LocksHeld).  So what a writer has checked is so when it    *)
(* commits (Checked), rules that were read between two reads of the same   *)
(* version are that version's (LoadsSound), and nobody changes the         *)
(* adapter's version between a load and its publication.  From that every  *)
(* COMMIT and every publication is a step of PolicyLedger.                 *)
(***************************************************************************)
EXTENDS PolicySync, SequenceTheorems, TLAPS

(* Which statements each kind of request reaches, and whose it is.         *)
Loading == {"before", "load", "after", "publish"}

Route == [none |-> {"idle", "down"},
          set  |-> {"lock", "catalog", "rows", "commit", "slot"} \cup Loading,
          add  |-> {"lock", "rows", "commit", "slot"} \cup Loading,
          drop |-> {"lock", "commit", "slot"} \cup Loading,
          read |-> {"before", "load", "after"},
          poll |-> {"poll", "compare", "slot"} \cup Loading,
          boot |-> Loading]

(* A replica works for itself, and nobody works at one that is not running *)
(* but its own start.                                                      *)
FollowsRoute(a) ==
    /\ pc[a] \in Route[req[a].op]
    /\ a \in Proc => pc[a] # "down" /\ ~Is(a, "poll") /\ ~Is(a, "boot")
    /\ a \in Replica =>
         /\ req[a].op \in {"none", "poll", "boot"}
         /\ ~Is(a, "none") => req[a].at = a
         /\ pc[a] = "down" => a \notin Running
         /\ pc[a] = "idle" => a \in Running
    /\ ~Is(a, "none") => (Is(a, "boot") <=> req[a].at \notin Running)

OnRoute == \A a \in Actor : FollowsRoute(a)

(* The state row is locked by the writer that is past lockPolicyState, and *)
(* the slot of a replica by the one that is reloading it.                  *)
InTransaction(p) == pc[p] \in {"catalog", "rows", "commit"}

HoldsSlot(a, r) ==
    /\ pc[a] \in Loading /\ ~Is(a, "read") /\ ~Is(a, "boot")
    /\ req[a].at = r

LocksHeld ==
    /\ \A p \in Proc : stateLock = p <=> InTransaction(p)
    /\ \A a \in Actor, r \in Replica : slot[r] = a <=> HoldsSlot(a, r)

(* What a transaction has found is so until it commits.                    *)
Found(p) ==
    /\ InTransaction(p) => req[p].expected \subseteq {version} /\ tx[p].version = version
    /\ SharesCatalog(p) => ~Unknown(p)
    /\ pc[p] = "commit" /\ ~Is(p, "drop") => tx[p].rows = policy

Checked == \A p \in Proc : Found(p)

(* What a load has read is the policy of a version, if it turns out stable.*)
LoadSound(a) ==
    /\ tx[a].version <= version
    /\ pc[a] \in {"load", "after"} => tx[a].before <= version
    /\ pc[a] = "after" /\ tx[a].before = version => tx[a].rows = policy
    /\ pc[a] = "publish" =>
         LET v == adapterVersion[req[a].at]
         IN  /\ [version |-> v, policy |-> tx[a].rows] \in past
             /\ v >= enforced[req[a].at].version /\ v >= tx[a].version

LoadsSound == \A a \in Actor : LoadSound(a)

(* The database has held one policy under each version, and holds the last.*)
History ==
    /\ \A s \in past : s.version \in 1 .. version
    /\ \A s, t \in past : s.version = t.version => s = t
    /\ [version |-> version, policy |-> policy] \in past

(* The inductive invariant.                                                *)
IInv ==
    /\ TypeOK /\ OnRoute /\ LocksHeld /\ Checked /\ LoadsSound /\ History
    /\ InheritanceAcyclic /\ AuditTrail /\ EnforcedHeld

-----------------------------------------------------------------------------
(* Inheritance.                                                            *)

(* S holds whatever its members inherit.                                   *)
Closed(edges, S) == \A e \in edges : e[1] \in S => e[2] \in S

LEMMA NotReached ==
    ASSUME NEW edges, NEW from, NEW target
    PROVE  ~Reaches(edges, from, target) <=>
             \E S \in SUBSET Role : from \in S /\ Closed(edges, S) /\ target \notin S
  BY DEF Reaches, Closed

(* A new edge makes no circle when its end does not reach its start: the   *)
(* roles its end reaches make a set C that the start is not in, and what   *)
(* kept an older edge out of a circle still does with C added or cut out.  *)
LEMMA AddKeepsAcyclic ==
    ASSUME NEW edges \in SUBSET (Role \X Role), Acyclic(edges),
           NEW child \in Role, NEW parent \in Role,
           ~Reaches(edges, parent, child)
    PROVE  Acyclic(edges \cup {<<child, parent>>})
  <1> DEFINE new == edges \cup {<<child, parent>>}
  <1>1. PICK C \in SUBSET Role : parent \in C /\ Closed(edges, C) /\ child \notin C
    BY NotReached
  <1>2. Closed(new, C)
    BY <1>1 DEF Closed
  <1>3. ~Reaches(new, parent, child)
    BY <1>1, <1>2, NotReached
  <1>4. ASSUME NEW e \in edges PROVE ~Reaches(new, e[2], e[1])
    <2>1. PICK D \in SUBSET Role : e[2] \in D /\ Closed(edges, D) /\ e[1] \notin D
      BY NotReached DEF Acyclic
    <2>2. CASE e[1] \in C
      <3>1. Closed(new, C \cap D) /\ e[2] \in C \cap D /\ e[1] \notin C \cap D
        BY <1>1, <2>1, <2>2 DEF Closed
      <3> QED
        BY <3>1, NotReached
    <2>3. CASE e[1] \notin C
      <3>1. Closed(new, C \cup D) /\ e[2] \in C \cup D /\ e[1] \notin C \cup D
        BY <1>1, <2>1, <2>3 DEF Closed
      <3> QED
        BY <3>1, NotReached
    <2> QED
      BY <2>2, <2>3
  <1>5. <<child, parent>>[1] = child /\ <<child, parent>>[2] = parent
    OBVIOUS
  <1> HIDE DEF new
  <1>6. \A e \in new : e \in edges \/ e = <<child, parent>>
    BY DEF new
  <1>7. Acyclic(new)
    BY <1>3, <1>4, <1>5, <1>6 DEF Acyclic
  <1> QED
    BY <1>7 DEF new

LEMMA CutKeepsAcyclic ==
    ASSUME NEW edges, Acyclic(edges), NEW new \in SUBSET edges
    PROVE  Acyclic(new)
  <1> SUFFICES ASSUME NEW e \in new PROVE ~Reaches(new, e[2], e[1])
    BY DEF Acyclic
  <1>1. PICK D \in SUBSET Role : e[2] \in D /\ Closed(edges, D) /\ e[1] \notin D
    BY NotReached DEF Acyclic
  <1>2. Closed(new, D)
    BY <1>1 DEF Closed
  <1> QED
    BY <1>1, <1>2, NotReached

-----------------------------------------------------------------------------
(* What the type invariant says of an actor.                               *)

Ops == {"set", "add", "drop", "read", "poll", "boot"}

LEMMA Fields ==
    ASSUME TypeOK, NEW a \in Actor
    PROVE  /\ req[a].op \in Ops \cup {"none"}
           /\ req[a] = NoRequest <=> Is(a, "none")
           /\ ~Is(a, "none") => req[a].at \in Replica
           /\ Is(a, "set") => /\ req[a].role \in Role /\ req[a].perms \in SUBSET Permission
                              /\ req[a].expected \in SUBSET Nat
           /\ Is(a, "add") \/ Is(a, "drop") =>
                /\ req[a].role \in Role /\ req[a].parent \in Role
                /\ req[a].expected \in SUBSET Nat
           /\ pc[a] \in Statement /\ tx[a] \in Tx
           /\ tx[a].version \in Nat /\ tx[a].before \in Nat
           /\ tx[a].rows \in Policy /\ tx[a].tries \in Nat
  <1>1. req[a] \in Request \cup {NoRequest} /\ tx[a] \in Tx /\ pc[a] \in Statement
    BY DEF TypeOK
  <1>2. req[a].op \in Ops \cup {"none"} /\ (req[a] = NoRequest <=> Is(a, "none"))
    BY <1>1 DEF Request, NoRequest, Ops, Is
  <1>3. /\ ~Is(a, "none") => req[a].at \in Replica
        /\ Is(a, "set") => /\ req[a].role \in Role /\ req[a].perms \in SUBSET Permission
                           /\ req[a].expected \in SUBSET Nat
    BY <1>1 DEF Request, NoRequest, Is
  <1>4. Is(a, "add") \/ Is(a, "drop") =>
          /\ req[a].role \in Role /\ req[a].parent \in Role
          /\ req[a].expected \in SUBSET Nat
    BY <1>1 DEF Request, NoRequest, Is
  <1>5. /\ tx[a].version \in Nat /\ tx[a].before \in Nat
        /\ tx[a].rows \in Policy /\ tx[a].tries \in Nat
    BY <1>1 DEF Tx
  <1> QED
    BY <1>1, <1>2, <1>3, <1>4, <1>5

(* Where an actor can be, by what it was asked for.                        *)
LEMMA KindOf ==
    ASSUME TypeOK, NEW a \in Actor, FollowsRoute(a)
    PROVE  /\ pc[a] \in {"idle", "down"} <=> Is(a, "none")
           /\ pc[a] = "catalog" => Is(a, "set")
           /\ pc[a] = "rows" => Is(a, "set") \/ Is(a, "add")
           /\ pc[a] \in {"lock", "commit"} => Writes(a)
           /\ pc[a] \in {"poll", "compare"} => Is(a, "poll")
           /\ pc[a] = "slot" => Writes(a) \/ Is(a, "poll")
           /\ Writes(a) \/ Is(a, "read") => a \in Proc
           /\ Is(a, "poll") \/ Is(a, "boot") => a \in Replica
           /\ pc[a] = "publish" => ~Is(a, "read")
           /\ Is(a, "boot") => pc[a] \in Loading
           /\ Is(a, "read") => pc[a] \in Loading
  <1>1. req[a].op \in Ops \cup {"none"} /\ pc[a] \in Route[req[a].op] /\ a \in Proc \cup Replica
    BY Fields DEF FollowsRoute, Actor
  <1> QED
    BY <1>1 DEF Route, Loading, Is, Writes, Ops, FollowsRoute

(* The order of the statements.                                            *)
LEMMA NextStatement ==
    ASSUME NEW op \in Ops
    PROVE  /\ After("set", "lock") = "catalog" /\ After("add", "lock") = "rows"
           /\ After("drop", "lock") = "commit"
           /\ After(op, "catalog") = "rows" /\ After(op, "rows") = "commit"
           /\ After(op, "commit") = "slot" /\ After(op, "poll") = "compare"
           /\ After(op, "compare") = "slot" /\ After(op, "slot") = "before"
           /\ After(op, "before") = "load" /\ After(op, "load") = "after"
           /\ After(op, "after") = "publish"
  BY DEF After

LEMMA EmptyRows == Unloaded.policy \in Policy /\ Unloaded \in Snapshot /\ NoTx \in Tx
  BY DEF Unloaded, Policy, Snapshot, NoTx, Tx

LEMMA InitInv == Init => IInv
  <1> SUFFICES ASSUME Init PROVE IInv
    OBVIOUS
  <1> USE DEF Init, LedgerInit
  <1>1. policy \in Policy /\ Acyclic(policy.parents)
    BY PolicyAssumption
  <1>2. TypeOK
    <2>1. audit \in Seq(AuditEntry)
      OBVIOUS
    <2>2. past \subseteq Snapshot
      BY <1>1 DEF Snapshot
    <2> QED
      BY <1>1, <2>1, <2>2, EmptyRows DEF TypeOK, Statement
  <1>3. OnRoute
    <2>1. \A a \in Actor : Is(a, "none") /\ pc[a] = IF a \in Replica THEN "down" ELSE "idle"
      BY DEF Is, NoRequest
    <2> QED
      BY <2>1, ActorAssumption DEF OnRoute, FollowsRoute, Route, Is, Running
  <1>4. LocksHeld
    BY ActorAssumption DEF LocksHeld, InTransaction, HoldsSlot, Loading, Actor
  <1>5. Checked
    BY ActorAssumption DEF Checked, Found, InTransaction, SharesCatalog, Actor
  <1>6. LoadsSound
    BY DEF LoadsSound, LoadSound, NoTx
  <1>7. History
    BY DEF History
  <1>8. AuditTrail
    BY DEF AuditTrail
  <1>9. EnforcedHeld
    BY DEF EnforcedHeld, Running
  <1> QED
    BY <1>1, <1>2, <1>3, <1>4, <1>5, <1>6, <1>7, <1>8, <1>9 DEF IInv, InheritanceAcyclic

-----------------------------------------------------------------------------
(* Steps of one actor that leave the database and the enforcers alone.     *)

LEMMA Elsewhere ==
    ASSUME NEW b \in Actor, UNCHANGED enforced,
           pc'[b] = pc[b], req'[b] = req[b], FollowsRoute(b)
    PROVE  FollowsRoute(b)'
  BY DEF FollowsRoute, Is, Running, Route, Loading

LEMMA OneMoves ==
    ASSUME IInv, NEW a \in Actor, UNCHANGED ledgerVars,
           pc' \in [Actor -> Statement], req' \in [Actor -> Request \cup {NoRequest}],
           tx' \in [Actor -> Tx],
           \A b \in Actor \ {a} : pc'[b] = pc[b] /\ req'[b] = req[b] /\ tx'[b] = tx[b],
           stateLock' \in Proc \cup {NoActor}, slot' \in [Replica -> Actor \cup {NoActor}],
           adapterVersion' \in [Replica -> Nat],
           \A b \in Actor \ {a} : pc[b] = "publish" =>
              adapterVersion'[req[b].at] = adapterVersion[req[b].at],
           FollowsRoute(a)', LocksHeld', a \in Proc => Found(a)', LoadSound(a)'
    PROVE  IInv'
  <1> USE DEF IInv
  <1>1. UNCHANGED <<policy, version, audit, known, past, enforced>>
    BY DEF ledgerVars
  <1>2. TypeOK'
    BY <1>1 DEF TypeOK
  <1>3. OnRoute'
    BY <1>1, Elsewhere DEF OnRoute
  <1>4. Checked'
    <2>1. ASSUME NEW p \in Proc \ {a} PROVE Found(p)'
      BY <1>1 DEF Checked, Found, InTransaction, SharesCatalog, Unknown, Is, Actor
    <2> QED
      BY <2>1 DEF Checked
  <1>5. LoadsSound'
    <2>1. ASSUME NEW b \in Actor \ {a} PROVE LoadSound(b)'
      BY <1>1 DEF LoadsSound, LoadSound
    <2> QED
      BY <2>1 DEF LoadsSound
  <1>6. History' /\ InheritanceAcyclic' /\ AuditTrail' /\ EnforcedHeld'
    BY <1>1 DEF History, InheritanceAcyclic, AuditTrail, EnforcedHeld, Running
  <1> QED
    BY <1>2, <1>3, <1>4, <1>5, <1>6

(* The locks stay with those that hold them.                               *)
LEMMA SameLocks ==
    ASSUME LocksHeld, NEW a \in Actor, UNCHANGED <<stateLock, slot>>,
           \A b \in Actor \ {a} : pc'[b] = pc[b] /\ req'[b] = req[b],
           InTransaction(a)' <=> InTransaction(a),
           \A r \in Replica : HoldsSlot(a, r)' <=> HoldsSlot(a, r)
    PROVE  LocksHeld'
  BY DEF LocksHeld, InTransaction, HoldsSlot, Is, Actor

(* A request, a start or a tick.                                           *)
LEMMA BeginKeeps ==
    ASSUME IInv, NEW a \in Actor, NEW s, NEW r \in Request,
           pc[a] \in {"idle", "down"}, s \in Route[r.op], s \in {"lock", "poll", "before"},
           r.op \in {"read", "boot"} <=> s = "before",
           a \in Proc => r.op \notin {"poll", "boot"},
           a \in Replica => r.op \in {"poll", "boot"} /\ r.at = a,
           r.op = "boot" <=> r.at \notin Running,
           Begin(a, s, r)
    PROVE  IInv'
  <1> USE DEF IInv
  <1>1. /\ pc' \in [Actor -> Statement] /\ req' \in [Actor -> Request \cup {NoRequest}]
        /\ pc'[a] = s /\ req'[a] = r
        /\ \A b \in Actor \ {a} : pc'[b] = pc[b] /\ req'[b] = req[b]
    BY DEF Begin, Goto, TypeOK, Statement
  <1>2. UNCHANGED <<policy, version, audit, known, past, enforced,
                    stateLock, slot, adapterVersion, tx>>
    BY DEF Begin, ledgerVars, memory
  <1>3. Is(a, "none") /\ r.op \in Ops
    <2>1. r.op \in Ops
      BY DEF Request, Ops
    <2> QED
      BY <2>1, KindOf DEF OnRoute
  <1>4. FollowsRoute(a)'
    <2>1. Running' = Running
      BY <1>2 DEF Running
    <2> QED
      BY <1>1, <1>3, <2>1, ActorAssumption DEF FollowsRoute, Is, Ops, Route
  <1>5. LocksHeld'
    BY <1>1, <1>2, <1>3, SameLocks DEF InTransaction, HoldsSlot, Loading, Is
  <1>6. a \in Proc => Found(a)'
    BY <1>1 DEF Found, InTransaction, SharesCatalog
  <1>7. LoadSound(a)'
    BY <1>1, <1>2 DEF LoadsSound, LoadSound
  <1> QED
    BY <1>1, <1>2, <1>4, <1>5, <1>6, <1>7, OneMoves DEF ledgerVars, TypeOK

LEMMA BeginInv ==
    ASSUME IInv
    PROVE  /\ \A p \in Proc : BeginSet(p) \/ BeginInherit(p) \/ BeginRead(p) => IInv'
           /\ \A r \in Replica : Boot(r) \/ Tick(r) => IInv'
  <1> USE DEF IInv
  <1>0. version \in Nat /\ \A e \in Expected : e \in SUBSET Nat
    BY DEF TypeOK, Expected
  <1>1. ASSUME NEW p \in Proc, BeginSet(p) PROVE IInv'
    <2>1. PICK r \in Running, role \in Role, perms \in SUBSET Permission, e \in Expected :
            Begin(p, "lock", [op |-> "set", at |-> r, role |-> role,
                              perms |-> perms, expected |-> e])
      BY <1>1 DEF BeginSet
    <2> DEFINE q == [op |-> "set", at |-> r, role |-> role, perms |-> perms, expected |-> e]
    <2>2. q \in Request /\ q.op = "set" /\ q.at = r /\ "lock" \in Route[q.op]
      BY <1>0 DEF Request, Running, Route
    <2>3. pc[p] = "idle" /\ p \in Actor /\ p \notin Replica
      BY <1>1, ActorAssumption DEF BeginSet, Actor
    <2>4. Begin(p, "lock", q)
      BY <2>1
    <2> HIDE DEF q
    <2> QED
      BY <2>2, <2>3, <2>4, BeginKeeps
  <1>2. ASSUME NEW p \in Proc, BeginInherit(p) PROVE IInv'
    <2>1. PICK r \in Running, op \in {"add", "drop"}, child \in Role, e \in Expected :
            \E parent \in Role \ {child} :
              Begin(p, "lock", [op |-> op, at |-> r, role |-> child,
                                parent |-> parent, expected |-> e])
      BY <1>2 DEF BeginInherit
    <2>2. PICK parent \in Role \ {child} :
              Begin(p, "lock", [op |-> op, at |-> r, role |-> child,
                                parent |-> parent, expected |-> e])
      BY <2>1
    <2> DEFINE q == [op |-> op, at |-> r, role |-> child, parent |-> parent, expected |-> e]
    <2>3. q \in Request /\ q.op = op /\ q.at = r /\ "lock" \in Route[q.op]
      BY <1>0 DEF Request, Running, Route
    <2>4. pc[p] = "idle" /\ p \in Actor /\ p \notin Replica
      BY <1>2, ActorAssumption DEF BeginInherit, Actor
    <2>5. Begin(p, "lock", q)
      BY <2>2
    <2> HIDE DEF q
    <2> QED
      BY <2>3, <2>4, <2>5, BeginKeeps
  <1>3. ASSUME NEW p \in Proc, BeginRead(p) PROVE IInv'
    <2>1. PICK r \in Running : Begin(p, "before", [op |-> "read", at |-> r])
      BY <1>3 DEF BeginRead
    <2> DEFINE q == [op |-> "read", at |-> r]
    <2>2. q \in Request /\ q.op = "read" /\ q.at = r /\ "before" \in Route[q.op]
      BY DEF Request, Running, Route
    <2>3. pc[p] = "idle" /\ p \in Actor /\ p \notin Replica
      BY <1>3, ActorAssumption DEF BeginRead, Actor
    <2>4. Begin(p, "before", q)
      BY <2>1
    <2> HIDE DEF q
    <2> QED
      BY <2>2, <2>3, <2>4, BeginKeeps
  <1>4. ASSUME NEW r \in Replica, Boot(r) PROVE IInv'
    <2> DEFINE q == [op |-> "boot", at |-> r]
    <2>1. q \in Request /\ q.op = "boot" /\ q.at = r /\ "before" \in Route[q.op]
      BY DEF Request, Route, Loading
    <2>2. pc[r] = "down" /\ r \in Actor /\ r \notin Proc /\ r \notin Running
      BY <1>4, ActorAssumption DEF Boot, Actor, OnRoute, FollowsRoute
    <2>3. Begin(r, "before", q)
      BY <1>4 DEF Boot
    <2> HIDE DEF q
    <2> QED
      BY <2>1, <2>2, <2>3, BeginKeeps
  <1>5. ASSUME NEW r \in Replica, Tick(r) PROVE IInv'
    <2> DEFINE q == [op |-> "poll", at |-> r]
    <2>1. q \in Request /\ q.op = "poll" /\ q.at = r /\ "poll" \in Route[q.op]
      BY DEF Request, Route
    <2>2. pc[r] = "idle" /\ r \in Actor /\ r \notin Proc /\ r \in Running
      BY <1>5, ActorAssumption DEF Tick, Actor, OnRoute, FollowsRoute
    <2>3. Begin(r, "poll", q)
      BY <1>5 DEF Tick
    <2> HIDE DEF q
    <2> QED
      BY <2>1, <2>2, <2>3, BeginKeeps
  <1> QED
    BY <1>1, <1>2, <1>3, <1>4, <1>5

-----------------------------------------------------------------------------
(* One statement of a request.                                             *)

(* The next statement is on the way of the request.                        *)
LEMMA AdvanceKeepsRoute ==
    ASSUME TypeOK, NEW a \in Actor, FollowsRoute(a), UNCHANGED <<enforced, req>>,
           pc[a] \notin {"idle", "down", "publish"},
           Is(a, "read") => pc[a] # "after",
           Advance(a)
    PROVE  /\ pc' \in [Actor -> Statement] /\ pc'[a] = After(req[a].op, pc[a])
           /\ \A b \in Actor \ {a} : pc'[b] = pc[b] /\ req'[b] = req[b]
           /\ pc'[a] \notin {"idle", "down"} /\ ~Is(a, "none")
           /\ FollowsRoute(a)'
  <1>1. req[a].op \in Ops /\ ~Is(a, "none")
    BY KindOf, Fields DEF Is
  <1>2. pc[a] \in Route[req[a].op]
    BY DEF FollowsRoute
  <1>3. After(req[a].op, pc[a]) \in Route[req[a].op] \ {"idle", "down"}
    BY <1>1, <1>2, NextStatement DEF Ops, Route, Loading, Is
  <1>4. After(req[a].op, pc[a]) \in Statement
    BY <1>1, <1>3 DEF Ops, Route, Loading, Statement
  <1>5. /\ pc' \in [Actor -> Statement] /\ pc'[a] = After(req[a].op, pc[a])
        /\ \A b \in Actor \ {a} : pc'[b] = pc[b]
    BY <1>4 DEF Advance, Goto, TypeOK
  <1>6. Running' = Running
    BY DEF Running
  <1>7. FollowsRoute(a)'
    BY <1>1, <1>3, <1>5, <1>6 DEF FollowsRoute, Is
  <1> QED
    BY <1>1, <1>3, <1>5, <1>7

(* A writer locks the state row.                                           *)
LEMMA LockStateKeeps ==
    ASSUME IInv, NEW p \in Proc, LockState(p)
    PROVE  IInv'
  <1> USE DEF IInv
  <1>0. p \in Actor /\ FollowsRoute(p) /\ pc[p] = "lock" /\ stateLock = NoActor /\ ~Conflict(p)
    BY DEF Actor, OnRoute, LockState
  <1>1. /\ UNCHANGED <<policy, version, audit, known, past, enforced, slot, adapterVersion, req>>
        /\ stateLock' = p /\ Advance(p)
    BY DEF LockState, ledgerVars, memory
  <1>2. Writes(p) /\ ~Is(p, "read")
    BY <1>0, KindOf DEF Writes, Is
  <1>3. /\ pc' \in [Actor -> Statement] /\ pc'[p] = After(req[p].op, "lock")
        /\ \A b \in Actor \ {p} : pc'[b] = pc[b] /\ req'[b] = req[b]
        /\ FollowsRoute(p)'
    BY <1>0, <1>1, <1>2, AdvanceKeepsRoute
  <1>4. /\ tx' \in [Actor -> Tx] /\ tx'[p].version = version
        /\ \A b \in Actor \ {p} : tx'[b] = tx[b]
    BY <1>0, Fields DEF LockState, TypeOK, Tx
  <1>5. /\ pc'[p] \in {"catalog", "rows", "commit"}
        /\ Is(p, "set") => pc'[p] = "catalog"
        /\ pc'[p] = "commit" => Is(p, "drop")
    BY <1>2, <1>3, NextStatement DEF Writes, Is, Ops
  <1>6. LocksHeld'
    <2>1. \A q \in Proc : stateLock' = q <=> InTransaction(q)'
      BY <1>0, <1>1, <1>3, <1>5, ActorAssumption DEF LocksHeld, InTransaction, Actor
    <2>2. \A b \in Actor, r \in Replica : HoldsSlot(b, r)' <=> HoldsSlot(b, r)
      BY <1>0, <1>1, <1>3, <1>5 DEF HoldsSlot, Loading, Is
    <2> QED
      BY <1>1, <2>1, <2>2 DEF LocksHeld
  <1>7. Found(p)'
    BY <1>0, <1>1, <1>4, <1>5 DEF Found, InTransaction, SharesCatalog, Conflict, Is
  <1>8. LoadSound(p)'
    BY <1>0, <1>1, <1>4, <1>5 DEF LoadSound, TypeOK
  <1> QED
    BY <1>0, <1>1, <1>3, <1>4, <1>6, <1>7, <1>8, OneMoves DEF ledgerVars, TypeOK

LEMMA CheckCatalogKeeps ==
    ASSUME IInv, NEW p \in Proc, CheckCatalog(p)
    PROVE  IInv'
  <1> USE DEF IInv
  <1>0. p \in Actor /\ FollowsRoute(p) /\ pc[p] = "catalog" /\ ~Unknown(p)
    BY DEF Actor, OnRoute, CheckCatalog
  <1>1. /\ UNCHANGED <<policy, version, audit, known, past, enforced,
                       stateLock, slot, adapterVersion, req, tx>>
        /\ Advance(p)
    BY DEF CheckCatalog, ledgerVars, memory
  <1>2. Is(p, "set") /\ ~Is(p, "read")
    BY <1>0, KindOf DEF Is
  <1>3. /\ pc' \in [Actor -> Statement] /\ pc'[p] = After(req[p].op, "catalog")
        /\ \A b \in Actor \ {p} : pc'[b] = pc[b] /\ req'[b] = req[b]
        /\ FollowsRoute(p)'
    BY <1>0, <1>1, <1>2, AdvanceKeepsRoute
  <1>4. pc'[p] = "rows"
    BY <1>2, <1>3, NextStatement DEF Is, Ops
  <1>5. LocksHeld'
    BY <1>0, <1>1, <1>3, <1>4, SameLocks DEF InTransaction, HoldsSlot, Loading
  <1>6. Found(p)'
    BY <1>0, <1>1, <1>4 DEF Checked, Found, InTransaction, SharesCatalog, Unknown, Is
  <1>7. LoadSound(p)'
    BY <1>0, <1>1, <1>4 DEF LoadsSound, LoadSound
  <1> QED
    BY <1>0, <1>1, <1>3, <1>5, <1>6, <1>7, OneMoves DEF ledgerVars, TypeOK

LEMMA ReadRowsKeeps ==
    ASSUME IInv, NEW p \in Proc, ReadRows(p)
    PROVE  IInv'
  <1> USE DEF IInv
  <1>0. p \in Actor /\ FollowsRoute(p) /\ pc[p] = "rows"
    BY DEF Actor, OnRoute, ReadRows
  <1>1. /\ UNCHANGED <<policy, version, audit, known, past, enforced,
                       stateLock, slot, adapterVersion, req>>
        /\ Advance(p)
    BY DEF ReadRows, ledgerVars, memory
  <1>2. Writes(p) /\ ~Is(p, "read")
    BY <1>0, KindOf DEF Is, Writes
  <1>3. /\ pc' \in [Actor -> Statement] /\ pc'[p] = After(req[p].op, "rows")
        /\ \A b \in Actor \ {p} : pc'[b] = pc[b] /\ req'[b] = req[b]
        /\ FollowsRoute(p)'
    BY <1>0, <1>1, <1>2, AdvanceKeepsRoute
  <1>4. pc'[p] = "commit"
    BY <1>2, <1>3, NextStatement DEF Writes, Ops
  <1>5. /\ tx' \in [Actor -> Tx] /\ tx'[p].version = tx[p].version /\ tx'[p].rows = policy
        /\ \A b \in Actor \ {p} : tx'[b] = tx[b]
    BY <1>0, Fields DEF ReadRows, TypeOK, Tx
  <1>6. LocksHeld'
    BY <1>0, <1>1, <1>3, <1>4, SameLocks DEF InTransaction, HoldsSlot, Loading
  <1>7. Found(p)'
    BY <1>0, <1>1, <1>4, <1>5 DEF Checked, Found, InTransaction, SharesCatalog, Unknown, Is
  <1>8. LoadSound(p)'
    BY <1>0, <1>1, <1>4, <1>5 DEF LoadsSound, LoadSound
  <1> QED
    BY <1>0, <1>1, <1>3, <1>5, <1>6, <1>7, <1>8, OneMoves DEF ledgerVars, TypeOK

(* Nothing to write: the transaction ends with the version it has locked.  *)
LEMMA CommitSameKeeps ==
    ASSUME IInv, NEW p \in Proc, CommitSame(p)
    PROVE  IInv'
  <1> USE DEF IInv
  <1>0. p \in Actor /\ FollowsRoute(p) /\ pc[p] = "commit"
    BY DEF Actor, OnRoute, CommitSame
  <1>1. /\ UNCHANGED <<policy, version, audit, known, past, enforced,
                       slot, adapterVersion, req>>
        /\ Advance(p) /\ stateLock' = NoActor
    BY DEF CommitSame, ledgerVars, memory
  <1>2. Writes(p) /\ ~Is(p, "read")
    BY <1>0, KindOf DEF Is, Writes
  <1>3. /\ pc' \in [Actor -> Statement] /\ pc'[p] = After(req[p].op, "commit")
        /\ \A b \in Actor \ {p} : pc'[b] = pc[b] /\ req'[b] = req[b]
        /\ FollowsRoute(p)'
    BY <1>0, <1>1, <1>2, AdvanceKeepsRoute
  <1>4. pc'[p] = "slot"
    BY <1>2, <1>3, NextStatement DEF Writes, Ops
  <1>5. /\ tx' \in [Actor -> Tx] /\ tx'[p].version = tx[p].version
        /\ \A b \in Actor \ {p} : tx'[b] = tx[b]
    BY <1>0, Fields, EmptyRows DEF CommitSame, TypeOK, Tx, NoTx
  <1>6. LocksHeld'
    <2>1. \A q \in Proc : ~InTransaction(q)'
      BY <1>0, <1>3, <1>4 DEF LocksHeld, InTransaction, Actor
    <2>2. \A b \in Actor, r \in Replica : HoldsSlot(b, r)' <=> HoldsSlot(b, r)
      BY <1>0, <1>1, <1>3, <1>4 DEF HoldsSlot, Loading, Is
    <2> QED
      BY <1>1, <2>1, <2>2, ActorAssumption DEF LocksHeld
  <1>7. Found(p)'
    BY <1>4 DEF Found, InTransaction, SharesCatalog
  <1>8. LoadSound(p)'
    BY <1>0, <1>1, <1>4, <1>5 DEF LoadsSound, LoadSound
  <1> QED
    BY <1>0, <1>1, <1>3, <1>5, <1>6, <1>7, <1>8, OneMoves DEF ledgerVars, TypeOK

-----------------------------------------------------------------------------
(* One step of the reconciler or of a load.                                *)

(* A replica is reloaded by one actor at a time.                           *)
LEMMA Alone ==
    ASSUME IInv, NEW a \in Actor, NEW b \in Actor,
           pc[a] \in Loading, pc[b] \in Loading, ~Is(a, "read"), ~Is(b, "read"),
           req[a].at = req[b].at
    PROVE  a = b
  <1> USE DEF IInv
  <1>1. /\ FollowsRoute(a) /\ FollowsRoute(b) /\ ~Is(a, "none") /\ ~Is(b, "none")
        /\ req[a].at \in Replica /\ req[b].at \in Replica
    <2>1. FollowsRoute(a) /\ FollowsRoute(b)
      BY DEF OnRoute
    <2>2. ~Is(a, "none") /\ ~Is(b, "none")
      BY <2>1, KindOf DEF Loading
    <2> QED
      BY <2>1, <2>2, Fields
  <1>2. CASE Is(a, "boot")
    BY <1>1, <1>2, KindOf DEF FollowsRoute
  <1>3. CASE ~Is(a, "boot")
    <2>1. HoldsSlot(a, req[a].at) /\ HoldsSlot(b, req[a].at)
      BY <1>1, <1>3 DEF FollowsRoute, HoldsSlot
    <2> QED
      BY <1>1, <2>1 DEF LocksHeld
  <1> QED
    BY <1>2, <1>3

LEMMA PollKeeps ==
    ASSUME IInv, NEW a \in Replica, Poll(a) \/ Compare(a)
    PROVE  IInv'
  <1> USE DEF IInv
  <1>0. a \in Actor /\ a \notin Proc /\ FollowsRoute(a) /\ pc[a] \in {"poll", "compare"}
    BY ActorAssumption DEF Actor, OnRoute, Poll, Compare
  <1>1. /\ UNCHANGED <<policy, version, audit, known, past, enforced,
                       stateLock, slot, adapterVersion, req>>
        /\ Advance(a)
    BY DEF Poll, Compare, ledgerVars, memory
  <1>2. Is(a, "poll") /\ ~Is(a, "read")
    BY <1>0, KindOf DEF Is
  <1>3. /\ pc' \in [Actor -> Statement] /\ pc'[a] = After(req[a].op, pc[a])
        /\ \A b \in Actor \ {a} : pc'[b] = pc[b] /\ req'[b] = req[b]
        /\ FollowsRoute(a)'
    BY <1>0, <1>1, <1>2, AdvanceKeepsRoute
  <1>4. pc'[a] \in {"compare", "slot"}
    BY <1>0, <1>2, <1>3, NextStatement DEF Is, Ops
  <1>5. /\ tx' \in [Actor -> Tx] /\ tx'[a].version \in {version, tx[a].version}
        /\ \A b \in Actor \ {a} : tx'[b] = tx[b]
    <2>1. version \in Nat /\ tx[a] \in Tx
      BY <1>0 DEF TypeOK
    <2>2. CASE Poll(a)
      BY <1>0, <2>1, <2>2 DEF Poll, TypeOK, Tx
    <2>3. CASE Compare(a)
      BY <2>1, <2>3 DEF Compare, TypeOK
    <2> QED
      BY <2>2, <2>3
  <1>6. LocksHeld'
    BY <1>0, <1>1, <1>3, <1>4, SameLocks DEF InTransaction, HoldsSlot, Loading
  <1>7. LoadSound(a)'
    <2>1. LoadSound(a) /\ version <= version
      BY <1>0 DEF LoadsSound, TypeOK
    <2> QED
      BY <1>1, <1>4, <1>5, <2>1 DEF LoadSound
  <1> QED
    BY <1>0, <1>1, <1>3, <1>5, <1>6, <1>7, OneMoves DEF ledgerVars, TypeOK

LEMMA TakeSlotKeeps ==
    ASSUME IInv, NEW a \in Actor, TakeSlot(a)
    PROVE  IInv'
  <1> USE DEF IInv
  <1>0. FollowsRoute(a) /\ pc[a] = "slot" /\ slot[req[a].at] = NoActor
    BY DEF OnRoute, TakeSlot
  <1>1. /\ UNCHANGED <<policy, version, audit, known, past, enforced,
                       stateLock, adapterVersion, req, tx>>
        /\ slot' = [slot EXCEPT ![req[a].at] = a] /\ Advance(a)
    BY DEF TakeSlot, ledgerVars
  <1>2. ~Is(a, "read") /\ ~Is(a, "boot") /\ req[a].op \in Ops /\ req[a].at \in Replica
    <2>1. ~Is(a, "read") /\ ~Is(a, "boot") /\ ~Is(a, "none")
      BY <1>0, KindOf DEF Loading
    <2> QED
      BY <2>1, Fields DEF Is
  <1>3. /\ pc' \in [Actor -> Statement] /\ pc'[a] = After(req[a].op, "slot")
        /\ \A b \in Actor \ {a} : pc'[b] = pc[b] /\ req'[b] = req[b]
        /\ FollowsRoute(a)'
    BY <1>0, <1>1, <1>2, AdvanceKeepsRoute
  <1>4. pc'[a] = "before"
    BY <1>2, <1>3, NextStatement
  <1>5. slot' \in [Replica -> Actor \cup {NoActor}]
    BY <1>1 DEF TypeOK
  <1>6. LocksHeld'
    <2>1. \A p \in Proc : InTransaction(p)' <=> InTransaction(p)
      BY <1>0, <1>3, <1>4 DEF InTransaction, Actor
    <2>2. \A r \in Replica : HoldsSlot(a, r)' <=> r = req[a].at
      BY <1>1, <1>2, <1>4 DEF HoldsSlot, Loading, Is
    <2>3. \A r \in Replica : ~HoldsSlot(a, r)
      BY <1>0 DEF HoldsSlot, Loading
    <2>4. \A b \in Actor \ {a}, r \in Replica : HoldsSlot(b, r)' <=> HoldsSlot(b, r)
      BY <1>3 DEF HoldsSlot, Is
    <2>5. \A b \in Actor \ {a} : ~HoldsSlot(b, req[a].at)
      BY <1>0, <1>2, ActorAssumption DEF LocksHeld, Actor
    <2>6. \A r \in Replica : slot'[r] = IF r = req[a].at THEN a ELSE slot[r]
      BY <1>1 DEF TypeOK
    <2>7. ASSUME NEW b \in Actor, NEW r \in Replica
          PROVE  slot'[r] = b <=> HoldsSlot(b, r)'
      <3>1. CASE r = req[a].at
        BY <2>2, <2>4, <2>5, <2>6, <3>1
      <3>2. CASE r # req[a].at
        BY <2>2, <2>3, <2>4, <2>6, <3>2 DEF LocksHeld
      <3> QED
        BY <3>1, <3>2
    <2> QED
      BY <1>1, <2>1, <2>7 DEF LocksHeld
  <1>7. Found(a)'
    BY <1>4 DEF Found, InTransaction, SharesCatalog
  <1>8. LoadSound(a)'
    BY <1>0, <1>1, <1>4 DEF LoadsSound, LoadSound
  <1> QED
    BY <1>0, <1>1, <1>3, <1>5, <1>6, <1>7, <1>8, OneMoves DEF ledgerVars, TypeOK

(* The version, the rules, and the version again: what has been read is    *)
(* the policy of a version if that has not moved on meanwhile.             *)
LEMMA ReadKeeps ==
    ASSUME IInv, NEW a \in Actor, ReadBefore(a) \/ LoadRows(a) \/ ReadAfter(a)
    PROVE  IInv'
  <1> USE DEF IInv
  <1>0. FollowsRoute(a) /\ pc[a] \in {"before", "load", "after"}
    BY DEF OnRoute, ReadBefore, LoadRows, ReadAfter
  <1>1. /\ UNCHANGED <<policy, version, audit, known, past, enforced, stateLock, slot, req>>
        /\ Advance(a) /\ (Is(a, "read") => pc[a] # "after")
    BY DEF ReadBefore, LoadRows, ReadAfter, ledgerVars, memory
  <1>2. req[a].op \in Ops /\ req[a].at \in Replica
    <2>1. ~Is(a, "none")
      BY <1>0, KindOf
    <2> QED
      BY <2>1, Fields DEF Is
  <1>3. /\ pc' \in [Actor -> Statement] /\ pc'[a] = After(req[a].op, pc[a])
        /\ \A b \in Actor \ {a} : pc'[b] = pc[b] /\ req'[b] = req[b]
        /\ FollowsRoute(a)'
    BY <1>0, <1>1, AdvanceKeepsRoute
  <1>4. /\ pc[a] = "before" => pc'[a] = "load"
        /\ pc[a] = "load" => pc'[a] = "after"
        /\ pc[a] = "after" => pc'[a] = "publish"
    BY <1>2, <1>3, NextStatement
  <1>5. /\ tx' \in [Actor -> Tx] /\ tx'[a].version = tx[a].version
        /\ \A b \in Actor \ {a} : tx'[b] = tx[b]
        /\ pc[a] = "before" => tx'[a].before = version /\ adapterVersion' = adapterVersion
        /\ pc[a] = "load" => tx'[a].before = tx[a].before /\ tx'[a].rows = policy
                               /\ adapterVersion' = adapterVersion
        /\ pc[a] = "after" => tx' = tx
    <2>1. version \in Nat /\ policy \in Policy /\ tx[a] \in Tx
      BY DEF TypeOK
    <2>2. CASE ReadBefore(a)
      BY <2>1, <2>2 DEF ReadBefore, TypeOK, Tx, memory
    <2>3. CASE LoadRows(a)
      BY <2>1, <2>3 DEF LoadRows, TypeOK, Tx, memory
    <2>4. CASE ReadAfter(a)
      BY <2>1, <2>4 DEF ReadAfter, TypeOK
    <2> QED
      BY <2>2, <2>3, <2>4
  <1>6. LocksHeld'
    BY <1>0, <1>1, <1>3, <1>4, SameLocks DEF InTransaction, HoldsSlot, Loading, Is
  <1>7. Found(a)'
    BY <1>0, <1>4 DEF Found, InTransaction, SharesCatalog
  <1>8. /\ adapterVersion' \in [Replica -> Nat]
        /\ \A b \in Actor \ {a} : pc[b] = "publish" =>
             adapterVersion'[req[b].at] = adapterVersion[req[b].at]
    <2>1. CASE pc[a] # "after"
      BY <1>0, <1>5, <2>1 DEF TypeOK
    <2>2. CASE pc[a] = "after"
      <3>1. ReadAfter(a) /\ ~Is(a, "read")
        BY <2>2 DEF ReadBefore, LoadRows, ReadAfter
      <3>2. adapterVersion' = [adapterVersion EXCEPT ![req[a].at] = version]
        BY <3>1 DEF ReadAfter
      <3>3. \A b \in Actor \ {a} : pc[b] = "publish" => req[b].at # req[a].at
        BY <2>2, <3>1, Alone, KindOf DEF OnRoute, Loading
      <3> QED
        BY <1>2, <3>2, <3>3 DEF TypeOK
    <2> QED
      BY <2>1, <2>2
  <1>9. LoadSound(a)'
    <2>0. version \in Nat /\ LoadSound(a)
      BY DEF TypeOK, LoadsSound
    <2>1. CASE pc[a] = "before"
      BY <1>1, <1>4, <1>5, <2>0, <2>1 DEF LoadSound
    <2>2. CASE pc[a] = "load"
      BY <1>1, <1>4, <1>5, <2>0, <2>2 DEF LoadSound
    <2>3. CASE pc[a] = "after"
      <3>1. ReadAfter(a)
        BY <2>3 DEF ReadBefore, LoadRows
      <3>2. adapterVersion'[req[a].at] = version /\ tx[a].rows = policy
        BY <1>2, <2>0, <2>3, <3>1 DEF ReadAfter, Stable, TypeOK, LoadSound
      <3>3. enforced[req[a].at].version <= version
        BY <1>2 DEF EnforcedHeld, History, Running, Unloaded, TypeOK, Snapshot
      <3> QED
        BY <1>1, <1>4, <1>5, <2>0, <2>3, <3>2, <3>3 DEF LoadSound, History
    <2> QED
      BY <1>0, <2>1, <2>2, <2>3
  <1> QED
    BY <1>0, <1>1, <1>3, <1>5, <1>6, <1>7, <1>8, <1>9, OneMoves DEF ledgerVars, TypeOK

(* The version has moved on: the rules are read once more.                 *)
LEMMA RetryKeeps ==
    ASSUME IInv, NEW a \in Actor, Retry(a)
    PROVE  IInv'
  <1> USE DEF IInv
  <1>1. /\ FollowsRoute(a) /\ pc[a] = "after"
        /\ UNCHANGED <<policy, version, audit, known, past, enforced,
                       stateLock, slot, adapterVersion, req>>
        /\ pc' \in [Actor -> Statement] /\ pc'[a] = "before"
        /\ \A b \in Actor \ {a} : pc'[b] = pc[b] /\ req'[b] = req[b]
    BY DEF OnRoute, Retry, Goto, TypeOK, Statement, ledgerVars, memory
  <1>2. /\ tx' \in [Actor -> Tx] /\ tx'[a].version = tx[a].version
        /\ \A b \in Actor \ {a} : tx'[b] = tx[b]
    <2> DEFINE again == [tx[a] EXCEPT !.tries = @ + 1, !.before = 0, !.rows = Unloaded.policy]
    <2>0. tx[a].tries \in Nat /\ tx[a] \in Tx
      BY Fields
    <2>1. tx[a].tries + 1 \in Nat /\ Unloaded.policy \in Policy
      BY <2>0, EmptyRows
    <2>2. again \in Tx /\ again.version = tx[a].version
      BY <2>0, <2>1 DEF Tx
    <2>3. tx' = [tx EXCEPT ![a] = again]
      BY DEF Retry
    <2> HIDE DEF again
    <2> QED
      BY <2>2, <2>3 DEF TypeOK
  <1>3. FollowsRoute(a)'
    <2>1. Running' = Running
      BY <1>1 DEF Running
    <2>2. req[a].op \in Ops
      BY <1>1, KindOf, Fields DEF Is
    <2>3. "before" \in Route[req[a].op]
      BY <2>2 DEF Ops, Route, Loading
    <2> QED
      BY <1>1, <2>1, <2>3 DEF FollowsRoute, Is
  <1>4. LocksHeld'
    BY <1>1, SameLocks DEF InTransaction, HoldsSlot, Loading, Is
  <1>5. Found(a)' /\ LoadSound(a)'
    BY <1>1, <1>2 DEF Found, InTransaction, SharesCatalog, LoadsSound, LoadSound
  <1> QED
    BY <1>1, <1>2, <1>3, <1>4, <1>5, OneMoves DEF ledgerVars, TypeOK

-----------------------------------------------------------------------------
(* The end of an actor's work.                                             *)

(* What it held is free, and nobody else's.                                *)
LEMMA FinishKeepsLocks ==
    ASSUME IInv, NEW a \in Actor, NEW s \in {"idle", "down"}, FinishTo(a, s)
    PROVE  /\ pc' \in [Actor -> Statement] /\ req' \in [Actor -> Request \cup {NoRequest}]
           /\ tx' \in [Actor -> Tx]
           /\ pc'[a] = s /\ req'[a] = NoRequest /\ tx'[a] = NoTx
           /\ \A b \in Actor \ {a} : pc'[b] = pc[b] /\ req'[b] = req[b] /\ tx'[b] = tx[b]
           /\ stateLock' \in Proc \cup {NoActor}
           /\ slot' \in [Replica -> Actor \cup {NoActor}]
           /\ LocksHeld'
  <1> USE DEF IInv
  <1>1. /\ pc' \in [Actor -> Statement] /\ req' \in [Actor -> Request \cup {NoRequest}]
        /\ tx' \in [Actor -> Tx]
        /\ pc'[a] = s /\ req'[a] = NoRequest /\ tx'[a] = NoTx
        /\ \A b \in Actor \ {a} : pc'[b] = pc[b] /\ req'[b] = req[b] /\ tx'[b] = tx[b]
    <2>1. s \in Statement /\ NoTx \in Tx
      BY EmptyRows DEF Statement
    <2> QED
      BY <2>1 DEF FinishTo, Goto, TypeOK
  <1>2. /\ stateLock' = IF stateLock = a THEN NoActor ELSE stateLock
        /\ \A r \in Replica : slot'[r] = IF slot[r] = a THEN NoActor ELSE slot[r]
        /\ slot' \in [Replica -> Actor \cup {NoActor}]
    BY DEF FinishTo, TypeOK
  <1>3. LocksHeld'
    <2>1. ~InTransaction(a)' /\ \A r \in Replica : ~HoldsSlot(a, r)'
      BY <1>1 DEF InTransaction, HoldsSlot, Loading
    <2>2. \A b \in Actor \ {a} : /\ InTransaction(b)' <=> InTransaction(b)
                                 /\ \A r \in Replica : HoldsSlot(b, r)' <=> HoldsSlot(b, r)
      BY <1>1 DEF InTransaction, HoldsSlot, Is
    <2>3. a # NoActor /\ \A q \in Proc : q \in Actor /\ q # NoActor
      BY ActorAssumption DEF Actor
    <2>4. \A q \in Proc : stateLock' = q <=> InTransaction(q)'
      BY <1>2, <2>1, <2>2, <2>3 DEF LocksHeld
    <2>5. \A b \in Actor, r \in Replica : slot'[r] = b <=> HoldsSlot(b, r)'
      BY <1>2, <2>1, <2>2, <2>3, ActorAssumption DEF LocksHeld, Actor
    <2> QED
      BY <2>4, <2>5 DEF LocksHeld
  <1> QED
    BY <1>1, <1>2, <1>3 DEF TypeOK

(* An answer, a refusal or a failure: only locks are given back.           *)
LEMMA EndKeeps ==
    ASSUME IInv, NEW a \in Actor, pc[a] \notin {"idle", "down"},
           Finish(a), UNCHANGED <<ledgerVars, adapterVersion>>
    PROVE  IInv'
  <1> USE DEF IInv
  <1> DEFINE s == IF Is(a, "boot") THEN "down" ELSE "idle"
  <1>1. FinishTo(a, s) /\ s \in {"idle", "down"}
    BY DEF Finish
  <1>2. FollowsRoute(a) /\ ~Is(a, "none")
    BY KindOf DEF OnRoute
  <1>3. s = "down" <=> Is(a, "boot")
    OBVIOUS
  <1> HIDE DEF s
  <1>4. Is(a, "none")' /\ pc'[a] = s /\ tx'[a] = NoTx /\ Running' = Running
    BY <1>1, FinishKeepsLocks DEF NoRequest, Is, Running, ledgerVars
  <1>5. FollowsRoute(a)'
    <2>1. Is(a, "boot") => a \in Replica /\ a \notin Running
      BY <1>2, KindOf DEF FollowsRoute
    <2>2. a \in Replica /\ ~Is(a, "boot") => a \in Running
      BY <1>2 DEF FollowsRoute
    <2>3. pc'[a] \in Route["none"]
      BY <1>1, <1>4 DEF Route
    <2> QED
      BY <1>1, <1>3, <1>4, <2>1, <2>2, <2>3, ActorAssumption DEF FollowsRoute, Is
  <1>6. a \in Proc => Found(a)'
    BY <1>1, <1>4 DEF Found, InTransaction, SharesCatalog
  <1>7. LoadSound(a)'
    BY <1>1, <1>4 DEF LoadSound, NoTx, TypeOK, ledgerVars
  <1> QED
    BY <1>1, <1>5, <1>6, <1>7, FinishKeepsLocks, OneMoves DEF TypeOK

-----------------------------------------------------------------------------
(* COMMIT.                                                                 *)

(* One more version, with an entry that tells how it came about.           *)
LEMMA ChangeKeeps ==
    ASSUME IInv, NEW P \in Policy, NEW action, NEW target, NEW before, NEW after,
           NEW e \in AuditEntry,
           e = [version |-> version + 1, action |-> action, target |-> target,
                before |-> before, after |-> after],
           Explains(e, policy, P),
           Change(P, action, target, before, after)
    PROVE  /\ version' = version + 1 /\ policy' = P
           /\ UNCHANGED <<known, enforced>> /\ past \subseteq past'
           /\ audit' \in Seq(AuditEntry) /\ past' \subseteq Snapshot
           /\ History' /\ AuditTrail' /\ EnforcedHeld'
  <1> USE DEF IInv
  <1> DEFINE now == [version |-> version, policy |-> policy]
             next == [version |-> version + 1, policy |-> P]
  <1>1. /\ version' = version + 1 /\ policy' = P
        /\ UNCHANGED <<known, enforced>> /\ past' = past \cup {next}
        /\ audit' = Append(audit, e)
    BY DEF Change
  <1>2. /\ version \in Nat \ {0} /\ audit \in Seq(AuditEntry) /\ past \subseteq Snapshot
        /\ version = Len(audit) + 1 /\ now \in past /\ Len(audit) \in Nat
    BY DEF TypeOK, AuditTrail
  <1>3. next \in Snapshot /\ next.version = version + 1 /\ next.policy = P
    BY <1>2 DEF Snapshot
  <1>4. now.version = version /\ now.policy = policy
    OBVIOUS
  <1>5. [version |-> version', policy |-> policy'] = next
    BY <1>1
  <1> HIDE DEF now, next
  <1>6. audit' \in Seq(AuditEntry) /\ past' \subseteq Snapshot /\ past \subseteq past'
    BY <1>1, <1>2, <1>3
  <1>7. History'
    <2>1. \A s \in past : s.version \in 1 .. version
      BY DEF History
    <2>2. \A s \in past' : s.version \in 1 .. version'
      BY <1>1, <1>2, <1>3, <2>1
    <2>3. \A s, t \in past' : s.version = t.version => s = t
      <3>1. \A s \in past : s.version # next.version
        BY <1>2, <1>3, <2>1
      <3>2. \A s, t \in past : s.version = t.version => s = t
        BY DEF History
      <3> QED
        BY <1>1, <3>1, <3>2
    <2> QED
      BY <1>1, <1>5, <2>2, <2>3 DEF History
  <1>8. AuditTrail'
    <2>1. /\ Len(audit') = Len(audit) + 1
          /\ \A i \in DOMAIN audit : i \in Nat /\ audit'[i] = audit[i]
          /\ audit'[Len(audit) + 1] = e
          /\ DOMAIN audit' = DOMAIN audit \cup {Len(audit) + 1}
      BY <1>1, <1>2
    <2>2. ASSUME NEW i \in DOMAIN audit
          PROVE  /\ audit'[i].version = i + 1
                 /\ \E old, new \in past' :
                      /\ old.version = i /\ new.version = i + 1
                      /\ Explains(audit'[i], old.policy, new.policy)
      BY <1>6, <2>1, <2>2 DEF AuditTrail
    <2>3. /\ audit'[Len(audit) + 1].version = Len(audit) + 1 + 1
          /\ \E old, new \in past' :
               /\ old.version = Len(audit) + 1 /\ new.version = Len(audit) + 1 + 1
               /\ Explains(audit'[Len(audit) + 1], old.policy, new.policy)
      <3>1. e.version = version + 1
        OBVIOUS
      <3>2. now \in past' /\ next \in past'
        BY <1>1, <1>2
      <3> QED
        BY <1>2, <1>3, <1>4, <2>1, <3>1, <3>2
    <2> QED
      BY <1>1, <1>2, <1>5, <2>1, <2>2, <2>3 DEF AuditTrail
  <1>9. EnforcedHeld'
    BY <1>1, <1>6 DEF EnforcedHeld, Running
  <1> QED
    BY <1>1, <1>6, <1>7, <1>8, <1>9

(* Whoever commits is alone in a transaction, and no load that began       *)
(* before is stable after.                                                 *)
LEMMA RecordKeeps ==
    ASSUME IInv, NEW p \in Proc, pc[p] = "commit",
           NEW P \in Policy, Acyclic(P.parents), NEW action, NEW before, NEW after,
           NEW e \in AuditEntry,
           e = [version |-> version + 1, action |-> action, target |-> req[p].role,
                before |-> before, after |-> after],
           Explains(e, policy, P),
           RecordPolicyMutation(p, P, action, before, after)
    PROVE  IInv'
  <1> USE DEF IInv
  <1>0. p \in Actor /\ FollowsRoute(p) /\ version \in Nat \ {0}
    BY DEF Actor, OnRoute, TypeOK
  <1>1. /\ Change(P, action, req[p].role, before, after) /\ stateLock' = NoActor
        /\ UNCHANGED <<slot, adapterVersion, req>> /\ Advance(p)
    BY DEF RecordPolicyMutation, memory
  <1>2. /\ version' = version + 1 /\ policy' = P
        /\ UNCHANGED <<known, enforced>> /\ past \subseteq past'
        /\ audit' \in Seq(AuditEntry) /\ past' \subseteq Snapshot
        /\ History' /\ AuditTrail' /\ EnforcedHeld'
    BY <1>1, ChangeKeeps
  <1>3. Writes(p) /\ ~Is(p, "read")
    BY <1>0, KindOf DEF Is, Writes
  <1>4. /\ pc' \in [Actor -> Statement] /\ pc'[p] = "slot"
        /\ \A b \in Actor \ {p} : pc'[b] = pc[b] /\ req'[b] = req[b]
        /\ FollowsRoute(p)'
    <2>1. /\ pc' \in [Actor -> Statement] /\ pc'[p] = After(req[p].op, "commit")
          /\ \A b \in Actor \ {p} : pc'[b] = pc[b] /\ req'[b] = req[b]
          /\ FollowsRoute(p)'
      BY <1>0, <1>1, <1>2, <1>3, AdvanceKeepsRoute
    <2> QED
      BY <1>3, <2>1, NextStatement DEF Writes, Ops
  <1>5. /\ tx' \in [Actor -> Tx] /\ tx'[p].version = version'
        /\ \A b \in Actor \ {p} : tx'[b] = tx[b]
    <2> DEFINE done == [NoTx EXCEPT !.version = version + 1]
    <2>1. done \in Tx /\ done.version = version + 1
      BY <1>0, EmptyRows DEF Tx, NoTx
    <2>2. tx' = [tx EXCEPT ![p] = done]
      BY DEF RecordPolicyMutation
    <2> HIDE DEF done
    <2> QED
      BY <1>0, <1>2, <2>1, <2>2 DEF TypeOK
  <1>6. TypeOK'
    <2>1. version' \in Nat \ {0}
      BY <1>0, <1>2
    <2> QED
      BY <1>1, <1>2, <1>4, <1>5, <2>1 DEF TypeOK
  <1>7. OnRoute'
    BY <1>2, <1>4, Elsewhere DEF OnRoute
  <1>8. \A q \in Proc : ~InTransaction(q)'
    BY <1>0, <1>4 DEF LocksHeld, InTransaction, Actor
  <1>9. LocksHeld'
    <2>1. \A b \in Actor, r \in Replica : HoldsSlot(b, r)' <=> HoldsSlot(b, r)
      BY <1>0, <1>1, <1>4 DEF HoldsSlot, Loading, Is
    <2> QED
      BY <1>1, <1>8, <2>1, ActorAssumption DEF LocksHeld
  <1>10. Checked'
    BY <1>8 DEF Checked, Found, InTransaction, SharesCatalog
  <1>11. LoadsSound'
    <2>1. LoadSound(p)'
      BY <1>0, <1>2, <1>4, <1>5 DEF LoadSound
    <2>2. ASSUME NEW b \in Actor \ {p} PROVE LoadSound(b)'
      <3>1. LoadSound(b) /\ tx[b].version \in Nat /\ tx[b].before \in Nat
        BY Fields DEF LoadsSound
      <3>2. pc'[b] = pc[b] /\ tx'[b] = tx[b] /\ req'[b] = req[b]
        BY <1>4, <1>5
      <3>3. tx[b].version <= version + 1
        BY <1>0, <3>1 DEF LoadSound
      <3>4. pc[b] \in {"load", "after"} =>
              tx[b].before <= version + 1 /\ tx[b].before # version + 1
        BY <1>0, <3>1 DEF LoadSound
      <3>5. UNCHANGED <<adapterVersion, enforced>> /\ version' = version + 1
        BY <1>1, <1>2
      <3> QED
        BY <1>2, <3>1, <3>2, <3>3, <3>4, <3>5 DEF LoadSound
    <2> QED
      BY <2>1, <2>2 DEF LoadsSound
  <1>12. InheritanceAcyclic'
    BY <1>2 DEF InheritanceAcyclic
  <1> QED
    BY <1>2, <1>6, <1>7, <1>9, <1>10, <1>11, <1>12

LEMMA CommitSetKeeps ==
    ASSUME IInv, NEW p \in Proc, CommitSet(p)
    PROVE  IInv'
  <1> USE DEF IInv
  <1> DEFINE P == WithPermissions(policy, req[p].role, req[p].perms)
             e == [version |-> version + 1, action |-> "replace_role_permissions",
                   target |-> req[p].role,
                   before |-> PermissionsOf(tx[p].rows, req[p].role),
                   after |-> req[p].perms]
  <1>1. /\ p \in Actor /\ pc[p] = "commit" /\ Is(p, "set") /\ tx[p].rows = policy
        /\ policy \in Policy /\ version \in Nat /\ Acyclic(policy.parents)
    BY DEF CommitSet, Actor, Checked, Found, Is, TypeOK, InheritanceAcyclic
  <1>2. req[p].role \in Role /\ req[p].perms \in SUBSET Permission
    BY <1>1, Fields
  <1>3. P \in Policy /\ P.parents = policy.parents
    BY <1>1, <1>2 DEF Policy, WithPermissions
  <1>4. e \in AuditEntry
    BY <1>1, <1>2 DEF AuditEntry, PermissionsOf
  <1>5. Explains(e, policy, P)
    BY <1>1 DEF Explains
  <1>6. RecordPolicyMutation(p, P, "replace_role_permissions",
                             PermissionsOf(tx[p].rows, req[p].role), req[p].perms)
    BY DEF CommitSet
  <1>7. Acyclic(P.parents)
    BY <1>1, <1>3
  <1>8. e = [version |-> version + 1, action |-> "replace_role_permissions",
             target |-> req[p].role,
             before |-> PermissionsOf(tx[p].rows, req[p].role),
             after |-> req[p].perms]
    OBVIOUS
  <1> HIDE DEF P, e
  <1> QED
    BY <1>1, <1>3, <1>4, <1>5, <1>6, <1>7, <1>8, RecordKeeps

LEMMA CommitAddKeeps ==
    ASSUME IInv, NEW p \in Proc, CommitAdd(p)
    PROVE  IInv'
  <1> USE DEF IInv
  <1> DEFINE P == [policy EXCEPT !.parents = @ \cup {Edge(p)}]
             e == [version |-> version + 1, action |-> "add_role_inheritance",
                   target |-> req[p].role, before |-> {}, after |-> {req[p].parent}]
  <1>1. /\ p \in Actor /\ pc[p] = "commit" /\ Is(p, "add") /\ tx[p].rows = policy
        /\ policy \in Policy /\ version \in Nat /\ Acyclic(policy.parents)
        /\ ~Cycle(p) /\ Edge(p) \notin policy.parents
    BY DEF CommitAdd, Actor, Checked, Found, Is, TypeOK, InheritanceAcyclic
  <1>2. req[p].role \in Role /\ req[p].parent \in Role
    BY <1>1, Fields
  <1>3. /\ P \in Policy /\ P.grants = policy.grants
        /\ P.parents = policy.parents \cup {<<req[p].role, req[p].parent>>}
    BY <1>1, <1>2 DEF Policy, Edge
  <1>4. e \in AuditEntry
    BY <1>1, <1>2 DEF AuditEntry
  <1>5. Explains(e, policy, P)
    BY <1>1, <1>3 DEF Explains, Edge
  <1>6. RecordPolicyMutation(p, P, "add_role_inheritance", {}, {req[p].parent})
    BY DEF CommitAdd
  <1>7. Acyclic(P.parents)
    <2>1. policy.parents \in SUBSET (Role \X Role)
      BY <1>1 DEF Policy
    <2>2. ~Reaches(policy.parents, req[p].parent, req[p].role)
      BY <1>1 DEF Cycle
    <2>3. Acyclic(policy.parents \cup {<<req[p].role, req[p].parent>>})
      BY <1>1, <1>2, <2>1, <2>2, AddKeepsAcyclic
    <2> QED
      BY <1>3, <2>3
  <1>8. e = [version |-> version + 1, action |-> "add_role_inheritance",
             target |-> req[p].role, before |-> {}, after |-> {req[p].parent}]
    OBVIOUS
  <1> HIDE DEF P, e
  <1> QED
    BY <1>1, <1>3, <1>4, <1>5, <1>6, <1>7, <1>8, RecordKeeps

LEMMA CommitDropKeeps ==
    ASSUME IInv, NEW p \in Proc, CommitDrop(p)
    PROVE  IInv'
  <1> USE DEF IInv
  <1> DEFINE P == [policy EXCEPT !.parents = @ \ {Edge(p)}]
             e == [version |-> version + 1, action |-> "delete_role_inheritance",
                   target |-> req[p].role, before |-> {req[p].parent}, after |-> {}]
  <1>1. /\ p \in Actor /\ pc[p] = "commit" /\ Is(p, "drop")
        /\ policy \in Policy /\ version \in Nat /\ Acyclic(policy.parents)
        /\ Edge(p) \in policy.parents
    BY DEF CommitDrop, Actor, TypeOK, InheritanceAcyclic
  <1>2. req[p].role \in Role /\ req[p].parent \in Role
    BY <1>1, Fields
  <1>3. /\ P \in Policy /\ P.grants = policy.grants
        /\ P.parents = policy.parents \ {<<req[p].role, req[p].parent>>}
    BY <1>1, <1>2 DEF Policy, Edge
  <1>4. e \in AuditEntry
    BY <1>1, <1>2 DEF AuditEntry
  <1>5. Explains(e, policy, P)
    BY <1>1, <1>3 DEF Explains, Edge
  <1>6. RecordPolicyMutation(p, P, "delete_role_inheritance", {req[p].parent}, {})
    BY DEF CommitDrop
  <1>7. Acyclic(P.parents)
    BY <1>1, <1>3, CutKeepsAcyclic
  <1>8. e = [version |-> version + 1, action |-> "delete_role_inheritance",
             target |-> req[p].role, before |-> {req[p].parent}, after |-> {}]
    OBVIOUS
  <1> HIDE DEF P, e
  <1> QED
    BY <1>1, <1>3, <1>4, <1>5, <1>6, <1>7, <1>8, RecordKeeps

-----------------------------------------------------------------------------
(* What a replica enforces.                                                *)

(* The snapshot that is published is one that the database has held.       *)
LEMMA PublishKeeps ==
    ASSUME IInv, NEW a \in Actor, Publish(a)
    PROVE  IInv'
  <1> USE DEF IInv
  <1> DEFINE at == req[a].at
             s == [version |-> adapterVersion[at], policy |-> tx[a].rows]
  <1>1. pc[a] = "publish" /\ FollowsRoute(a) /\ ~Is(a, "none") /\ ~Is(a, "read") /\ at \in Replica
    <2>1. pc[a] = "publish" /\ FollowsRoute(a)
      BY DEF Publish, OnRoute
    <2>2. ~Is(a, "none") /\ ~Is(a, "read")
      BY <2>1, KindOf
    <2> QED
      BY <2>1, <2>2, Fields
  <1>2. s \in past /\ s \in Snapshot /\ s # Unloaded
    <2>1. s \in past
      BY <1>1 DEF LoadsSound, LoadSound
    <2>2. s.version \in 1 .. version /\ version \in Nat
      BY <2>1 DEF History, TypeOK
    <2> QED
      BY <2>1, <2>2 DEF TypeOK, Unloaded
  <1>3. /\ FinishTo(a, "idle")
        /\ UNCHANGED <<policy, version, audit, known, past, adapterVersion>>
        /\ enforced' = [enforced EXCEPT ![at] = s]
    BY DEF Publish
  <1> HIDE DEF s
  <1>4. /\ enforced' \in [Replica -> Snapshot] /\ enforced'[at] = s
        /\ \A r \in Replica \ {at} : enforced'[r] = enforced[r]
        /\ Running' = Running \cup {at}
    BY <1>1, <1>2, <1>3 DEF TypeOK, Running
  <1>5. /\ pc' \in [Actor -> Statement] /\ req' \in [Actor -> Request \cup {NoRequest}]
        /\ tx' \in [Actor -> Tx]
        /\ pc'[a] = "idle" /\ req'[a] = NoRequest /\ tx'[a] = NoTx
        /\ \A b \in Actor \ {a} : pc'[b] = pc[b] /\ req'[b] = req[b] /\ tx'[b] = tx[b]
        /\ stateLock' \in Proc \cup {NoActor}
        /\ slot' \in [Replica -> Actor \cup {NoActor}]
        /\ LocksHeld'
    BY <1>3, FinishKeepsLocks
  <1>6. TypeOK'
    BY <1>3, <1>4, <1>5 DEF TypeOK
  <1>7. OnRoute'
    <2>1. FollowsRoute(a)'
      <3>1. Is(a, "none")' /\ pc'[a] \in Route["none"]
        BY <1>5 DEF Is, NoRequest, Route
      <3>2. a \in Replica => a \in Running'
        BY <1>1, <1>4 DEF FollowsRoute
      <3> QED
        BY <1>5, <3>1, <3>2 DEF FollowsRoute, Is
    <2>2. ASSUME NEW b \in Actor \ {a} PROVE FollowsRoute(b)'
      <3>1. FollowsRoute(b) /\ pc'[b] = pc[b] /\ req'[b] = req[b]
        BY <1>5 DEF OnRoute
      <3>2. b \in Replica /\ pc[b] = "down" => b # at
        <4>1. CASE Is(a, "boot")
          BY <1>1, <4>1, KindOf DEF FollowsRoute
        <4>2. CASE ~Is(a, "boot")
          BY <1>1, <3>1, <4>2 DEF FollowsRoute
        <4> QED
          BY <4>1, <4>2
      <3>3. ~Is(b, "none") /\ at \notin Running => req[b].at # at
        <4>1. SUFFICES ASSUME ~Is(b, "none"), at \notin Running, req[b].at = at
                       PROVE  FALSE
          OBVIOUS
        <4>2. Is(a, "boot") /\ Is(b, "boot")
          BY <1>1, <3>1, <4>1 DEF FollowsRoute
        <4>3. a \in Replica /\ b \in Replica
          BY <1>1, <3>1, <4>2, KindOf
        <4> QED
          BY <1>1, <3>1, <4>1, <4>3 DEF FollowsRoute
      <3> QED
        BY <1>4, <3>1, <3>2, <3>3 DEF FollowsRoute, Is
    <2> QED
      BY <2>1, <2>2 DEF OnRoute
  <1>8. Checked'
    <2>1. a \in Proc => Found(a)'
      BY <1>5 DEF Found, InTransaction, SharesCatalog
    <2>2. ASSUME NEW p \in Proc \ {a} PROVE Found(p)'
      BY <1>3, <1>5 DEF Checked, Found, InTransaction, SharesCatalog, Unknown, Is, Actor
    <2> QED
      BY <2>1, <2>2 DEF Checked
  <1>9. LoadsSound'
    <2>1. LoadSound(a)'
      BY <1>3, <1>5 DEF LoadSound, NoTx, TypeOK
    <2>2. ASSUME NEW b \in Actor \ {a} PROVE LoadSound(b)'
      <3>1. LoadSound(b) /\ pc'[b] = pc[b] /\ req'[b] = req[b] /\ tx'[b] = tx[b]
        BY <1>5 DEF LoadsSound
      <3>2. pc[b] = "publish" => req[b].at \in Replica \ {at}
        <4>1. SUFFICES ASSUME pc[b] = "publish" PROVE req[b].at \in Replica \ {at}
          OBVIOUS
        <4>2. ~Is(b, "read") /\ ~Is(b, "none")
          BY <4>1, KindOf DEF OnRoute
        <4>3. req[b].at # at
          BY <1>1, <4>1, <4>2, Alone DEF Loading
        <4> QED
          BY <4>2, <4>3, Fields
      <3> QED
        BY <1>3, <1>4, <3>1, <3>2 DEF LoadSound
    <2> QED
      BY <2>1, <2>2 DEF LoadsSound
  <1>10. History' /\ InheritanceAcyclic' /\ AuditTrail'
    BY <1>3 DEF History, InheritanceAcyclic, AuditTrail
  <1>11. EnforcedHeld'
    BY <1>2, <1>3, <1>4 DEF EnforcedHeld, Running
  <1> QED
    BY <1>5, <1>6, <1>7, <1>8, <1>9, <1>10, <1>11

(* A replica ends, with whatever is done at it.                            *)
LEMMA CrashKeeps ==
    ASSUME IInv, NEW r \in Replica, Crash(r)
    PROVE  IInv'
  <1> USE DEF IInv
  <1> DEFINE gone == {a \in Actor : req[a] # NoRequest /\ req[a].at = r}
  <1>1. /\ r \in Running
        /\ enforced' = [enforced EXCEPT ![r] = Unloaded]
        /\ stateLock' = IF stateLock \in gone THEN NoActor ELSE stateLock
        /\ slot' = [slot EXCEPT ![r] = NoActor]
        /\ adapterVersion' = [adapterVersion EXCEPT ![r] = 0]
        /\ pc' = [a \in Actor |-> IF a = r THEN "down"
                                  ELSE IF a \in gone THEN "idle" ELSE pc[a]]
        /\ req' = [a \in Actor |-> IF a \in gone THEN NoRequest ELSE req[a]]
        /\ tx' = [a \in Actor |-> IF a \in gone THEN NoTx ELSE tx[a]]
        /\ UNCHANGED <<policy, version, audit, known, past>>
    BY DEF Crash
  <1>2. \A a \in Actor : a \in gone <=> ~Is(a, "none") /\ req[a].at = r
    BY Fields
  <1> HIDE DEF gone
  <1>3. TypeOK'
    BY <1>1, EmptyRows DEF TypeOK, Statement
  <1>4. r \in Actor /\ r \notin Proc /\ FollowsRoute(r)
    BY ActorAssumption DEF Actor, OnRoute
  <1>5. /\ pc'[r] = "down" /\ req'[r] = NoRequest
        /\ tx'[r] \in {NoTx, tx[r]}
    BY <1>1, <1>2, <1>4, Fields DEF FollowsRoute
  <1>6. \A a \in Actor \ {r} : a \in gone =>
          pc'[a] = "idle" /\ req'[a] = NoRequest /\ tx'[a] = NoTx /\ a \in Proc
    BY <1>1, <1>2 DEF OnRoute, FollowsRoute, Actor
  <1>7. \A a \in Actor \ {r} : a \notin gone =>
          /\ pc'[a] = pc[a] /\ req'[a] = req[a] /\ tx'[a] = tx[a]
          /\ ~Is(a, "none") => req[a].at # r
    BY <1>1, <1>2
  <1>8. /\ enforced'[r] = Unloaded /\ Running' = Running \ {r}
        /\ \A q \in Replica \ {r} : enforced'[q] = enforced[q]
                                    /\ adapterVersion'[q] = adapterVersion[q]
    BY <1>1 DEF Running, TypeOK
  <1>9. OnRoute'
    <2>1. FollowsRoute(r)'
      BY <1>4, <1>5, <1>8 DEF FollowsRoute, Is, NoRequest, Route
    <2>2. ASSUME NEW a \in Actor \ {r}, a \in gone PROVE FollowsRoute(a)'
      BY <1>6, <2>2, ActorAssumption DEF FollowsRoute, Is, NoRequest, Route
    <2>3. ASSUME NEW a \in Actor \ {r}, a \notin gone PROVE FollowsRoute(a)'
      BY <1>7, <1>8, <2>3 DEF OnRoute, FollowsRoute, Is
    <2> QED
      BY <2>1, <2>2, <2>3 DEF OnRoute
  <1>10. LocksHeld'
    <2>1. ASSUME NEW q \in Proc PROVE stateLock' = q <=> InTransaction(q)'
      <3>1. q \in Actor \ {r} /\ q # NoActor /\ (stateLock = q <=> InTransaction(q))
        BY <1>4, ActorAssumption DEF Actor, LocksHeld
      <3>2. CASE q \in gone
        BY <1>1, <1>6, <3>1, <3>2 DEF InTransaction
      <3>3. CASE q \notin gone
        BY <1>1, <1>7, <3>1, <3>3 DEF InTransaction
      <3> QED
        BY <3>2, <3>3
    <2>2. ASSUME NEW a \in Actor, NEW q \in Replica
          PROVE  slot'[q] = a <=> HoldsSlot(a, q)'
      <3>1. a # NoActor /\ (slot[q] = a <=> HoldsSlot(a, q))
        BY ActorAssumption DEF Actor, LocksHeld
      <3>2. HoldsSlot(a, q) => ~Is(a, "none") /\ req[a].at = q
        BY KindOf DEF HoldsSlot, OnRoute, Loading
      <3>3. slot'[q] = IF q = r THEN NoActor ELSE slot[q]
        BY <1>1 DEF TypeOK
      <3>4. CASE a = r
        BY <1>4, <1>5, <3>1, <3>2, <3>3, <3>4 DEF HoldsSlot, Loading, FollowsRoute
      <3>5. CASE a # r /\ a \in gone
        BY <1>2, <1>6, <3>1, <3>2, <3>3, <3>5 DEF HoldsSlot, Loading
      <3>6. CASE a # r /\ a \notin gone
        <4>1. HoldsSlot(a, q)' <=> HoldsSlot(a, q)
          BY <1>7, <3>6 DEF HoldsSlot, Is
        <4> QED
          BY <1>7, <3>1, <3>2, <3>3, <3>6, <4>1
      <3> QED
        BY <3>4, <3>5, <3>6
    <2> QED
      BY <2>1, <2>2 DEF LocksHeld
  <1>11. Checked'
    <2>1. ASSUME NEW p \in Proc PROVE Found(p)'
      <3>1. p \in Actor \ {r} /\ Found(p)
        BY <1>4 DEF Actor, Checked
      <3>2. CASE p \in gone
        BY <1>6, <3>1, <3>2 DEF Found, InTransaction, SharesCatalog
      <3>3. CASE p \notin gone
        BY <1>1, <1>7, <3>1, <3>3 DEF Found, InTransaction, SharesCatalog, Unknown, Is
      <3> QED
        BY <3>2, <3>3
    <2> QED
      BY <2>1 DEF Checked
  <1>12. LoadsSound'
    <2>0. version \in Nat /\ version' = version /\ past' = past
      BY <1>1 DEF TypeOK
    <2>1. LoadSound(r)'
      <3>1. tx[r].version <= version /\ NoTx.version <= version
        <4>1. LoadSound(r) /\ NoTx.version = 0
          BY <1>4 DEF LoadsSound, NoTx
        <4> QED
          BY <2>0, <4>1 DEF LoadSound
      <3>2. tx'[r].version <= version
        BY <1>5, <3>1
      <3> QED
        BY <1>5, <2>0, <3>2 DEF LoadSound
    <2>2. ASSUME NEW a \in Actor \ {r}, a \in gone PROVE LoadSound(a)'
      BY <1>6, <2>0, <2>2 DEF LoadSound, NoTx
    <2>3. ASSUME NEW a \in Actor \ {r}, a \notin gone PROVE LoadSound(a)'
      <3>1. pc[a] = "publish" => req[a].at \in Replica \ {r}
        <4>1. pc[a] = "publish" => ~Is(a, "none")
          BY KindOf DEF OnRoute
        <4> QED
          BY <1>7, <2>3, <4>1, Fields
      <3>2. LoadSound(a)
        BY DEF LoadsSound
      <3> QED
        BY <1>1, <1>7, <1>8, <2>0, <2>3, <3>1, <3>2 DEF LoadSound
    <2> QED
      BY <2>1, <2>2, <2>3 DEF LoadsSound
  <1>13. History' /\ InheritanceAcyclic' /\ AuditTrail' /\ EnforcedHeld'
    BY <1>1, <1>8 DEF History, InheritanceAcyclic, AuditTrail, EnforcedHeld, Running
  <1> QED
    BY <1>3, <1>9, <1>10, <1>11, <1>12, <1>13

LEMMA RetireKeeps ==
    ASSUME IInv, NEW x \in Permission, Retire(x)
    PROVE  IInv'
  <1> USE DEF IInv
  <1>1. /\ UNCHANGED <<policy, version, audit, past, enforced,
                       stateLock, slot, adapterVersion, pc, req, tx>>
        /\ known' = known \ {x} /\ \A p \in Proc : ~SharesCatalog(p)
    BY DEF Retire, memory
  <1>2. TypeOK'
    BY <1>1 DEF TypeOK
  <1>3. OnRoute' /\ LocksHeld' /\ LoadsSound'
    BY <1>1 DEF OnRoute, FollowsRoute, LocksHeld, InTransaction, HoldsSlot, LoadsSound,
                LoadSound, Running, Is
  <1>4. Checked'
    BY <1>1 DEF Checked, Found, InTransaction, SharesCatalog, Is
  <1>5. History' /\ InheritanceAcyclic' /\ AuditTrail' /\ EnforcedHeld'
    BY <1>1 DEF History, InheritanceAcyclic, AuditTrail, EnforcedHeld, Running
  <1> QED
    BY <1>2, <1>3, <1>4, <1>5

LEMMA StutterKeeps == IInv /\ UNCHANGED vars => IInv'
  <1> SUFFICES ASSUME IInv, UNCHANGED vars PROVE IInv'
    OBVIOUS
  <1> USE DEF IInv
  <1>1. UNCHANGED <<policy, version, audit, known, past, enforced,
                    stateLock, slot, adapterVersion, pc, req, tx>>
    BY DEF vars
  <1>2. TypeOK'
    BY <1>1 DEF TypeOK
  <1>3. OnRoute' /\ LocksHeld' /\ LoadsSound'
    BY <1>1 DEF OnRoute, FollowsRoute, LocksHeld, InTransaction, HoldsSlot, LoadsSound,
                LoadSound, Running, Is
  <1>4. Checked'
    BY <1>1 DEF Checked, Found, InTransaction, SharesCatalog, Unknown, Is
  <1>5. History' /\ InheritanceAcyclic' /\ AuditTrail' /\ EnforcedHeld'
    BY <1>1 DEF History, InheritanceAcyclic, AuditTrail, EnforcedHeld, Running
  <1> QED
    BY <1>2, <1>3, <1>4, <1>5

-----------------------------------------------------------------------------
(* Every step.                                                             *)

LEMMA LoadKeeps ==
    ASSUME IInv, NEW a \in Actor, Load(a)
    PROVE  IInv'
  <1>1. CASE TakeSlot(a)
    BY <1>1, TakeSlotKeeps
  <1>2. CASE ReadBefore(a) \/ LoadRows(a) \/ ReadAfter(a)
    BY <1>2, ReadKeeps
  <1>3. CASE Retry(a)
    BY <1>3, RetryKeeps
  <1>4. CASE Publish(a)
    BY <1>4, PublishKeeps
  <1>5. CASE Reject(a)
    BY <1>5, EndKeeps DEF Reject, Refused
  <1> QED
    BY <1>1, <1>2, <1>3, <1>4, <1>5 DEF Load

LEMMA WriteKeeps ==
    ASSUME IInv, NEW p \in Proc, Write(p)
    PROVE  IInv'
  BY LockStateKeeps, CheckCatalogKeeps, ReadRowsKeeps, CommitSetKeeps, CommitAddKeeps,
     CommitDropKeeps, CommitSameKeeps DEF Write

LEMMA NextKeeps == IInv /\ [Next]_vars => IInv'
  <1> SUFFICES ASSUME IInv, [Next]_vars PROVE IInv'
    OBVIOUS
  <1>1. ASSUME NEW p \in Proc,
               BeginSet(p) \/ BeginInherit(p) \/ BeginRead(p) \/ Serve(p) \/ Fail(p)
        PROVE  IInv'
    <2>0. p \in Actor
      BY DEF Actor
    <2>1. CASE BeginSet(p) \/ BeginInherit(p) \/ BeginRead(p)
      BY <2>1, BeginInv
    <2>2. CASE Write(p)
      BY <2>2, WriteKeeps
    <2>3. CASE Load(p)
      BY <2>0, <2>3, LoadKeeps
    <2>4. CASE Answer(p) \/ Fail(p)
      BY <2>0, <2>4, EndKeeps DEF Answer, Fail
    <2> QED
      BY <1>1, <2>1, <2>2, <2>3, <2>4 DEF Serve
  <1>2. ASSUME NEW r \in Replica,
               Boot(r) \/ Tick(r) \/ Reconcile(r) \/ Fail(r) \/ Crash(r)
        PROVE  IInv'
    <2>0. r \in Actor
      BY DEF Actor
    <2>1. CASE Boot(r) \/ Tick(r)
      BY <2>1, BeginInv
    <2>2. CASE Poll(r) \/ Compare(r)
      BY <2>2, PollKeeps
    <2>3. CASE Load(r)
      BY <2>0, <2>3, LoadKeeps
    <2>4. CASE UpToDate(r) \/ Fail(r)
      BY <2>0, <2>4, EndKeeps DEF UpToDate, Fail
    <2>5. CASE Crash(r)
      BY <2>5, CrashKeeps
    <2> QED
      BY <1>2, <2>1, <2>2, <2>3, <2>4, <2>5 DEF Reconcile
  <1>3. CASE \E x \in Permission : Retire(x)
    BY <1>3, RetireKeeps
  <1>4. CASE UNCHANGED vars
    BY <1>4, StutterKeeps
  <1> QED
    BY <1>1, <1>2, <1>3, <1>4 DEF Next

(* Every reachable state satisfies the inductive invariant.                *)
THEOREM Invariance == Spec => []IInv
  BY InitInv, NextKeeps, PTL DEF Spec

-----------------------------------------------------------------------------
(* What holds in every state.                                              *)

(* The type invariant of the rows, the enforcers, the locks and the local  *)
(* variables of every actor.                                               *)
THEOREM TypeCorrect == Spec => []TypeOK
  <1>1. IInv => TypeOK
    BY DEF IInv
  <1> QED
    BY <1>1, Invariance, PTL

(* No role inherits itself, directly or not, however AddRoleInheritance    *)
(* and DeleteRoleInheritance interleave: a writer checks the graph of one  *)
(* statement earlier, and the state row it has locked keeps that graph the *)
(* one it adds its relation to.                                            *)
THEOREM NeverCyclic == Spec => []InheritanceAcyclic
  <1>1. IInv => InheritanceAcyclic
    BY DEF IInv
  <1> QED
    BY <1>1, Invariance, PTL

(* authz_policy_audit explains every version from the one before it: what  *)
(* recordPolicyMutation writes as "before" is what was there, and the      *)
(* version it writes is that of the policy it leaves behind.               *)
THEOREM AuditExplainsEveryVersion == Spec => []AuditTrail
  <1>1. IInv => AuditTrail
    BY DEF IInv
  <1> QED
    BY <1>1, Invariance, PTL

(* Every replica that runs decides by the rules of one version under the   *)
(* number of that version, although the adapter reads them by separate     *)
(* statements and publishes the version it keeps between loads.            *)
THEOREM EnforcedWasHeld == Spec => []EnforcedHeld
  <1>1. IInv => EnforcedHeld
    BY DEF IInv
  <1> QED
    BY <1>1, Invariance, PTL

(* A version is the name of one policy for ever.                           *)
THEOREM OnePolicyEach == Spec => []History
  <1>1. IInv => History
    BY DEF IInv
  <1> QED
    BY <1>1, Invariance, PTL

-----------------------------------------------------------------------------
(* Nobody waits for ever.                                                  *)

(* a cannot go on before b ends its transaction or its reload.             *)
WaitsFor(a, b) ==
    \/ pc[a] = "lock" /\ stateLock = b
    \/ pc[a] = "slot" /\ slot[req[a].at] = b

HolderAtWork ==
    \A a, b \in Actor :
        WaitsFor(a, b) => pc[b] \in {"catalog", "rows", "commit"} \cup Loading

(* Whoever is waited for is still at work and waits for nobody: a writer   *)
(* gives the state row back before it waits for the slot of its replica,   *)
(* and every way out of a transaction or a reload, the end of the process  *)
(* included, releases what it held.  So waits never form a circle.         *)
THEOREM WaitsAlwaysEnd == Spec => []HolderAtWork
  <1>1. ASSUME IInv, NEW a \in Actor, NEW b \in Actor, WaitsFor(a, b)
        PROVE  pc[b] \in {"catalog", "rows", "commit"} \cup Loading
    <2> USE DEF IInv
    <2>1. CASE pc[a] = "lock" /\ stateLock = b
      <3>1. b \in Proc
        BY <1>1, <2>1, ActorAssumption DEF TypeOK, Actor
      <3> QED
        BY <1>1, <2>1, <3>1 DEF LocksHeld, InTransaction
    <2>2. CASE pc[a] = "slot" /\ slot[req[a].at] = b
      <3>1. req[a].at \in Replica
        BY <1>1, <2>2, KindOf, Fields DEF OnRoute, Writes, Is
      <3> QED
        BY <1>1, <2>2, <3>1 DEF LocksHeld, HoldsSlot
    <2> QED
      BY <1>1, <2>1, <2>2 DEF WaitsFor
  <1>2. IInv => HolderAtWork
    BY <1>1 DEF HolderAtWork
  <1> QED
    BY <1>2, Invariance, PTL

-----------------------------------------------------------------------------
(* What no step does.                                                      *)

(* The steps that the ledger knows of.                                     *)
LEMMA Steps ==
    ASSUME [Next]_vars
    PROVE  \/ UNCHANGED ledgerVars
           \/ \E p \in Proc : CommitSet(p) \/ CommitAdd(p) \/ CommitDrop(p)
           \/ \E a \in Actor : Publish(a)
           \/ \E r \in Replica : Crash(r)
           \/ \E x \in Permission : Retire(x)
  <1>1. ASSUME NEW a \in Actor, Load(a) \/ Fail(a)
        PROVE  UNCHANGED ledgerVars \/ Publish(a)
    BY <1>1 DEF Load, TakeSlot, ReadBefore, LoadRows, Retry, ReadAfter, Reject, Fail
  <1>2. ASSUME NEW p \in Proc,
               BeginSet(p) \/ BeginInherit(p) \/ BeginRead(p) \/ Serve(p) \/ Fail(p)
        PROVE  \/ UNCHANGED ledgerVars \/ Publish(p)
               \/ CommitSet(p) \/ CommitAdd(p) \/ CommitDrop(p)
    <2>1. CASE BeginSet(p) \/ BeginInherit(p) \/ BeginRead(p)
      BY <2>1 DEF BeginSet, BeginInherit, BeginRead, Begin
    <2>2. CASE Write(p)
      BY <2>2 DEF Write, LockState, CheckCatalog, ReadRows, CommitSame
    <2>3. CASE Load(p) \/ Fail(p)
      BY <1>1, <2>3 DEF Actor
    <2>4. CASE Answer(p)
      BY <2>4 DEF Answer
    <2> QED
      BY <1>2, <2>1, <2>2, <2>3, <2>4 DEF Serve
  <1>3. ASSUME NEW r \in Replica, Boot(r) \/ Tick(r) \/ Reconcile(r) \/ Fail(r)
        PROVE  UNCHANGED ledgerVars \/ Publish(r)
    <2>1. CASE Load(r) \/ Fail(r)
      BY <1>1, <2>1 DEF Actor
    <2>2. CASE Boot(r) \/ Tick(r) \/ Poll(r) \/ Compare(r) \/ UpToDate(r)
      BY <2>2 DEF Boot, Tick, Begin, Poll, Compare, UpToDate
    <2> QED
      BY <1>3, <2>1, <2>2 DEF Reconcile
  <1>4. CASE UNCHANGED vars
    BY <1>4 DEF vars, ledgerVars
  <1>5. \A p \in Proc \cup Replica : p \in Actor
    BY DEF Actor
  <1> QED
    BY <1>2, <1>3, <1>4, <1>5 DEF Next

(* What a publication puts in place of what was enforced.                  *)
LEMMA Published ==
    ASSUME IInv, NEW a \in Actor, Publish(a)
    PROVE  LET s == [version |-> adapterVersion[req[a].at], policy |-> tx[a].rows]
           IN  /\ req[a].at \in Replica /\ s \in past /\ s.version \in Nat
               /\ s.version >= enforced[req[a].at].version /\ s.version >= tx[a].version
               /\ enforced' = [enforced EXCEPT ![req[a].at] = s]
               /\ UNCHANGED <<policy, version, audit, known, past>>
  <1> USE DEF IInv
  <1>1. pc[a] = "publish" /\ ~Is(a, "none") /\ LoadSound(a)
    BY KindOf DEF Publish, OnRoute, LoadsSound
  <1>2. req[a].at \in Replica /\ adapterVersion[req[a].at] \in Nat
    BY <1>1, Fields DEF TypeOK
  <1> QED
    BY <1>1, <1>2 DEF LoadSound, Publish

(* No replica goes back to an older policy: a reload holds the slot from   *)
(* the version it reads to the publication, so the version published is no *)
(* older than what the reload before it has left.                          *)
THEOREM NeverGoesBack == Spec => NeverBack
  <1>1. IInv /\ [Next]_vars =>
          [\A r \in Running : enforced'[r] # Unloaded =>
             enforced'[r].version >= enforced[r].version]_vars
    <2> SUFFICES ASSUME IInv, [Next]_vars, NEW r \in Running, enforced'[r] # Unloaded
                 PROVE  enforced'[r].version >= enforced[r].version
      OBVIOUS
    <2>1. r \in Replica /\ enforced \in [Replica -> Snapshot] /\ enforced[r].version \in Nat
      BY DEF IInv, TypeOK, Running, Snapshot
    <2>2. CASE UNCHANGED enforced
      BY <2>1, <2>2
    <2>3. CASE \E a \in Actor : Publish(a)
      <3>1. PICK a \in Actor : Publish(a)
        BY <2>3
      <3> DEFINE s == [version |-> adapterVersion[req[a].at], policy |-> tx[a].rows]
      <3>2. /\ s.version >= enforced[req[a].at].version
            /\ enforced' = [enforced EXCEPT ![req[a].at] = s]
        BY <3>1, Published
      <3> HIDE DEF s
      <3> QED
        BY <2>1, <3>2
    <2>4. CASE \E q \in Replica : Crash(q)
      BY <2>1, <2>4 DEF Crash
    <2> QED
      BY <2>2, <2>3, <2>4, Steps
      DEF ledgerVars, CommitSet, CommitAdd, CommitDrop, RecordPolicyMutation, Change, Retire
  <1> QED
    BY <1>1, Invariance, PTL DEF Spec, NeverBack

(* Optimistic concurrency: a write that names the version its author had   *)
(* read changes the policy of that version and no other, since the row     *)
(* whose version it has compared stays locked to COMMIT.                   *)
THEOREM NothingLost == Spec => NoLostUpdate
  <1>1. IInv =>
          \A p \in Proc : CommitSet(p) \/ CommitAdd(p) \/ CommitDrop(p) =>
            \A v \in req[p].expected : [version |-> v, policy |-> policy] \in past
    <2> SUFFICES ASSUME IInv, NEW p \in Proc, pc[p] = "commit", NEW v \in req[p].expected
                 PROVE  [version |-> v, policy |-> policy] \in past
      BY DEF CommitSet, CommitAdd, CommitDrop
    <2>1. v = version
      BY DEF IInv, Checked, Found, InTransaction
    <2> QED
      BY <2>1 DEF IInv, History
  <1> QED
    BY <1>1, Invariance, PTL DEF Spec, NoLostUpdate

(* No role is granted a code that was retired after it had been checked:   *)
(* the rows of the catalog stay shared until the grant commits.            *)
THEOREM OnlyKnownCodes == Spec => CatalogRespected
  <1>1. IInv => \A p \in Proc : CommitSet(p) => req[p].perms \ Wildcard \subseteq known
    <2> SUFFICES ASSUME IInv, NEW p \in Proc, CommitSet(p)
                 PROVE  req[p].perms \ Wildcard \subseteq known
      OBVIOUS
    <2>1. SharesCatalog(p)
      BY DEF CommitSet, SharesCatalog
    <2> QED
      BY <2>1 DEF IInv, Checked, Found, Unknown
  <1> QED
    BY <1>1, Invariance, PTL DEF Spec, CatalogRespected

(* An administrator reads rules and a version that belong together.        *)
THEOREM AnswersAreSnapshots == Spec => AnswersHeld
  <1>1. IInv =>
          \A p \in Proc : Answer(p) => [version |-> version, policy |-> tx[p].rows] \in past
    <2> SUFFICES ASSUME IInv, NEW p \in Proc, Answer(p)
                 PROVE  [version |-> version, policy |-> tx[p].rows] \in past
      OBVIOUS
    <2>1. tx[p].rows = policy
      BY DEF IInv, LoadsSound, LoadSound, Answer, Stable, Actor
    <2> QED
      BY <2>1 DEF IInv, History
  <1> QED
    BY <1>1, Invariance, PTL DEF Spec, AnswersHeld

(* The reload that follows a write publishes what was written, or newer.   *)
THEOREM WritersSeeTheirs == Spec => ReadYourWrites
  <1>1. IInv =>
          \A p \in Proc : Publish(p) => enforced'[req[p].at].version >= tx[p].version
    <2> SUFFICES ASSUME IInv, NEW p \in Proc, Publish(p)
                 PROVE  enforced'[req[p].at].version >= tx[p].version
      OBVIOUS
    <2> DEFINE s == [version |-> adapterVersion[req[p].at], policy |-> tx[p].rows]
    <2>1. /\ req[p].at \in Replica /\ s.version >= tx[p].version
          /\ enforced' = [enforced EXCEPT ![req[p].at] = s]
      BY Published DEF Actor
    <2> HIDE DEF s
    <2> QED
      BY <2>1 DEF IInv, TypeOK
  <1> QED
    BY <1>1, Invariance, PTL DEF Spec, ReadYourWrites

-----------------------------------------------------------------------------
(* PolicySync implements PolicyLedger.                                     *)

(* A COMMIT is one change of the ledger.                                   *)
LEMMA CommitIsChange ==
    ASSUME IInv, NEW p \in Proc, CommitSet(p) \/ CommitAdd(p) \/ CommitDrop(p)
    PROVE  LedgerNext
  <1> USE DEF IInv
  <1>0. p \in Actor /\ pc[p] = "commit" /\ Found(p)
    BY DEF Actor, Checked, CommitSet, CommitAdd, CommitDrop
  <1>1. CASE CommitSet(p)
    <2>1. Is(p, "set") /\ ~Unknown(p) /\ tx[p].rows = policy
      BY <1>0, <1>1 DEF CommitSet, Found, SharesCatalog, Is
    <2>2. req[p].role \in Role /\ req[p].perms \in SUBSET Permission
      BY <1>0, <2>1, Fields
    <2>3. SetPermissions(req[p].role, req[p].perms)
      BY <1>1, <2>1 DEF CommitSet, RecordPolicyMutation, SetPermissions, Unknown
    <2> QED
      BY <2>2, <2>3 DEF LedgerNext
  <1>2. CASE CommitAdd(p)
    <2>1. Is(p, "add") /\ tx[p].rows = policy
      BY <1>0, <1>2 DEF CommitAdd, Found, Is
    <2>2. req[p].role \in Role /\ req[p].parent \in Role
      BY <1>0, <2>1, Fields
    <2>3. Inherit(req[p].role, req[p].parent)
      BY <1>2, <2>1 DEF CommitAdd, RecordPolicyMutation, Inherit, Cycle, Edge
    <2> QED
      BY <2>2, <2>3 DEF LedgerNext
  <1>3. CASE CommitDrop(p)
    <2>1. Is(p, "drop")
      BY <1>3 DEF CommitDrop
    <2>2. req[p].role \in Role /\ req[p].parent \in Role
      BY <1>0, <2>1, Fields
    <2>3. Disinherit(req[p].role, req[p].parent)
      BY <1>3 DEF CommitDrop, RecordPolicyMutation, Disinherit, Edge
    <2> QED
      BY <2>2, <2>3 DEF LedgerNext
  <1> QED
    BY <1>1, <1>2, <1>3

(* Seen from outside, the transactions of the policy store, the reloads    *)
(* and the reconcilers do only what PolicyLedger promises: indivisible,    *)
(* recorded changes, and replicas that adopt policies the database has     *)
(* held, never going back.                                                 *)
THEOREM ImplementsLedger == Spec => LedgerSpec
  <1>1. Init => LedgerInit
    BY DEF Init
  <1>2. IInv /\ [Next]_vars => [LedgerNext]_ledgerVars
    <2> SUFFICES ASSUME IInv, [Next]_vars PROVE [LedgerNext]_ledgerVars
      OBVIOUS
    <2>1. CASE \E p \in Proc : CommitSet(p) \/ CommitAdd(p) \/ CommitDrop(p)
      BY <2>1, CommitIsChange
    <2>2. CASE \E a \in Actor : Publish(a)
      <3>1. PICK a \in Actor : Publish(a)
        BY <2>2
      <3> DEFINE s == [version |-> adapterVersion[req[a].at], policy |-> tx[a].rows]
      <3>2. /\ req[a].at \in Replica /\ s \in past
            /\ s.version >= enforced[req[a].at].version
            /\ enforced' = [enforced EXCEPT ![req[a].at] = s]
            /\ UNCHANGED <<policy, version, audit, known, past>>
        BY <3>1, Published
      <3> HIDE DEF s
      <3>3. Adopt(req[a].at, s)
        BY <3>2 DEF Adopt
      <3> QED
        BY <3>2, <3>3 DEF LedgerNext
    <2>3. CASE \E r \in Replica : Crash(r)
      BY <2>3 DEF Crash, Leave, LedgerNext
    <2>4. CASE \E x \in Permission : Retire(x)
      BY <2>4 DEF Retire, Withdraw, LedgerNext
    <2> QED
      BY <2>1, <2>2, <2>3, <2>4, Steps
  <1> QED
    BY <1>1, <1>2, Invariance, PTL DEF Spec, LedgerSpec

=============================================================================
