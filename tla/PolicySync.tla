----------------------------- MODULE PolicySync -----------------------------
(***************************************************************************)
(* How the policy is changed and how it reaches the memory of every        *)
(* replica: the transactions of policy_store.go, the reload that follows   *)
(* each of them (policy.go, pkg/authz), the reconciler that polls the      *)
(* version (policy_sync.go), the start of a replica (lifecycle.go) and the *)
(* reads an administrator edits from.                                      *)
(*                                                                         *)
(* An actor is a request p of Proc, served by the replica req[p].at, or    *)
(* the reconciler of a replica r, which also stands for its start.  One    *)
(* action is one statement of the database or one critical section in      *)
(* memory.  A transaction's writes show when it commits.                   *)
(***************************************************************************)
EXTENDS PolicyLedger, FiniteSets

CONSTANTS
    Proc,           \* requests
    NoActor,        \* the value of a free lock
    Required,       \* codes the service's own methods are annotated with
    Attempts,       \* how often a load is tried (5 in the code)
    MaxVersion      \* bound: writers start only while this is out of reach

ASSUME ActorAssumption ==
    /\ NoActor \notin Proc \cup Replica
    /\ Proc \cap Replica = {}
    /\ Required \subseteq Permission \ Wildcard
    /\ Attempts \in Nat \ {0}
    /\ MaxVersion \in Nat

VARIABLES
    stateLock,      \* who has locked the authz_policy_state row
    slot,           \* Enforcer.reload: who is reloading a replica
    adapterVersion, \* StorageAdapter.loadedVersion
    pc,             \* the statement each actor is at
    req,            \* what it was asked for
    tx              \* its local variables

memory == <<slot, adapterVersion>>
vars == <<policy, version, audit, known, past, enforced,
          stateLock, slot, adapterVersion, pc, req, tx>>

Actor == Proc \cup Replica

Request ==
    [op : {"set"}, at : Replica, role : Role, perms : SUBSET Permission,
     expected : SUBSET Nat]
    \cup [op : {"add", "drop"}, at : Replica, role : Role, parent : Role,
          expected : SUBSET Nat]
    \cup [op : {"read", "poll", "boot"}, at : Replica]
NoRequest == [op |-> "none"]

Tx == [version : Nat,       \* locked, committed or polled
       before : Nat,        \* the version before a load
       rows : Policy,       \* the rules that were read
       tries : Nat]
NoTx == [version |-> 0, before |-> 0, rows |-> Unloaded.policy, tries |-> 0]

Statement == {"idle", "down", "lock", "catalog", "rows", "commit",
              "poll", "compare", "slot", "before", "load", "after", "publish"}

Is(a, op) == req[a].op = op
Writes(a) == req[a].op \in {"set", "add", "drop"}

(* The order of the statements.                                            *)
After(op, s) ==
    CASE s = "lock"    -> [set |-> "catalog", add |-> "rows", drop |-> "commit"][op]
      [] s = "catalog" -> "rows"
      [] s = "rows"    -> "commit"
      [] s = "commit"  -> "slot"
      [] s = "poll"    -> "compare"
      [] s = "compare" -> "slot"
      [] s = "slot"    -> "before"
      [] s = "before"  -> "load"
      [] s = "load"    -> "after"
      [] s = "after"   -> "publish"

Running == {r \in Replica : enforced[r] # Unloaded}

Init ==
    /\ LedgerInit
    /\ stateLock = NoActor
    /\ slot = [r \in Replica |-> NoActor]
    /\ adapterVersion = [r \in Replica |-> 0]
    /\ pc = [a \in Actor |-> IF a \in Replica THEN "down" ELSE "idle"]
    /\ req = [a \in Actor |-> NoRequest]
    /\ tx = [a \in Actor |-> NoTx]

Goto(a, s) == pc' = [pc EXCEPT ![a] = s]
Advance(a) == Goto(a, After(req[a].op, pc[a]))

-----------------------------------------------------------------------------
(* Requests and ticks.                                                     *)

Begin(a, s, r) ==
    /\ Goto(a, s)
    /\ req' = [req EXCEPT ![a] = r]
    /\ UNCHANGED <<ledgerVars, stateLock, memory, tx>>

(* Writers start only while MaxVersion leaves room for all under way.      *)
Room == version + Cardinality({p \in Proc : Writes(p)}) < MaxVersion

(* The versions a client may expect: none, or one it has read.             *)
Expected == {{}} \cup {{v} : v \in 1 .. version}

BeginSet(p) ==
    /\ pc[p] = "idle" /\ Room
    /\ \E r \in Running, role \in Role, perms \in SUBSET Permission, e \in Expected :
         Begin(p, "lock", [op |-> "set", at |-> r, role |-> role,
                           perms |-> perms, expected |-> e])

(* NewRoleInheritance has refused a role that inherits itself.             *)
BeginInherit(p) ==
    /\ pc[p] = "idle" /\ Room
    /\ \E r \in Running, op \in {"add", "drop"}, child \in Role, e \in Expected :
         \E parent \in Role \ {child} :
            Begin(p, "lock", [op |-> op, at |-> r, role |-> child,
                              parent |-> parent, expected |-> e])

(* FindBinding, ListBindings and ListInheritances.                         *)
BeginRead(p) ==
    /\ pc[p] = "idle"
    /\ \E r \in Running : Begin(p, "before", [op |-> "read", at |-> r])

(* NewEnforcer: the codes of the service's methods must be in the catalog. *)
Boot(r) ==
    /\ pc[r] = "down" /\ Required \subseteq known
    /\ Begin(r, "before", [op |-> "boot", at |-> r])

(* The reconciler's ticker.                                                *)
Tick(r) ==
    /\ pc[r] = "idle"
    /\ Begin(r, "poll", [op |-> "poll", at |-> r])

-----------------------------------------------------------------------------
(* The transactions of PolicyStore.                                        *)

(* Mutant: the expected version is compared with the replica's own.        *)
ConflictWithMemory(p) == ~(req[p].expected \subseteq {enforced[req[p].at].version})

Conflict(p) == ~(req[p].expected \subseteq {version})

(* Mutant: the state row is read, not locked.                              *)
LockStateNoWait(p) ==
    /\ pc[p] = "lock" /\ ~Conflict(p)
    /\ tx' = [tx EXCEPT ![p].version = version]
    /\ Advance(p)
    /\ UNCHANGED <<ledgerVars, stateLock, memory, req>>

(* lockPolicyState: the UPDATE waits for the row, then the version of the  *)
(* row as it is now is compared.                                           *)
LockState(p) ==
    /\ pc[p] = "lock" /\ stateLock = NoActor /\ ~Conflict(p)
    /\ stateLock' = p
    /\ tx' = [tx EXCEPT ![p].version = version]
    /\ Advance(p)
    /\ UNCHANGED <<ledgerVars, memory, req>>

Unknown(p) == ~(req[p].perms \ Wildcard \subseteq known)

(* validateBindingCatalog.  The rows stay locked FOR SHARE.                *)
CheckCatalog(p) ==
    /\ pc[p] = "catalog" /\ ~Unknown(p)
    /\ Advance(p)
    /\ UNCHANGED <<ledgerVars, stateLock, memory, req, tx>>

(* Mutant: the catalog is read without FOR SHARE.                          *)
SharesCatalogNever(p) == FALSE

SharesCatalog(p) == Is(p, "set") /\ pc[p] \in {"rows", "commit"}

(* The rules of the role, or the inheritance graph.                        *)
ReadRows(p) ==
    /\ pc[p] = "rows"
    /\ tx' = [tx EXCEPT ![p].rows = policy]
    /\ Advance(p)
    /\ UNCHANGED <<ledgerVars, stateLock, memory, req>>

Cycle(p) == Reaches(tx[p].rows.parents, req[p].parent, req[p].role)

Edge(p) == <<req[p].role, req[p].parent>>

(* Mutant: the version returned is never written.                          *)
RecordPolicyMutationNoBump(p, P, action, before, after) ==
    /\ policy' = P
    /\ stateLock' = NoActor
    /\ tx' = [tx EXCEPT ![p] = [NoTx EXCEPT !.version = version + 1]]
    /\ Advance(p)
    /\ UNCHANGED <<version, audit, known, past, enforced, memory, req>>

(* recordPolicyMutation, and COMMIT.                                       *)
RecordPolicyMutation(p, P, action, before, after) ==
    /\ Change(P, action, req[p].role, before, after)
    /\ stateLock' = NoActor
    /\ tx' = [tx EXCEPT ![p] = [NoTx EXCEPT !.version = version + 1]]
    /\ Advance(p)
    /\ UNCHANGED <<memory, req>>

CommitSet(p) ==
    /\ pc[p] = "commit" /\ Is(p, "set")
    /\ RecordPolicyMutation(p, WithPermissions(policy, req[p].role, req[p].perms),
                            "replace_role_permissions",
                            PermissionsOf(tx[p].rows, req[p].role), req[p].perms)

(* Mutant: the version advances although the relation is there already.    *)
CommitAddAlways(p) ==
    /\ pc[p] = "commit" /\ Is(p, "add") /\ ~Cycle(p)
    /\ RecordPolicyMutation(p, [policy EXCEPT !.parents = @ \cup {Edge(p)}],
                            "add_role_inheritance", {}, {req[p].parent})

CommitAdd(p) ==
    /\ pc[p] = "commit" /\ Is(p, "add")
    /\ ~Cycle(p) /\ Edge(p) \notin policy.parents
    /\ RecordPolicyMutation(p, [policy EXCEPT !.parents = @ \cup {Edge(p)}],
                            "add_role_inheritance", {}, {req[p].parent})

(* Mutant: a deletion is not recorded.                                     *)
CommitDropUnrecorded(p) ==
    /\ pc[p] = "commit" /\ Is(p, "drop") /\ Edge(p) \in policy.parents
    /\ policy' = [policy EXCEPT !.parents = @ \ {Edge(p)}]
    /\ stateLock' = NoActor
    /\ tx' = [tx EXCEPT ![p] = [NoTx EXCEPT !.version = tx[p].version]]
    /\ Advance(p)
    /\ UNCHANGED <<version, audit, known, past, enforced, memory, req>>

CommitDrop(p) ==
    /\ pc[p] = "commit" /\ Is(p, "drop") /\ Edge(p) \in policy.parents
    /\ RecordPolicyMutation(p, [policy EXCEPT !.parents = @ \ {Edge(p)}],
                            "delete_role_inheritance", {req[p].parent}, {})

(* The relation is there already, or is not there: the current version is  *)
(* returned, and nothing recorded.                                         *)
CommitSame(p) ==
    /\ pc[p] = "commit"
    /\ \/ Is(p, "add") /\ ~Cycle(p) /\ Edge(p) \in policy.parents
       \/ Is(p, "drop") /\ Edge(p) \notin policy.parents
    /\ stateLock' = NoActor
    /\ tx' = [tx EXCEPT ![p] = [NoTx EXCEPT !.version = tx[p].version]]
    /\ Advance(p)
    /\ UNCHANGED <<ledgerVars, memory, req>>

-----------------------------------------------------------------------------
(* Loads.                                                                  *)

(* The reconciler reads the version of the database, then its own.         *)
Poll(r) ==
    /\ pc[r] = "poll"
    /\ tx' = [tx EXCEPT ![r].version = version]
    /\ Advance(r)
    /\ UNCHANGED <<ledgerVars, stateLock, memory, req>>

(* Mutant: only a replica that has loaded nothing reloads.                 *)
BehindNever(r) == enforced[r].version = 0

Behind(r) == tx[r].version # enforced[r].version

Compare(r) ==
    /\ pc[r] = "compare" /\ Behind(r)
    /\ Advance(r)
    /\ UNCHANGED <<ledgerVars, stateLock, memory, req, tx>>

(* Mutant: reloads of a replica overlap.                                   *)
TakeSlotNoWait(a) ==
    /\ pc[a] = "slot"
    /\ Advance(a)
    /\ UNCHANGED <<ledgerVars, stateLock, memory, req, tx>>

(* ReloadPolicy waits for any other reload of the replica.                 *)
TakeSlot(a) ==
    /\ pc[a] = "slot" /\ slot[req[a].at] = NoActor
    /\ slot' = [slot EXCEPT ![req[a].at] = a]
    /\ Advance(a)
    /\ UNCHANGED <<ledgerVars, stateLock, adapterVersion, req, tx>>

ReadBefore(a) ==
    /\ pc[a] = "before"
    /\ tx' = [tx EXCEPT ![a].before = version]
    /\ Advance(a)
    /\ UNCHANGED <<ledgerVars, stateLock, memory, req>>

LoadRows(a) ==
    /\ pc[a] = "load"
    /\ tx' = [tx EXCEPT ![a].rows = policy]
    /\ Advance(a)
    /\ UNCHANGED <<ledgerVars, stateLock, memory, req>>

(* Mutant: the version is read once.                                       *)
StableUnchecked(a) == version >= tx[a].before

(* The version read after the rules is the one read before them.           *)
Stable(a) == version = tx[a].before

Retry(a) ==
    /\ pc[a] = "after" /\ ~Stable(a) /\ tx[a].tries + 1 < Attempts
    /\ tx' = [tx EXCEPT ![a].tries = @ + 1, ![a].before = 0,
                        ![a].rows = Unloaded.policy]
    /\ Goto(a, "before")
    /\ UNCHANGED <<ledgerVars, stateLock, memory, req>>

(* Mutant: the version that was polled or committed is stored.             *)
ReadAfterPolled(a) ==
    /\ pc[a] = "after" /\ ~Is(a, "read") /\ Stable(a)
    /\ adapterVersion' = [adapterVersion EXCEPT ![req[a].at] = tx[a].version]
    /\ Advance(a)
    /\ UNCHANGED <<ledgerVars, stateLock, slot, req, tx>>

(* The end of LoadPolicyContext.                                           *)
ReadAfter(a) ==
    /\ pc[a] = "after" /\ ~Is(a, "read") /\ Stable(a)
    /\ adapterVersion' = [adapterVersion EXCEPT ![req[a].at] = version]
    /\ Advance(a)
    /\ UNCHANGED <<ledgerVars, stateLock, slot, req, tx>>

-----------------------------------------------------------------------------
(* The end of an actor's work: whatever it holds is released.              *)

FinishTo(a, s) ==
    /\ stateLock' = IF stateLock = a THEN NoActor ELSE stateLock
    /\ slot' = [r \in Replica |-> IF slot[r] = a THEN NoActor ELSE slot[r]]
    /\ Goto(a, s)
    /\ req' = [req EXCEPT ![a] = NoRequest]
    /\ tx' = [tx EXCEPT ![a] = NoTx]

(* A start that does not succeed ends the process.                         *)
Finish(a) == FinishTo(a, IF Is(a, "boot") THEN "down" ELSE "idle")

(* The new enforcer and its version replace the old, under the write lock. *)
Publish(a) ==
    /\ pc[a] = "publish"
    /\ enforced' = [enforced EXCEPT ![req[a].at] =
                      [version |-> adapterVersion[req[a].at], policy |-> tx[a].rows]]
    /\ FinishTo(a, "idle")
    /\ UNCHANGED <<policy, version, audit, known, past, adapterVersion>>

(* A reader returns the rules with the version.                            *)
Answer(p) ==
    /\ pc[p] = "after" /\ Is(p, "read") /\ Stable(p)
    /\ Finish(p)
    /\ UNCHANGED <<ledgerVars, adapterVersion>>

UpToDate(r) ==
    /\ pc[r] = "compare" /\ ~Behind(r)
    /\ Finish(r)
    /\ UNCHANGED <<ledgerVars, adapterVersion>>

(* ErrConcurrentModification, ErrUnknownPermissionCode,                    *)
(* ErrRoleInheritanceCycle and ErrPolicyChangedDuringLoad.                 *)
Refused(a) ==
    \/ pc[a] = "lock" /\ stateLock = NoActor /\ Conflict(a)
    \/ pc[a] = "catalog" /\ Unknown(a)
    \/ pc[a] = "commit" /\ Is(a, "add") /\ Cycle(a)
    \/ pc[a] = "after" /\ ~Stable(a) /\ tx[a].tries + 1 >= Attempts

(* Mutant: an error path forgets to roll back, and keeps its locks.        *)
RejectKeepsLocks(a) ==
    /\ Refused(a)
    /\ Goto(a, "idle")
    /\ UNCHANGED <<ledgerVars, stateLock, memory, req, tx>>

Reject(a) == Refused(a) /\ Finish(a) /\ UNCHANGED <<ledgerVars, adapterVersion>>

(* Any statement may fail or time out: a transaction is rolled back, a     *)
(* reload leaves the replica as it is.                                     *)
Fail(a) ==
    /\ pc[a] \notin {"idle", "down"}
    /\ Finish(a)
    /\ UNCHANGED <<ledgerVars, adapterVersion>>

(* A replica ends, with the requests it is serving.                        *)
Crash(r) ==
    LET gone == {a \in Actor : req[a] # NoRequest /\ req[a].at = r}
    IN  /\ r \in Running
        /\ enforced' = [enforced EXCEPT ![r] = Unloaded]
        /\ stateLock' = IF stateLock \in gone THEN NoActor ELSE stateLock
        /\ slot' = [slot EXCEPT ![r] = NoActor]
        /\ adapterVersion' = [adapterVersion EXCEPT ![r] = 0]
        /\ pc' = [a \in Actor |-> IF a = r THEN "down"
                                  ELSE IF a \in gone THEN "idle" ELSE pc[a]]
        /\ req' = [a \in Actor |-> IF a \in gone THEN NoRequest ELSE req[a]]
        /\ tx' = [a \in Actor |-> IF a \in gone THEN NoTx ELSE tx[a]]
        /\ UNCHANGED <<policy, version, audit, known, past>>

(* A migration or the operator sets the status of a code to 0; the UPDATE  *)
(* waits for transactions that share the row.                              *)
Retire(x) ==
    /\ x \in known /\ \A p \in Proc : ~SharesCatalog(p)
    /\ known' = known \ {x}
    /\ UNCHANGED <<policy, version, audit, past, enforced,
                   stateLock, memory, pc, req, tx>>

-----------------------------------------------------------------------------

Write(p) ==
    \/ LockState(p) \/ CheckCatalog(p) \/ ReadRows(p)
    \/ CommitSet(p) \/ CommitAdd(p) \/ CommitDrop(p) \/ CommitSame(p)

Load(a) ==
    \/ TakeSlot(a) \/ ReadBefore(a) \/ LoadRows(a) \/ Retry(a) \/ ReadAfter(a)
    \/ Publish(a) \/ Reject(a)

Serve(p) == Write(p) \/ Load(p) \/ Answer(p)

Reconcile(r) == Poll(r) \/ Compare(r) \/ UpToDate(r) \/ Load(r)

Next ==
    \/ \E p \in Proc :
         \/ BeginSet(p) \/ BeginInherit(p) \/ BeginRead(p)
         \/ Serve(p)
         \/ Fail(p)
    \/ \E r \in Replica :
         \/ Boot(r) \/ Tick(r)
         \/ Reconcile(r)
         \/ Fail(r)
         \/ Crash(r)
    \/ \E x \in Permission : Retire(x)

Spec == Init /\ [][Next]_vars

(* A request keeps executing, and locks and the reload slot are granted in *)
(* order.  The reconciler ticks while its replica runs, and none of its    *)
(* steps fails for ever: a database that is out of reach comes back.       *)
(* Nobody is obliged to ask, to fail or to start a replica.                *)
FairSpec ==
    /\ Spec
    /\ \A p \in Proc : SF_vars(Serve(p))
    /\ \A r \in Replica :
         /\ WF_vars(Tick(r))
         /\ \A s \in {"poll", "compare", "slot", "before", "load", "after", "publish"} :
              SF_vars(pc[r] = s /\ Reconcile(r))

-----------------------------------------------------------------------------
(* Properties.                                                             *)

(* The type invariant of the rows, the enforcers and the local variables:  *)
(* what a proof about the module starts from.                              *)
TypeOK ==
    /\ policy \in Policy
    /\ version \in Nat \ {0}
    /\ audit \in Seq(AuditEntry)
    /\ known \subseteq Permission
    /\ past \subseteq Snapshot
    /\ enforced \in [Replica -> Snapshot]
    /\ stateLock \in Proc \cup {NoActor}
    /\ slot \in [Replica -> Actor \cup {NoActor}]
    /\ adapterVersion \in [Replica -> Nat]
    /\ pc \in [Actor -> Statement]
    /\ req \in [Actor -> Request \cup {NoRequest}]
    /\ tx \in [Actor -> Tx]

(* No interleaving of additions and deletions makes a role inherit itself  *)
(* (AddRoleInheritance), although each addition checks the graph it read   *)
(* one statement before it writes.                                         *)
InheritanceAcyclic == Acyclic(policy.parents)

(* What a replica decides by is a policy that the database has held, under *)
(* its own version, never rules of one version under the number of another *)
(* (adapter.go: a stable snapshot), although rules and versions are read   *)
(* by separate statements while writers commit.                            *)
EnforcedHeld == \A r \in Running : enforced[r] \in past

(* The audit log tells how each version came from the one before it: the   *)
(* entry of a version turns the policy before it into the policy after it, *)
(* and names what was there before.                                        *)
Explains(e, old, new) ==
    CASE e.action = "replace_role_permissions" ->
           /\ e.before = PermissionsOf(old, e.target)
           /\ new = WithPermissions(old, e.target, e.after)
      [] e.action = "add_role_inheritance" ->
           /\ e.before = {} /\ new.grants = old.grants
           /\ \E q \in e.after : /\ <<e.target, q>> \notin old.parents
                                /\ new.parents = old.parents \cup {<<e.target, q>>}
      [] e.action = "delete_role_inheritance" ->
           /\ e.after = {} /\ new.grants = old.grants
           /\ \E q \in e.before : /\ <<e.target, q>> \in old.parents
                                 /\ new.parents = old.parents \ {<<e.target, q>>}

AuditTrail ==
    /\ version = Len(audit) + 1
    /\ [version |-> version, policy |-> policy] \in past
    /\ \A i \in DOMAIN audit :
         /\ audit[i].version = i + 1
         /\ \E old, new \in past :
              /\ old.version = i /\ new.version = i + 1
              /\ Explains(audit[i], old.policy, new.policy)

(* A replica never goes back to an older policy, however the reloads that  *)
(* follow its own writes and those of the reconciler interleave.           *)
NeverBack ==
    [][\A r \in Running : enforced'[r] # Unloaded =>
          enforced'[r].version >= enforced[r].version]_vars

(* A write that names the version its author had read changes exactly the  *)
(* policy of that version: nobody else's change is lost (rolebinding.go,   *)
(* PolicyMutation.ExpectedVersion).                                        *)
NoLostUpdate ==
    [][\A p \in Proc : CommitSet(p) \/ CommitAdd(p) \/ CommitDrop(p) =>
          \A v \in req[p].expected : [version |-> v, policy |-> policy] \in past]_vars

(* A role is only ever granted codes that the catalog holds at the commit  *)
(* (policy_store.go:363): no code is retired between check and commit.     *)
CatalogRespected ==
    [][\A p \in Proc : CommitSet(p) => req[p].perms \ Wildcard \subseteq known]_vars

(* An administrator who reads rules and version gets those of one moment,  *)
(* the lists that are empty included (rolebinding.go, ListBindings).       *)
AnswersHeld ==
    [][\A p \in Proc : Answer(p) =>
          [version |-> version, policy |-> tx[p].rows] \in past]_vars

(* After a write whose reload succeeded, the replica that served it        *)
(* enforces what was written, or something newer.                          *)
ReadYourWrites ==
    [][\A p \in Proc : Publish(p) => enforced'[req[p].at].version >= tx[p].version]_vars

(* A replica that runs on catches up with every committed version.         *)
CatchesUp ==
    \A r \in Replica, v \in 1 .. MaxVersion :
        version >= v /\ r \in Running ~> r \notin Running \/ enforced[r].version >= v

(* Every request is answered, though it waits for locks and for the slot   *)
(* of its replica.                                                         *)
RequestsAnswered == \A p \in Proc : pc[p] # "idle" ~> pc[p] = "idle"

(* Neither a change nor a request is left behind: every running replica    *)
(* catches up (policy_sync.go:35), every request has its answer.           *)
KeepsUp == CatchesUp /\ RequestsAnswered

=============================================================================
