# Eagle in TLA+

A verification development of Eagle (`eagle-go`), a Go backend that is deployed as
several identical replicas over one PostgreSQL or MySQL database. It models the parts
whose correctness rests on concurrency: the transactions that change the roles of
accounts, the login/refresh/revocation protocol of sessions, the way a change of the
authorization policy reaches the memory of every replica, the navigation tree, the
checks every request passes while keys, sessions and policies change, readiness, and
the start and end of a process. It also checks the pure algorithms on which two parts
of the code have to agree. TLC checks the models on small instances; TLAPS proves every
safety property, action property and refinement of theirs for all values of the
constants. Liveness is left to TLC.

    tlc -workers 2 -config AccountRoles.cfg MCAccountRoles      # any run below
    tlapm AccountRoles_proofs.tla                                # the proofs, and so for the others

## 1. Inventory

Paths are relative to `src/`. "Hard" names the behaviour that makes the part hard to
test, "correct" what has to hold; the hazards in `PROJECT.json` give the lines.

| Component | State it keeps | Operations | Interacts with | Hard | Correct when | Module |
|---|---|---|---|---|---|---|
| **Account roles** `internal/auth/infrastructure/account.go`, `domain/account.go`, `domain/login_policy.go`, `cmd/eagle-admin` | `user_account.status`, `user_role_binding`, `user_audience`, `account_role_state` (revision, flag), `account_role_audit` | `Roles`, `Replace`, `BootstrapAdmin`, `List`; a first login joins an audience | called by login; roles go into tokens | two row locks, reads without locks, races between administrators, failures at each statement | an audience keeps its last administrator, the audit log is complete, bootstrap happens once, cleared roles stay cleared, no lock cycle | `AccountRoles` |
| **Login, refresh, sessions** `internal/auth/infrastructure/session.go`, `application/auth.go`, `domain/auth.go` | `user_identity`, `auth_session`, `auth_used_credential` | `Create`, `Rotate`, `Revoke`, `RevokeID`, `ListActive`, `AccessActive` | providers verify the credential, the issuer signs, account roles join | replay of credentials and refresh tokens, clock, first logins that race, rotation against revocation | a credential is spent, one account per identity, revoked is for ever, an access check that starts after a revocation fails | `Sessions` |
| **Token issuer, key sets** `internal/auth/infrastructure/token.go`, `pkg/authn` | signing key, published keys | sign, verify, serve JWKS | middleware, sessions | rotation: a token signed with a key that verifiers do not know yet | every token issued verifies until it expires | `AuthPipeline` |
| **Identity providers** `internal/auth/infrastructure/provider.go` | remote key sets | verify an ID token | login | outside the program | — | not modelled |
| **Policy store** `internal/access/infrastructure/policy_store.go`, `policy.go`, `application/rolebinding.go` | `casbin_rule`, `authz_policy_state`, `authz_policy_audit` | replace permissions, add/delete inheritance, stable reads | reloads the enforcer of its replica | concurrent graph edits, optimistic versions, catalog rows that are retired | no cycle, no lost update, version and rules change together, complete audit | `PolicySync`, `GraphWalks` |
| **Enforcer, reconciler** `pkg/authz/enforcer.go`, `adapter.go`, `internal/access/infrastructure/policy_sync.go`, `lifecycle.go` | the enforcer and its version, per replica; the reload slot | `NewEnforcer`, `ReloadPolicy`, `AllowContext`, `PermissionsOf`, poll every 5 s | reads the store | torn loads, overlapping reloads, missed reloads, crashes | enforces what the database has held, never goes back, catches up | `PolicySync`, `PolicyDecision`, `Readiness` |
| **Authorization middleware** `pkg/authz/authz.go`, `policy.go` | cache of method policies | authenticate, check session, decide | enforcer, sessions | order of the checks, unknown methods | fails closed | `AuthPipeline` |
| **Permission tree** `internal/access/infrastructure/permission.go`, `domain/permission_tree.go` | `navigation_node`, `permission_tree_state` | create, update, move, delete, list, menus | permission catalog | moves that race, delete against create, revision and rows read separately | acyclic, no orphan, no lost update | `PermissionTree`, `GraphWalks` |
| **Permission codes** `internal/access/domain/permissioncode.go` | — | parse, `Covers`, `Grants` | enforcer's matcher does the same independently | two implementations of one relation | both agree | `PolicyDecision` |
| **Dictionary** `internal/dictionary` | `sys_dict_type`, `sys_dict_data` | CRUD | — | foreign key with cascade, list and count in two statements | no orphan, duplicates refused | not modelled: see section 5 |
| **Health registry** `pkg/healthx` and `policyReadiness` in `lifecycle.go` | registered checks; since when the policy lags | register, unregister, check | load balancer, enforcer | probes that race with a reload, with one another, and with start and stop | lag up to 30 s is tolerated, more is not; recovery clears it | `Readiness`, `Lifecycle` |
| **Process life cycle** `internal/platform/runtime`, `cmd/eagle` | goroutines, listeners | start, stop, cleanup | all | order of cleanup | nothing outlives what it uses | `Lifecycle` |
| **Database access** `pkg/db`, `internal/platform/database` | pool | open, ping | all | — | its locking is the assumption of every model | not modelled: I/O |
| **Transport** `internal/platform/server`, `internal/*/interfaces` | — | convert and map errors | usecases | — | — | not modelled: stateless conversion |
| **Configuration, telemetry** `internal/platform/config`, `pkg/otelx` | — | validate, export | — | — | — | not modelled: no shared state |

How they interact: every RPC passes the middleware (token, session check against
`Sessions`' rows, decision of the replica's enforcer) and reaches a usecase, which runs
one transaction. Replicas share nothing but the database. The only callback from one
component into another's state is the reload of the enforcer after a policy
transaction; everything else a replica learns about changes made elsewhere comes from
the reconciler's poll and from rows it reads again for each request.

## 2. How the models are built

All detailed modules read the same way.

* **A transaction is a process.** `pc[p]` is the statement it is at, `req`/`tx`/`view`
  are its arguments and local variables. One action is one SQL statement, or a few
  between which nobody else can change what they read; every early return of the code
  is a conjunct of `Refused`, and `Reject` rolls back.
* **Rows.** Committed rows are the variables of the abstract module. A transaction's
  writes become visible in the action that commits. Reads see what is committed at the
  time of the statement. The auth transactions ask for READ COMMITTED (`account.go:49`,
  `session.go:41`); the policy transactions take the default isolation, which makes no
  difference because their first statement waits for the lock and any snapshot is
  taken after it.
* **Row locks.** An `UPDATE`, upsert or unique-key insert waits for the transaction that
  holds the row: a lock variable whose free value is `NoProc`/`NoActor`. `COMMIT` and
  `ROLLBACK` release all.
* **Failures.** `Fail` may end a request at any statement: a lost connection, a
  cancelled context, a signing error, a crash of its replica. Nothing that was not
  committed remains.
* **Abstract modules.** `RoleLedger`, `SessionLedger` and `PolicyLedger` say what the
  repository interfaces promise, as indivisible steps with no locks and no failures.
  The first three detailed modules EXTEND their ledger, share its variables (the
  refinement mapping is the identity) and have `LedgerSpec` as a property. The fourth,
  `TreeLedger`, keeps parents and codes where the table keeps rows: `PermissionTree`
  instantiates it with a mapping and has `TreeSpec == Tree!Spec` as a property.
* **Mutants.** Definitions marked "Mutant" are not part of any specification. Each is a
  plausible bug that makes one property fail, and so shows that the property depends on
  the code it is about.

### RoleLedger, AccountRoles, MCAccountRoles

`status`, `roles`, `marked`, `initialized`, `revision`, `audit` are the tables for one
audience (audiences share nothing but accounts, and no role change touches two).
`Replace`, `BootstrapAdmin`, `Roles` and the role part of a login follow `After`, the
order of their statements: `LockAccount` (the account row), `LockState`
(`lockAccountRoleState`), `LoadRoles`, `CheckLastAdmin` (`otherEnabledAdmin`), and a
commit. A login first looks at `user_audience` (`ReadAudience`) and takes no state lock
when the account has joined before (`LoadOwnRoles`). An administrator's expected
revision is any revision there has been. No code changes the status of an existing
account, so it is constant once the account exists; `List` reads only.

### SessionLedger, Sessions, MCSessions

Identities, accounts, sessions and spent credentials, with a clock. `Create` is
`ReadClock`, `Purge` (begin to delete the expired credentials), `DeleteRow` for each of
them, `EndDelete`, `StoreCredential`, `UpsertIdentity`, `CommitLogin`; `Rotate` is `ReadClock`, `Rotate`, `ReadStatus`,
`CommitRefresh`; `Logout`, `RevokeID` and `AccessActive` follow the code. A multi-row
`DELETE` takes its row locks one after the other, in any order, and keeps them while it
waits for the next; `scan` has the rows it has still to reach, less those a commit has
removed meanwhile. `auth_used_credential` and the accounts are shared by audiences, so a
run may start with credentials that were redeemed at another (`Earlier`). Random ids and tokens are fresh model values.
Clients present any token they were given, however old. The verification of an ID token
is taken as given, with `Bearer` and `Expiry`; the clocks of all replicas are one.
`Disable` is the operator's `UPDATE`. Roles of the new token are left to `AccountRoles`.
`redeemed`, `issued`, `token` and `tx.barred` are history variables: no action's guard
depends on `redeemed` or `barred`; `issued` and `token` say what clients may hold.

### PolicyLedger, PolicySync, MCPolicySync

`policy` holds the `p` rules (`grants`) and `g` rules (`parents`), `version` and `audit`
the state row and the log, `known` the catalog, `enforced[r]` the snapshot replica `r`
decides by (`Unloaded` when it is not running), `past` every snapshot the database has
held (history). `rolePathExists` is `Reaches`, by closed sets, which `GraphWalks` justifies.
Requests (`Proc`) run the three transactions and then, committed, the
same `ReloadPolicy` that the reconciler of each replica runs after its poll: wait for
the slot, read the version, the rules, the version again, publish. A failed reload
leaves the replica behind and the request still succeeds (`Fail` after a commit).
Readers (`FindBinding`, `ListBindings`, `ListInheritances`) use the same before/after
check and return the pair. The reconciler actor also stands for the start of its
replica (`Boot`, which needs `Required` codes in the catalog); `Crash` ends a replica
with all its requests at any moment. `Retire` is a migration's or the operator's update
of the catalog, which waits for bindings that share its rows.

### TreeLedger, PermissionTree, MCPermissionTree

`node` is `navigation_node`, `revision` the row of `permission_tree_state` and
`treeLock` its lock; a node keeps its parent and its code. `Create`, `Update` and
`Delete` are `LockTree` (`lockPermissionTree`, which compares the expected revision),
`Check` (the parent, `EnsureNoCycle`, the children, the catalog) and a commit, where the
unique index on the code and a row that is gone are met. The usecase of an update reads
its node first (`FindNode`). Reads are `ReadRevision` and `ReadRow`, two statements with
anything between them; `List` does that for each of its nodes. A client looks at the
node it was sent last and may send that revision back, or none. Ids come from a sequence
and are never used again (`issued`). The ascent of `EnsureNoCycle` is `Above`, by closed
sets, which `GraphWalks` justifies; a new parent in an old cycle cannot occur here, because
`TreeSound` is an invariant. The foreign keys are not relied upon: `TreeSound` holds
without them.

### GraphWalks, MCGraphWalks

`EnsureNoCycle`, `rolePathExists` and `VisibleMenus` as loops. The two over the tree take any
table of rows: also one with an old cycle or a missing parent, which the code guards
against and the locked writers never make. The search for a way back takes any
inheritances, cycles too, and pops and pushes the stack as the code does; `Listings` puts
what a role inherits in any order, since the query asks for none. A role may then be on
the stack twice, and is skipped the second time. `VisibleMenus` ranges over a map it adds
to; `NextEntry` allows what Go allows: any order, an added entry may be produced or not,
and the range may end when the entries of its beginning are done. The specification is
called `WalkSpec`, so that one module can prove things about it and about
`PolicyDecision`.

### Readiness, MCReadiness

`policyReadiness.check` with its mutex. A probe reads the clock (`Begin`), waits
(`Lock`), asks the database (`PolicyVersion`, only while its request has time left) and
compares. `Commit` is any replica's change, `ReloadPolicy` this replica's publication of
a version it has loaded; `PolicySync` shows that it never goes back, and here it is the
assumption that `loaded` grows. `seen` and `behind` are history.

### PolicyDecision, MCPolicyDecision

Codes are sequences of characters, because the enforcer compares bytes: this is the one
place where characters matter. `NewPermissionCode`, `Covers` and `rebuildRoleLinks` are
the source's; `keyMatch`, `HasLink` with its limited depth (`Linked`) and
`GetImplicitPermissionsForUser` (`Implied`) are casbin's, modelled from their use and
marked external. `Means` is the reference: what a code grants, segment by segment. One
`p` rule at a time is enough, because `Enforce` and `PermissionsOf` look at each rule by
itself.

### AuthPipeline, MCAuthPipeline

A request is `Begin` (`bearerToken`), `Verify` (`Verifier.verify` with `selectKey`),
`SessionActive`, `Authorize` (`authz.Server`) and `Handle`, at one replica. Between any
two of these `End` ends a session, `ReloadPolicy` changes what the replica allows, time
passes, and `Rotate`/`Deploy` take the operator's key directory and the replicas through
the four stages of `docs/social-login.md:25`. Sessions and policies are as small here as
the two middlewares see them; `Sessions` and `PolicySync` say how they change. A `kid`
that is published and a signature that fits are one thing. `since` is history: what has
held of the token at some time since the request began.

### Lifecycle, MCLifecycle

The main goroutine's `stage` goes through `run` and `composeApp`, and back through the
deferred calls and `Cleanup`; `reconciler` is the goroutine of `NewPolicyReconciler`;
probes run `Registry.Ready`, which copies the checks under a lock and calls them after
it. `BuildFails` may leave `composeApp` at any of its failing calls. `Exited` is the end.
What the check passes and a reader should know: once `Cleanup` has taken both checks out
of the registry, `/readyz` answers that the process is ready until the metrics server
stops (`ReadyChecked` says "until the process takes itself down").

## 3. What is checked

| Run | Instance | Question and properties |
|---|---|---|
| `account_roles` | 2 accounts, roles admin and user, 2 connections, 2 seeds per account, `MaxRevision` 4; 581,395 states | Do interleaved role changes keep the audience sound? `WaitsEnd` (locks in one order, none left behind), `ViewCurrent` (what was read still holds when acted on), `AuditComplete`, `BootstrapOnce`, `LastAdminKept`, `ClearedStaysCleared`, and the refinement `LedgerSpec` |
| `sessions` | 2 identities, 4 credentials, two of them redeemed at another audience before, or none; 3 accounts, 2 sessions, 3 refresh tokens, 2 requests, `MaxTime` 1; 168,215 states | `ClaimsHold`, `CredentialSpent`, `OneAccountEach`, `WaitsEnd` (nobody waits for one that has ended; circles only through the `DELETE` of expired records), `IdentityStable`, `RevokedForGood`, `AccessHonest`, `LedgerSpec` |
| `credential_once` | as `sessions`, with 3 sessions | expected violation, see section 6 |
| `policy_sync` | 1 replica and its reconciler, 2 requests, 2 roles, 1 code, `MaxVersion` 3; 504,548 states | `InheritanceAcyclic`, `AuditTrail`, `NeverBack`, `NoLostUpdate`, `CatalogRespected`, `AnswersHeld`, `ReadYourWrites`, `LedgerSpec` |
| `policy_sync_replicas` | 2 replicas, 1 request, a code with a wildcard, granted from the start; 443,632 states | `EnforcedHeld`, `LedgerSpec` with reloads that overlap and replicas that crash, restart and learn of each other's writes only by polling |
| `policy_sync_live` | 1 replica, 1 request, 2 attempts per load; 10,610 states | `KeepsUp`: every running replica catches up (`CatchesUp`), every request is answered (`RequestsAnswered`) |
| `permission_tree` | 3 nodes, two of them there at first, 1 code, 2 clients, `MaxRevision` 3; 405,246 states | Do tree edits race? `TreeSound` (no cycle, no orphan, no code twice), `NoLostUpdate`, and the refinement `TreeSpec` |
| `graph_walks` | every table of 4 rows, every argument; up to 6 inheritances between 4 roles; 96,704 states | `WalksAgree`: the three walks compute what they are for |
| `readiness` | 2 overlapping probes, `MaxVersion` 3, `MaxTime` 6; 177,368 states | `LastingLagReported`, `GraceHonoured` |
| `policy_decision` | 3 roles, codes of up to 7 characters over `a 1 : *`; 174,716 states | `DecisionsAgree`: enforcer, domain layer and the meaning of a code |
| `auth_pipeline` | 2 replicas, 1 client, 1 session, 1 role, 2 tokens, `MaxTime` 4; 1,395,460 states | `AdmittedLawfully`, `TokensVerify` through a whole rotation |
| `lifecycle` | 1 process, 2 probes; 3,338 states | `Orderly`, `ReadyChecked`, `CleanupEnds` (wherever the reconciler was, `Cleanup` is done waiting for it); with deadlock checking, that the process can always go on to its exit |

`TypeOK` is checked for `AccountRoles` and `Sessions`. Those of the other modules are part
of the inductive invariants their proofs rest on.

**Bounds.** `MaxRevision` and `MaxVersion` stop new writers, never one under way
(`Room`), so that every transaction can end as the code would end it; two changes after
the start are what the races need (a change, and one that was prepared before it).
Two transactions suffice for every pairwise race over a lock; a third adds only another
waiter. Two roles make the shortest cycle; longer ones go through the same check.
`MaxTime` 1 gives a credential and a session a moment before and a moment after it
expires. Two expired records, of which one was good a moment ago, are what it takes for
two logins to wait for each other in `sessions`, either both at the `DELETE` or one at
the `INSERT`; both circles are among the states. `Attempts` is 5 in the code; with 1 the load gives up at once, with 2 it
retries, and nothing else depends on the number. `policy_sync_live` has one replica: a
version that another replica commits looks, from here, exactly like one whose own reload
failed. Symmetry is used only in runs without liveness, over sets whose elements the
specification never tells apart. Deadlock is checked except in `policy_sync_live`: there
the service may stop for good, because no replica starts while the catalog lacks a code
the service needs.

Three nodes are what a cycle of two moves needs, with a node left to hang them under.
Four rows hold every shape of a walk: a cycle with and without the start, a tail, a
missing parent, two branches. `Grace` is 3 and `Timeout` 2 where the code has 30 s and
2 s: only their order matters, and that probes may begin within one another's time.
`MaxCode` 7 admits three plain segments with two characters to spare, the wildcard at every
place up to the fourth segment, and a plain segment longer than `MaxSegment`. Three
roles give chains longer than a fixed depth of 1; the code's limit grows with the edges,
casbin's own is 10. `TTL` 2, `Leeway` 1 and `MaxTime` 4 let a token be issued, be over,
and be past the leeway. Tokens never interact, so that one client suffices: what races
with its request is the environment. `Rotate` waits for all replicas, and takes the old key away
only when its tokens are over, because the operator is told to.

**Fairness.** Only `policy_sync_live` and `lifecycle` assume any. In the first, a request keeps executing and the
database serves a waiting lock in its turn, hence strong fairness of a waiting step.
Nobody is obliged to ask, to fail, to start a replica, or to let time pass. For
`CatchesUp`, one half of `KeepsUp`, the ticker of a running replica fires (`policy_sync.go:52`) and each step of
the reconciler that is tried again and again succeeds at last: errors are retried at the
next tick for ever, and a database that is out of reach comes back. In `lifecycle`, each step of
`Cleanup` is taken in the end (`closeDB` waits for queries, and those have deadlines), the
reconciler's query and load end within `attemptCtx`'s 5 s (`policy_sync.go:25`), and the
`select`, which chooses at random between a context that is done and a ticker, takes the
context sooner or later (strong fairness of `Return`). Nothing obliges the process to stop.

The transactions of `AccountRoles` and `Sessions` have no loop; what could keep one from its
answer is a wait that never ends. `WaitsEnd` treats that as a safety property. In
`AccountRoles` whoever is waited for is still at work, and nobody waits for himself through
others. In `Sessions` that is so but for one place: a login that has deleted some expired
records and waits for another record (`session.go:194`) can itself be waited for, by a login
that does the same in another order, or by one whose clock was read earlier and that
presents a credential the first has deleted (`session.go:197`). The database ends such a
circle by failing a statement (`Fail`), the login returns an internal error, and the
client may try again. `WaitsEnd` says that this is all: every circle goes through a `DELETE`
under way, and no refresh, revocation, or login past its `INSERT` is part of one. That a
freed lock then goes to each waiter in turn, and that circles are detected, are the
database's promises and not checked.

## 4. What is proved

`AccountRoles_proofs` proves, for any sets of accounts, roles and connections and any
bound, from `RolesAssumption` and `ProcAssumption` only (the constants are what their
comments say):

* `TypeCorrect`, `ViewsStayCurrent`, `NoDeadlock`: from the inductive invariant
  `IInv == TypeOK /\ OnRoute /\ LocksHeld /\ ViewCurrent` (`Invariance`). `ViewCurrent`
  alone is not inductive: that a view stays current needs that its transaction holds the
  lock (`LocksHeld`) and that it is at a statement of its own kind of request
  (`OnRoute`). `WaitsEnd` follows from the order of the locks: a transaction waiting
  for the state row holds no other's account, so a set of waiters has a member that
  waits for nobody in the set, and only a transaction under way holds a lock.
* `Refinement`: every commit is one step of `RoleLedger`, every other action a stutter.
  The commits' preconditions in the ledger speak of the current state, the code checked
  them earlier; `ViewCurrent` bridges the two.
* `LastAdminTheorem`: no step takes the last enabled administrator of an audience.
* `AuditIsComplete`, `BootstrapTheorem`, `ClearedTheorem`: from `AuditInv`, carried over
  the ledger's `Change` once and for all (`AuditInvariance`).

`PermissionTree_proofs` proves `TreeTheorem`, `NoLostUpdateTheorem` and `Refinement` for any
nodes, codes, clients and trees to start from (`ClientAssumption`, `SeedAssumption`). The
inductive invariant adds to `TreeSound` that only the transaction past
`lockPermissionTree` holds the lock (`LockHeld`), that what it has checked of the tree
still holds (`Checked`), and that a node a client looks at is stored as it is while the
revision is the one it came with (`Current`). From `Checked` a commit is a step of
`TreeLedger`, and such a step keeps a forest (`HangKeepsForest`): if `n` is not above its
new parent, the ancestors of that parent are a set without `n`, and a round trip through
`n` would have to leave it by another node. No induction over paths is needed, because
ancestry is defined by sets closed upwards.

`AuthPipeline_proofs` proves `AdmittedTheorem` and `TokensVerifyTheorem`
(`PipelineAssumption`). `PassedInv` ties what the passed checks established to what has
held since the request began; `RotationInv` says that replicas are at most one stage
apart, that the new key signs only when all of them know it, and that the old one goes
only when its tokens are over.

`Readiness_proofs` proves both properties for any number of probes, any grace and any
timeout (`TimeAssumption`). `LagInv` is the strengthening: `lagSince` is no younger than the
first answer that saw the lag, no older than the read that saw it but for one request's
time, and after such an answer whoever holds the mutex has read a version the replica
lacks, so that no probe makes the others forget.

`Lifecycle_proofs` proves `OrderlyTheorem` and `ReadyTheorem` from what is built and
registered at each statement of the main goroutine (`StageInv`) and what a probe under way
can rely on (`ProbeInv`).

`Sessions_proofs` proves everything `sessions` checks, for any identities, credentials,
accounts, sessions, tokens and requests, from `CredentialAssumption`, `NoneAssumption` and
`ProcAssumption`:

* `TypeCorrect`, `ClaimsAlwaysHold`, `CredentialsSpentOnce`, `OneAccountPerPerson` are conjuncts
  of the inductive invariant. They need one another and three more facts. A login has the
  keys of its credential and its identity to itself, and a refresh its session, from the
  statement that finds the row until the end, and nobody else has them (`LocksHeld`, an
  equivalence: a lock that is left behind would be as wrong as one that is missing). What
  was drawn at random is in no row and no other request (`Fresh`). What rows and access
  tokens refer to exists (`RowsLinked`).
* `WaitsAlwaysEnd`: requests that wait for one another in a circle are logins at the table
  of used credentials, one of them still deleting. A login that waits to store its
  credential for one that has deleted the old record read the clock before that one did:
  the credential was still good by the first reading and over by the second. So of the
  logins of a circle that wait to store, the one with the latest reading waits for one that
  is deleting (`WaitsForWhom`, `WaitsCanEnd`); all other locks are taken in one order.
* `IdentityAlwaysStable`, `RevokedStaysRevoked` and `AccessAlwaysHonest` are action properties
  on top of the invariant; `Barred` carries a revocation from the request's begin to the
  statement that meets it.
* `ImplementsLedger`: a commit is a step of `SessionLedger`, all else stutters.

`PolicySync_proofs` proves the safety properties of `policy_sync` and
`policy_sync_replicas` for any roles, codes, catalogs, replicas and requests and any number
of attempts (`PolicyAssumption`, `ActorAssumption`). The inductive invariant says who holds the
state row and each reload slot (`LocksHeld`), that what a transaction has found is so until
it commits (`Checked`), that rules read between two equal readings of the version are that
version's (`LoadsSound`), and that a version names one policy for ever (`History`, a theorem of
its own: `OnePolicyEach`). `EnforcedHeld` alone is not inductive, since a publication is only
as good as the load before it. From it:

* `NeverCyclic`: an edge is added when its start is not reached from its end. The roles
  the end reaches are a closed set without the start; adding it to, or cutting it out of,
  a set that keeps an older edge out of a circle gives one that still does
  (`AddKeepsAcyclic`). No induction over paths.
* `AuditExplainsEveryVersion`, `EnforcedWasHeld`, and as action properties `NeverGoesBack`,
  `NothingLost`, `OnlyKnownCodes`, `AnswersAreSnapshots`, `WritersSeeTheirs`.
  `Alone` is what they share: one reload at a time works at a replica, and so the version its
  adapter remembers is the one of the rules about to be published.
* `WaitsAlwaysEnd`: whoever holds the state row or a slot that another waits for is at work
  and waits for nobody, because a writer gives the state row back before it waits for the
  slot of its replica.
* `ImplementsLedger`: commits, publications, starts and crashes are steps of `PolicyLedger`.

`Decisions_proofs` holds the theorems about the two modules of algorithms.

* `DecisionsAlwaysAgree` (`CharAssumption`): for any roles, alphabet and lengths,
  `DecisionsAgree`. It has two halves. `LinkedIsImplied`: the role manager's search with the
  depth of `rebuildRoleLinks` finds every role that is inherited, because the shortest way
  to a role uses no relation twice and so has no more steps than there are relations
  (`Shortest`, by the pigeonhole principle). `KeyMatchIsCovers` and `CoversIsMeans`: a prefix of
  bytes is a prefix of segments, because the wildcard of an accepted code is a segment of
  its own (`WildcardLast`), so that the prefix ends in a separator, and the separators of
  the target are at the same places (`SamePrefix`, `SameSegments`). Where one would use
  induction, on the length of a way or on the number of a segment, the proof takes the
  least number that goes wrong (`Least`).
* `WalksAreRight` (`NodeAssumption`): for any rows and any finite set of inheritances,
  `WalksAgree`. A climb knows that the parents of the ids it has visited are visited, or
  the one it is at (`Climbed`); the search, that what a role it has seen inherits is seen or
  on its stack (`Searched`, with `Pop` and `Push` for what that does to the stack's range);
  menus, that each entry has its parent beside it, but for those the range has still to
  produce and the one the inner loop is at (`Collected`). When a walk ends the set is
  closed, and no closed set is smaller than `AtOrAbove` or `Inherited`. That the walks do
  end is not proved. With `NeverCyclic` this says that the guard of the code, and not only
  its meaning, keeps roles from inheriting themselves.

Only model-checked are `KeepsUp` and `CleanupEnds`, since TLAPS does not reason about
liveness under fairness, the absence of deadlock, which speaks of ENABLED, and the
disagreement of section 6. Every other property of a run is a theorem.

## 5. What is not modelled

The table of section 1 says which parts and why. Most of the repository's lines are
code that ent and protoc generate (`internal/platform/database/ent`, `api/**/*.pb.go`):
nine tenths of the Go lines that are not tests (62,863 of 70,681). They are builders, getters and
marshalling, with no behaviour of this system in them; the queries they build are
modelled where they are issued. The share of all lines the models stand for is therefore
small, that of the hand-written code of the modelled parts is not.

* **Dictionary.** Create, update and delete are single statements on one row each; the
  foreign key and the unique indexes keep what there is to keep, and a model would restate
  them. `ListTypes` counts and pages in two statements, and says so.
* **Health registry.** A second registration of a name and the cleanup of the first:
  only `healthx_test.go` does that.
* **HTTP.** Listening, draining and the signals are kratos'; in `Lifecycle` `app.Run`
  returns when it returns. Requests are over before `Cleanup` or fail against the closed
  pool, which every model allows as a failure.
* **Identity providers, transport, configuration, telemetry, database access.** Stateless
  conversions, other people's protocols, or I/O.

Inside the modelled parts: formatting, sorting, validation of names, logging and metrics;
the content of tokens other than account, session, roles and expiry; the fields of a
navigation node other than parent and code; the cache of method policies, whose entries
never change; a deletion from the catalog, which no code does and which would set a
node's code to NULL; `otherEnabledAdmin` against a concurrent `UPDATE` of the status by
the operator, who is outside the program.
The composition of `Sessions` with `AccountRoles` is argued, not checked: a login's
statements on identity and account rows come before those on the audience's rows, and
the two modules share only the account lock.

## 6. Findings

`credential_once`: `domain/auth.go:87` says that a credential hash can succeed only once.
`consumeCredential` (`session.go:189`) reads the clock once and inserts the hash some
statements later. If between the two the credential expires and another login removes
its expired record, the insert succeeds a second time and the credential has opened two
sessions. The run needs a login that lives across its credential's expiry; what does
hold is `CredentialSpent`: a credential that is still valid has been redeemed at most
once.

## 7. Plan

Modules in the order they are or will be written; each has an MC module, runs and
mutants as above.

1. `RoleLedger`, `AccountRoles`, `AccountRoles_proofs` — done.
2. `SessionLedger`, `Sessions`, `Sessions_proofs` — done.
3. `PolicyLedger`, `PolicySync`, `PolicySync_proofs` — done.
4. `TreeLedger`, `PermissionTree`, `PermissionTree_proofs`, `GraphWalks` — done.
5. `Readiness`, `Readiness_proofs` — done.
6. `PolicyDecision`, `Decisions_proofs` (with `GraphWalks`' theorem) — done.
7. `AuthPipeline`, `AuthPipeline_proofs`, `Lifecycle`, `Lifecycle_proofs` — done.
