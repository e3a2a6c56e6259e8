---------------------------- MODULE AccountRoles ----------------------------
(***************************************************************************)
(* The transactions that read and change the roles of one audience         *)
(* (internal/auth/infrastructure/account.go, and the part of a social      *)
(* login in session.go that touches roles), interleaved statement by       *)
(* statement.                                                              *)
(*                                                                         *)
(* A transaction is a connection p of Proc.  It takes exclusive row locks  *)
(* (an UPDATE or an upsert waits for the holder), reads what is committed  *)
(* at the time of each statement (READ COMMITTED), keeps its own writes to *)
(* itself until COMMIT, and loses them when it is rolled back.  One action *)
(* is one statement, or a group of statements between which no other       *)
(* transaction can change what they read.                                  *)
(***************************************************************************)
EXTENDS RoleLedger, FiniteSets

CONSTANTS
    Proc,           \* database connections: requests in any replica, the CLI
    NoProc,         \* "nobody": the value of a free row lock
    MaxRevision     \* bound: writers start only while this is out of reach

ASSUME ProcAssumption == NoProc \notin Proc /\ MaxRevision \in Nat

VARIABLES
    accountLock,    \* who has locked the user_account row
    stateLock,      \* who has locked the audience's account_role_state row
    pc,             \* the statement each transaction is at
    req,            \* what its caller asked for
    view            \* what it has read: revision, initialized, roles

txVars == <<accountLock, stateLock, pc, req, view>>
vars == <<status, roles, marked, initialized, revision, audit,
          accountLock, stateLock, pc, req, view>>

Request ==
    [op : {"replace", "bootstrap", "login", "roles"}, account : Account,
     roles : SUBSET Role, expected : Nat]
NoRequest == [op |-> "none"]

View == [revision : Nat, initialized : BOOLEAN, roles : SUBSET Role]
NoView == [revision |-> 0, initialized |-> FALSE, roles |-> {}]

Statement == {"idle", "account", "audience", "state", "roles", "admins",
              "commit", "reuse", "grant"}

HoldsState == {"roles", "admins", "commit"}

Target(p) == req[p].account
Is(p, op) == req[p].op = op

(* Mutant: a replacement locks the state row before the account.           *)
AfterStateFirst(op, s) ==
    CASE s = "idle"     -> IF op \in {"roles", "replace"} THEN "state" ELSE "account"
      [] s = "account"  -> CASE op = "login" -> "audience"
                             [] op = "replace" -> "roles"
                             [] OTHER -> "state"
      [] s = "audience" -> "state"
      [] s = "state"    -> IF op = "replace" THEN "account" ELSE "roles"
      [] s = "roles"    -> IF op = "replace" THEN "admins" ELSE "commit"
      [] s = "admins"   -> "commit"
      [] s = "reuse"    -> "grant"

(* The order of the statements.  A login that finds its account            *)
(* initialised goes from audience to reuse instead.                        *)
After(op, s) ==
    CASE s = "idle"     -> IF op = "roles" THEN "state" ELSE "account"
      [] s = "account"  -> IF op = "login" THEN "audience" ELSE "state"
      [] s = "audience" -> "state"
      [] s = "state"    -> "roles"
      [] s = "roles"    -> IF op = "replace" THEN "admins" ELSE "commit"
      [] s = "admins"   -> "commit"
      [] s = "reuse"    -> "grant"

Init ==
    /\ LedgerInit
    /\ accountLock = [a \in Account |-> NoProc]
    /\ stateLock = NoProc
    /\ pc = [p \in Proc |-> "idle"]
    /\ req = [p \in Proc |-> NoRequest]
    /\ view = [p \in Proc |-> NoView]

-----------------------------------------------------------------------------
(* The checks that make a transaction return an error.                     *)

(* accountError: the account does not exist.  A login creates it instead.  *)
AccountMissing(p) ==
    \/ pc[p] = "account" /\ ~Is(p, "login") /\ status[Target(p)] = "absent"
    \/ pc[p] = "roles" /\ Is(p, "roles") /\ status[Target(p)] = "absent"

(* ErrAccountDisabled: bootstrap checks at once, a login before it issues. *)
AccountDisabled(p) ==
    /\ \/ pc[p] = "state" /\ Is(p, "bootstrap")
       \/ pc[p] \in {"commit", "grant"} /\ Is(p, "login")
    /\ status[Target(p)] = "disabled"

(* ErrRoleRevisionConflict.                                                *)
RevisionMoved(p) ==
    /\ pc[p] = "roles" /\ Is(p, "replace")
    /\ view[p].revision # req[p].expected

(* Mutant: any other administrator will do, enabled or not.                *)
TakesLastAdminAnyStatus(p) ==
    /\ status[Target(p)] = "enabled"
    /\ Admin \in view[p].roles /\ Admin \notin req[p].roles
    /\ ~\E b \in Account \ {Target(p)} : Admin \in roles[b]

(* Would the assignment take admin from the last enabled administrator?    *)
TakesLastAdmin(p) ==
    /\ status[Target(p)] = "enabled"
    /\ Admin \in view[p].roles /\ Admin \notin req[p].roles
    /\ ~\E b \in Account \ {Target(p)} : b \in EnabledAdmins

(* ErrLastAdmin.                                                           *)
LastAdmin(p) == pc[p] = "admins" /\ TakesLastAdmin(p)

(* Mutant: only the flag is looked at, not the bindings.                   *)
AlreadyInitializedFlagOnly(p) ==
    pc[p] = "roles" /\ Is(p, "bootstrap") /\ view[p].initialized

(* ErrAdminAlreadyInitialized.                                             *)
AlreadyInitialized(p) ==
    /\ pc[p] = "roles" /\ Is(p, "bootstrap")
    /\ view[p].initialized \/ \E b \in Account : Admin \in roles[b]

(* The unique key (audience, revision) of account_role_audit.              *)
AuditTaken(p) ==
    /\ pc[p] = "commit" /\ ~Is(p, "roles")
    /\ \E i \in DOMAIN audit : audit[i].revision = view[p].revision + 1

Refused(p) ==
    \/ AccountMissing(p) \/ AccountDisabled(p) \/ RevisionMoved(p)
    \/ LastAdmin(p) \/ AlreadyInitialized(p) \/ AuditTaken(p)

-----------------------------------------------------------------------------
(* Requests.  Writers start only while MaxRevision leaves room for every   *)
(* transaction under way to commit.                                        *)
Room == revision + Cardinality({p \in Proc : pc[p] # "idle"}) < MaxRevision

Begin(p, r) ==
    /\ pc[p] = "idle"
    /\ pc' = [pc EXCEPT ![p] = After(r.op, "idle")]
    /\ req' = [req EXCEPT ![p] = r]
    /\ UNCHANGED <<ledgerVars, accountLock, stateLock, view>>

(* The administrator sends a revision it has read, perhaps long ago.       *)
BeginReplace(p) ==
    /\ Room
    /\ \E a \in Account, R \in SUBSET Role, e \in 1 .. revision :
         Begin(p, [op |-> "replace", account |-> a, roles |-> R, expected |-> e])

BeginBootstrap(p) ==
    /\ Room
    /\ \E a \in Account :
         Begin(p, [op |-> "bootstrap", account |-> a, roles |-> {}, expected |-> 0])

BeginLogin(p) ==
    /\ Room
    /\ \E a \in Account :
         Begin(p, [op |-> "login", account |-> a, roles |-> {}, expected |-> 0])

BeginRoles(p) ==
    \E a \in Account :
        Begin(p, [op |-> "roles", account |-> a, roles |-> {}, expected |-> 0])

-----------------------------------------------------------------------------
(* Statements of a transaction.                                            *)

Goto(p, s) == pc' = [pc EXCEPT ![p] = s]
Advance(p) == Goto(p, After(req[p].op, pc[p]))

(* UPDATE user_account.  For a login it is the end of upsertIdentity: the  *)
(* unique key of the identity, and then the account row, are its own.      *)
LockAccount(p) ==
    /\ pc[p] = "account" /\ ~Refused(p)
    /\ accountLock[Target(p)] = NoProc
    /\ accountLock' = [accountLock EXCEPT ![Target(p)] = p]
    /\ Advance(p)
    /\ UNCHANGED <<ledgerVars, stateLock, req, view>>

(* ensureAndLoadRoles: was the account initialised in this audience?       *)
ReadAudience(p) ==
    /\ pc[p] = "audience"
    /\ IF Target(p) \in marked THEN Goto(p, "reuse") ELSE Advance(p)
    /\ UNCHANGED <<ledgerVars, accountLock, stateLock, req, view>>

(* loadRoles of a login whose account was initialised: no state lock.      *)
LoadOwnRoles(p) ==
    /\ pc[p] = "reuse"
    /\ view' = [view EXCEPT ![p].roles = roles[Target(p)]]
    /\ Advance(p)
    /\ UNCHANGED <<ledgerVars, accountLock, stateLock, req>>

(* Mutant: the state row is read without waiting for its lock.             *)
ReadState(p) ==
    /\ pc[p] = "state" /\ ~Refused(p)
    /\ stateLock' = p
    /\ view' = [view EXCEPT ![p] = [@ EXCEPT !.revision = revision,
                                             !.initialized = initialized]]
    /\ Advance(p)
    /\ UNCHANGED <<ledgerVars, accountLock, req>>

(* lockAccountRoleState: upsert, UPDATE, and the row as it is now.         *)
LockState(p) ==
    /\ pc[p] = "state" /\ ~Refused(p)
    /\ stateLock = NoProc
    /\ stateLock' = p
    /\ view' = [view EXCEPT ![p] = [@ EXCEPT !.revision = revision,
                                             !.initialized = initialized]]
    /\ Advance(p)
    /\ UNCHANGED <<ledgerVars, accountLock, req>>

(* The checks on the state row, then loadRoles of the target.              *)
LoadRoles(p) ==
    /\ pc[p] = "roles" /\ ~Refused(p)
    /\ view' = [view EXCEPT ![p].roles = roles[Target(p)]]
    /\ Advance(p)
    /\ UNCHANGED <<ledgerVars, accountLock, stateLock, req>>

(* otherEnabledAdmin.                                                      *)
CheckLastAdmin(p) ==
    /\ pc[p] = "admins" /\ ~Refused(p)
    /\ Advance(p)
    /\ UNCHANGED <<ledgerVars, accountLock, stateLock, req, view>>

-----------------------------------------------------------------------------
(* The end of a transaction.                                               *)

(* COMMIT or ROLLBACK releases every row lock of the transaction.          *)
Finish(p) ==
    /\ accountLock' = [a \in Account |->
                         IF accountLock[a] = p THEN NoProc ELSE accountLock[a]]
    /\ stateLock' = IF stateLock = p THEN NoProc ELSE stateLock
    /\ pc' = [pc EXCEPT ![p] = "idle"]
    /\ req' = [req EXCEPT ![p] = NoRequest]
    /\ view' = [view EXCEPT ![p] = NoView]

(* auditAccountRoles: the entry and the revision both come from the state  *)
(* row that was read under the lock.                                       *)
AuditAccountRoles(p, action, after) ==
    /\ audit' = Append(audit, [revision |-> view[p].revision + 1,
                               account |-> Target(p), action |-> action,
                               before |-> view[p].roles, after |-> after])
    /\ revision' = view[p].revision + 1

(* Mutant: a replacement does not mark the account as initialised.         *)
MarkAudienceNotOnReplace(p) ==
    marked' = IF Is(p, "replace") THEN marked ELSE marked \cup {Target(p)}

(* markAudience is idempotent.                                             *)
MarkAudience(p) == marked' = marked \cup {Target(p)}

CommitReplace(p) ==
    /\ pc[p] = "commit" /\ Is(p, "replace") /\ ~Refused(p)
    /\ MarkAudience(p)
    /\ roles' = [roles EXCEPT ![Target(p)] = req[p].roles]
    /\ AuditAccountRoles(p, "roles.replace", req[p].roles)
    /\ Finish(p)
    /\ UNCHANGED <<status, initialized>>

(* Mutant: the audit entry holds the roles before the bootstrap only.      *)
CommitBootstrapAuditsBefore(p) ==
    /\ pc[p] = "commit" /\ Is(p, "bootstrap") /\ ~Refused(p)
    /\ MarkAudience(p)
    /\ roles' = [roles EXCEPT ![Target(p)] = @ \cup {Admin}]
    /\ AuditAccountRoles(p, "admin.bootstrap", view[p].roles)
    /\ initialized' = TRUE
    /\ Finish(p)
    /\ UNCHANGED status

CommitBootstrap(p) ==
    /\ pc[p] = "commit" /\ Is(p, "bootstrap") /\ ~Refused(p)
    /\ MarkAudience(p)
    /\ roles' = [roles EXCEPT ![Target(p)] = @ \cup {Admin}]
    /\ AuditAccountRoles(p, "admin.bootstrap", view[p].roles \cup {Admin})
    /\ initialized' = TRUE
    /\ Finish(p)
    /\ UNCHANGED status

(* Mutant: the default role is not a role key.                             *)
InitialAudienceRolesUnknown(existing) == IF existing = {} THEN {"guest"} ELSE existing

InitialAudienceRoles(existing) == IF existing = {} THEN {User} ELSE existing

(* Mutant: user is added although the account has roles already.           *)
CommitJoinAlwaysUser(p) ==
    /\ pc[p] = "commit" /\ Is(p, "login") /\ ~Refused(p)
    /\ status' = [status EXCEPT ![Target(p)] = "enabled"]
    /\ roles' = [roles EXCEPT ![Target(p)] = @ \cup InitialAudienceRoles({})]
    /\ MarkAudience(p)
    /\ AuditAccountRoles(p, "audience.join", InitialAudienceRoles(view[p].roles))
    /\ Finish(p)
    /\ UNCHANGED initialized

(* A login that joins: the account it may have created, the bindings added *)
(* only when there were none, the mark and the audit entry.                *)
CommitJoin(p) ==
    /\ pc[p] = "commit" /\ Is(p, "login") /\ ~Refused(p)
    /\ status' = [status EXCEPT ![Target(p)] = "enabled"]
    /\ roles' = [roles EXCEPT ![Target(p)] =
                   IF view[p].roles = {} THEN @ \cup InitialAudienceRoles({}) ELSE @]
    /\ MarkAudience(p)
    /\ AuditAccountRoles(p, "audience.join", InitialAudienceRoles(view[p].roles))
    /\ Finish(p)
    /\ UNCHANGED initialized

(* A later login, and Roles, change nothing here.                          *)
CommitRead(p) ==
    /\ \/ pc[p] = "grant"
       \/ pc[p] = "commit" /\ Is(p, "roles")
    /\ ~Refused(p)
    /\ Finish(p)
    /\ UNCHANGED ledgerVars

(* Mutant: an early return forgets to roll back, and keeps its locks.      *)
RejectKeepsLocks(p) ==
    /\ Refused(p)
    /\ Goto(p, "idle")
    /\ UNCHANGED <<ledgerVars, accountLock, stateLock, req, view>>

(* An early return rolls back.                                             *)
Reject(p) == Refused(p) /\ Finish(p) /\ UNCHANGED ledgerVars

(* Any statement may fail: a lost connection, a cancelled context, a token *)
(* that cannot be signed, a crash of the replica.                          *)
Fail(p) == pc[p] # "idle" /\ Finish(p) /\ UNCHANGED ledgerVars

Commit(p) == CommitReplace(p) \/ CommitBootstrap(p) \/ CommitJoin(p) \/ CommitRead(p)

Proceed(p) ==
    \/ LockAccount(p) \/ ReadAudience(p) \/ LoadOwnRoles(p) \/ LockState(p)
    \/ LoadRoles(p) \/ CheckLastAdmin(p) \/ Commit(p) \/ Reject(p)

Next ==
    \E p \in Proc :
        \/ BeginReplace(p) \/ BeginBootstrap(p) \/ BeginLogin(p) \/ BeginRoles(p)
        \/ Proceed(p)
        \/ Fail(p)

Spec == Init /\ [][Next]_vars

-----------------------------------------------------------------------------
(* Properties.                                                             *)

(* The type invariant: every variable ranges over what the rows and the    *)
(* Go variables it stands for can hold.                                    *)
TypeOK ==
    /\ status \in [Account -> Status]
    /\ roles \in [Account -> SUBSET Role]
    /\ marked \subseteq Account
    /\ initialized \in BOOLEAN
    /\ revision \in Nat \ {0}
    /\ audit \in Seq(AuditEntry)
    /\ accountLock \in [Account -> Proc \cup {NoProc}]
    /\ stateLock \in Proc \cup {NoProc}
    /\ pc \in [Proc -> Statement]
    /\ req \in [Proc -> Request \cup {NoRequest}]
    /\ view \in [Proc -> View]

(* p cannot go on before q ends: it needs a row lock that q holds.         *)
WaitsFor(p, q) ==
    \/ pc[p] = "account" /\ accountLock[Target(p)] = q
    \/ pc[p] = "state" /\ stateLock = q

(* Every wait can end.  Whoever is waited for is still at work, since all  *)
(* ways out release the rows (the deferred Rollback, account.go:76); and   *)
(* locks are always taken in the order account, then state row (the        *)
(* comment at account.go:77), so that no set of transactions ever waits    *)
(* for one another in a circle and the database never has to kill one.     *)
WaitsEnd ==
    /\ \A p, q \in Proc : WaitsFor(p, q) => pc[q] # "idle"
    /\ \A S \in (SUBSET Proc) \ {{}} : \E p \in S : \A q \in S : ~WaitsFor(p, q)

(* What a transaction has read or checked is still true when it acts on    *)
(* it, although reads take no lock of their own: the revision and the flag *)
(* from the state lock on, the target's roles once loaded (under the state *)
(* lock, or for a later login under the account lock alone), the mark a    *)
(* login looked at, and at the commit every condition that was checked.    *)
(* So Roles returns roles and revision of one moment, and the token of a   *)
(* login carries the roles of the moment it commits.                       *)
ViewCurrent ==
    \A p \in Proc :
        /\ pc[p] \in HoldsState =>
             view[p].revision = revision /\ view[p].initialized = initialized
        /\ pc[p] \in {"admins", "commit", "grant"} => view[p].roles = roles[Target(p)]
        /\ pc[p] \in {"reuse", "grant"} => Target(p) \in marked
        /\ pc[p] \in {"state", "roles", "commit"} /\ Is(p, "login") =>
             Target(p) \notin marked
        /\ pc[p] = "commit" /\ Is(p, "replace") =>
             revision = req[p].expected /\ ~TakesLastAdmin(p)
        /\ pc[p] = "commit" /\ Is(p, "bootstrap") =>
             ~initialized /\ \A b \in Account : Admin \notin roles[b]

(* The audit log is the whole history of the role bindings: its revisions  *)
(* have no gap and no repetition up to the current one, an entry starts    *)
(* from the roles the account's previous entry left, and the last entry    *)
(* of an account holds its roles now.                                      *)
AuditComplete ==
    /\ revision = Len(audit) + 1
    /\ \A i \in DOMAIN audit : audit[i].revision = i + 1
    /\ \A i \in DOMAIN audit :
         LET later == {j \in i + 1 .. Len(audit) : audit[j].account = audit[i].account}
         IN  IF later = {} THEN roles[audit[i].account] = audit[i].after
             ELSE \E j \in later : audit[j].before = audit[i].after
                                   /\ \A k \in later : j <= k

(* The bootstrap of an administrator succeeds at most once per audience,   *)
(* however many operators run the command at the same time, and only when  *)
(* no role assignment had made an administrator before (domain/account.go, *)
(* the contract of BootstrapAdmin).                                        *)
BootstrapOnce ==
    \A i \in DOMAIN audit : audit[i].action = "admin.bootstrap" =>
        /\ initialized
        /\ \A j \in DOMAIN audit :
             audit[j].action = "admin.bootstrap" => j = i
        /\ \A j \in 1 .. i - 1 :
             Admin \in audit[j].after =>
               \E k \in j + 1 .. i - 1 : audit[k].account = audit[j].account
                                         /\ Admin \notin audit[k].after

(* An audience that has an enabled administrator never loses the last one  *)
(* through this service, however replacements of several administrators    *)
(* interleave (ErrLastAdmin).                                              *)
LastAdminKept == [][EnabledAdmins # {} => EnabledAdmins' # {}]_vars

(* A login never changes the roles of an account that the service changed  *)
(* before: it does not give user back to an account whose roles were       *)
(* cleared, even when it began before they were (contract of Replace).     *)
ClearedStaysCleared ==
    [][\A a \in Account :
          (\E i \in DOMAIN audit : audit[i].account = a) /\ roles'[a] # roles[a] =>
              /\ audit' # audit
              /\ audit'[Len(audit')].account = a
              /\ audit'[Len(audit')].action # "audience.join"]_vars

=============================================================================
