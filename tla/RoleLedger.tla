----------------------------- MODULE RoleLedger -----------------------------
(***************************************************************************)
(* What internal/auth promises about the roles of one audience: every      *)
(* change is one indivisible step that checks its preconditions against    *)
(* the current state, advances the audience's revision by one and appends  *)
(* one audit entry.  No locks, no transactions, no failures.  AccountRoles *)
(* is shown to implement this module.                                      *)
(***************************************************************************)
EXTENDS Naturals, Sequences

CONSTANTS
    Account,    \* subjects of user_account
    Role,       \* role keys
    Admin,      \* the role "admin"
    User,       \* the role "user" given to an account that joins without roles
    SeedRoles   \* role bindings the operator may have provisioned beforehand

ASSUME RolesAssumption ==
    /\ {Admin, User} \subseteq Role
    /\ Admin # User
    /\ SeedRoles \subseteq [Account -> SUBSET Role]

VARIABLES
    status,         \* user_account.status; "absent" when there is no row
    roles,          \* user_role_binding, per account
    marked,         \* user_audience: accounts whose roles were initialised
    initialized,    \* account_role_state.admin_initialized
    revision,       \* account_role_state.revision
    audit           \* account_role_audit, in revision order

ledgerVars == <<status, roles, marked, initialized, revision, audit>>

Status == {"absent", "enabled", "disabled"}

AuditEntry ==
    [revision : Nat, account : Account,
     action : {"roles.replace", "admin.bootstrap", "audience.join"},
     before : SUBSET Role, after : SUBSET Role]

(* The enabled accounts among those that hold admin. *)
EnabledAdmins == {a \in Account : Admin \in roles[a] /\ status[a] = "enabled"}

(* Roles may be provisioned before the service first sees an account, but  *)
(* no change has been made through the service.                            *)
LedgerInit ==
    /\ roles \in SeedRoles
    /\ status \in [Account -> Status]
    /\ \A a \in Account : status[a] = "absent" => roles[a] = {}
    /\ marked = {}
    /\ initialized = FALSE
    /\ revision = 1
    /\ audit = <<>>

(* One change: account a's roles become after, with its audit entry.       *)
Change(a, action, after) ==
    /\ roles' = [roles EXCEPT ![a] = after]
    /\ marked' = marked \cup {a}
    /\ revision' = revision + 1
    /\ audit' = Append(audit, [revision |-> revision + 1, account |-> a,
                               action |-> action,
                               before |-> roles[a], after |-> after])

(* An administrator who read the roles at revision e replaces them by R.   *)
ReplaceRoles(a, R, e) ==
    /\ status[a] # "absent"
    /\ revision = e
    /\ a \in EnabledAdmins /\ Admin \notin R => EnabledAdmins # {a}
    /\ Change(a, "roles.replace", R)
    /\ UNCHANGED <<status, initialized>>

(* The operator's command makes the first administrator, once.             *)
FirstAdmin(a) ==
    /\ status[a] = "enabled"
    /\ ~initialized
    /\ \A b \in Account : Admin \notin roles[b]
    /\ Change(a, "admin.bootstrap", roles[a] \cup {Admin})
    /\ initialized' = TRUE
    /\ UNCHANGED status

(* A first login into the audience creates the account if there is none,   *)
(* and gives it the role user unless it has roles already.                 *)
JoinAudience(a) ==
    /\ status[a] # "disabled"
    /\ a \notin marked
    /\ status' = [status EXCEPT ![a] = "enabled"]
    /\ Change(a, "audience.join", IF roles[a] = {} THEN {User} ELSE roles[a])
    /\ UNCHANGED initialized

LedgerNext ==
    \E a \in Account :
        \/ \E R \in SUBSET Role, e \in 1 .. revision : ReplaceRoles(a, R, e)
        \/ FirstAdmin(a)
        \/ JoinAudience(a)

LedgerSpec == LedgerInit /\ [][LedgerNext]_ledgerVars

=============================================================================
