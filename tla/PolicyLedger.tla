---------------------------- MODULE PolicyLedger ----------------------------
(***************************************************************************)
(* What internal/access and pkg/authz promise about the authorization      *)
(* policy: every change is one indivisible step that advances the version  *)
(* and appends an audit entry, a version names one policy for ever, and a  *)
(* replica enforces a policy the database has held, never an older one     *)
(* than before.  PolicySync is shown to implement this module.             *)
(***************************************************************************)
EXTENDS Naturals, Sequences

CONSTANTS
    Role,           \* role keys
    Permission,     \* permission codes, concrete or with a wildcard
    Wildcard,       \* those with a wildcard
    Replica,        \* processes of the service
    SeedPolicies    \* policies the migrations may have written

Policy == [grants : SUBSET (Role \X Permission), parents : SUBSET (Role \X Role)]
Snapshot == [version : Nat, policy : Policy]

(* A replica that is not running; the versions of the database start at 1. *)
Unloaded == [version |-> 0, policy |-> [grants |-> {}, parents |-> {}]]

(* rolePathExists: is target among the roles that from inherits, directly  *)
(* or not?  Target is in every set closed under the edges; GraphWalks has  *)
(* the search itself.                                                      *)
Reaches(edges, from, target) ==
    \A S \in SUBSET Role :
        /\ from \in S
        /\ \A e \in edges : e[1] \in S => e[2] \in S
        => target \in S

(* No role inherits itself, however long the way.                          *)
Acyclic(edges) == \A e \in edges : ~Reaches(edges, e[2], e[1])

ASSUME PolicyAssumption ==
    /\ Wildcard \subseteq Permission
    /\ SeedPolicies \subseteq {P \in Policy : Acyclic(P.parents)}

VARIABLES
    policy,         \* casbin_rule: p rules (grants) and g rules (parents)
    version,        \* authz_policy_state.version
    audit,          \* authz_policy_audit, in version order
    known,          \* permission_definition: codes with status 1
    past,           \* history: every snapshot the database has held
    enforced        \* the snapshot each replica decides by, or Unloaded

ledgerVars == <<policy, version, audit, known, past, enforced>>

AuditEntry ==
    [version : Nat, target : Role,
     action : {"replace_role_permissions", "add_role_inheritance",
               "delete_role_inheritance"},
     before : SUBSET (Permission \cup Role), after : SUBSET (Permission \cup Role)]

PermissionsOf(P, role) == {x \in Permission : <<role, x>> \in P.grants}

WithPermissions(P, role, perms) ==
    [P EXCEPT !.grants = {g \in @ : g[1] # role} \cup ({role} \X perms)]

LedgerInit ==
    /\ policy \in SeedPolicies
    /\ version = 1
    /\ audit = <<>>
    /\ known = Permission \ Wildcard
    /\ past = {[version |-> version, policy |-> policy]}
    /\ enforced = [r \in Replica |-> Unloaded]

(* One change: the policy becomes P, under the next version.               *)
Change(P, action, target, before, after) ==
    /\ policy' = P
    /\ version' = version + 1
    /\ past' = past \cup {[version |-> version + 1, policy |-> P]}
    /\ audit' = Append(audit, [version |-> version + 1, action |-> action,
                               target |-> target, before |-> before,
                               after |-> after])
    /\ UNCHANGED <<known, enforced>>

(* A role's permissions are replaced by codes of the catalog.              *)
SetPermissions(role, perms) ==
    /\ perms \ Wildcard \subseteq known
    /\ Change(WithPermissions(policy, role, perms), "replace_role_permissions",
              role, PermissionsOf(policy, role), perms)

Inherit(child, parent) ==
    /\ <<child, parent>> \notin policy.parents
    /\ ~Reaches(policy.parents, parent, child)
    /\ Change([policy EXCEPT !.parents = @ \cup {<<child, parent>>}],
              "add_role_inheritance", child, {}, {parent})

Disinherit(child, parent) ==
    /\ <<child, parent>> \in policy.parents
    /\ Change([policy EXCEPT !.parents = @ \ {<<child, parent>>}],
              "delete_role_inheritance", child, {parent}, {})

(* A migration or the operator retires a code of the catalog.              *)
Withdraw(x) ==
    /\ known' = known \ {x}
    /\ UNCHANGED <<policy, version, audit, past, enforced>>

Adopt(r, s) ==
    /\ s.version >= enforced[r].version
    /\ enforced' = [enforced EXCEPT ![r] = s]
    /\ UNCHANGED <<policy, version, audit, known, past>>

Leave(r) ==
    /\ enforced' = [enforced EXCEPT ![r] = Unloaded]
    /\ UNCHANGED <<policy, version, audit, known, past>>

LedgerNext ==
    \/ \E role \in Role, perms \in SUBSET Permission : SetPermissions(role, perms)
    \/ \E child, parent \in Role : Inherit(child, parent) \/ Disinherit(child, parent)
    \/ \E x \in Permission : Withdraw(x)
    \/ \E r \in Replica : Leave(r) \/ \E s \in past : Adopt(r, s)

LedgerSpec == LedgerInit /\ [][LedgerNext]_ledgerVars

=============================================================================
