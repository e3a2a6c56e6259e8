--------------------------- MODULE SessionLedger ----------------------------
(***************************************************************************)
(* What domain.SessionManager promises (internal/auth/domain/auth.go), as  *)
(* indivisible steps: a login redeems a credential of a third-party        *)
(* identity for a session of the identity's account, a refresh replaces    *)
(* the refresh token of a live session, and a revocation is for ever.      *)
(* Sessions is shown to implement this module.                             *)
(***************************************************************************)
EXTENDS Naturals

CONSTANTS
    External,       \* third-party identities: provider and subject there
    Account,        \* random ids that candidate accounts are given
    Session,        \* random session ids
    Hash,           \* hashes of the random refresh tokens
    Credential,     \* ID tokens, which verify as what Bearer and Expiry say
    Bearer, Expiry,
    RefreshTTL,     \* how long a refresh token lives
    Earlier,        \* sets of credentials that logins at another audience, with
                    \* which accounts are shared, may have redeemed at the start
    None            \* no row

ASSUME CredentialAssumption ==
    /\ Bearer \in [Credential -> External]
    /\ Expiry \in [Credential -> Nat]
    /\ RefreshTTL \in Nat
    /\ Earlier \subseteq SUBSET Credential

ASSUME NoneAssumption == None \notin Account \cup Session \cup Hash \cup Credential

VARIABLES
    now,            \* the time
    owner,          \* user_identity: the account of an identity
    account,        \* user_account: the accounts that exist
    disabled,       \* those whose status is not enabled
    session,        \* auth_session
    redeemed,       \* history: how often a credential was exchanged
    issued,         \* history: the hashes that were ever stored
    token           \* history: the access tokens that were ever returned

ledgerVars == <<now, owner, account, disabled, session, redeemed, issued, token>>

Row == [owner : External, hash : Hash, expires : Nat, revoked : BOOLEAN]
NoRow == [revoked |-> TRUE]

Token == [account : Account, session : Session]

(* Credentials may have been redeemed before, at another audience, and     *)
(* left their bearers an account each.                                     *)
LedgerInit ==
    /\ now = 0
    /\ redeemed \in {[c \in Credential |-> IF c \in E THEN 1 ELSE 0] : E \in Earlier}
    /\ owner \in [External -> Account \cup {None}]
    /\ \A x \in External :
         owner[x] # None <=> \E c \in Credential : Bearer[c] = x /\ redeemed[c] > 0
    /\ \A x, y \in External : owner[x] = owner[y] /\ x # y => owner[x] = None
    /\ account = {owner[x] : x \in External} \ {None}
    /\ disabled = {}
    /\ session = [s \in Session |-> NoRow]
    /\ issued = {}
    /\ token = {}

(* The next refresh token of a session is a new one, made up at random.    *)
Issue(h) == h \notin issued /\ issued' = issued \cup {h}

(* The account of the bearer is a, a new one at the first login.  A        *)
(* credential is worth nothing once redeemed, for as long as it is valid.  *)
LoginAs(c, a, s, h, e) ==
    /\ redeemed[c] = 0 \/ Expiry[c] <= now
    /\ IF owner[Bearer[c]] = None THEN a \notin account ELSE a = owner[Bearer[c]]
    /\ a \notin disabled
    /\ session[s] = NoRow
    /\ owner' = [owner EXCEPT ![Bearer[c]] = a]
    /\ account' = account \cup {a}
    /\ session' = [session EXCEPT ![s] = [owner |-> Bearer[c], hash |-> h,
                                          expires |-> e, revoked |-> FALSE]]
    /\ redeemed' = [redeemed EXCEPT ![c] = @ + 1]
    /\ token' = token \cup {[account |-> a, session |-> s]}
    /\ UNCHANGED <<now, disabled>>

(* The holder of the current refresh token gets the next one, once.        *)
Replace(s, old, new, e) ==
    /\ ~session[s].revoked /\ session[s].hash = old
    /\ session' = [session EXCEPT ![s].hash = new, ![s].expires = e]
    /\ token' = token \cup {[account |-> owner[session[s].owner], session |-> s]}
    /\ UNCHANGED <<now, owner, account, disabled, redeemed>>

Terminate(s) ==
    /\ ~session[s].revoked
    /\ session' = [session EXCEPT ![s].revoked = TRUE]
    /\ UNCHANGED <<now, owner, account, disabled, redeemed, issued, token>>

Later ==
    /\ now' = now + 1
    /\ UNCHANGED <<owner, account, disabled, session, redeemed, issued, token>>

(* The operator disables an account.                                       *)
LockOut(a) ==
    /\ disabled' = disabled \cup {a}
    /\ UNCHANGED <<now, owner, account, session, redeemed, issued, token>>

LedgerNext ==
    \/ \E h \in Hash :
         /\ Issue(h)
         /\ \E s \in Session, e \in RefreshTTL .. now + RefreshTTL :
              \/ \E c \in Credential, a \in Account : LoginAs(c, a, s, h, e)
              \/ \E old \in Hash : Replace(s, old, h, e)
    \/ \E s \in Session : Terminate(s)
    \/ \E a \in Account : LockOut(a)
    \/ Later

LedgerSpec == LedgerInit /\ [][LedgerNext]_ledgerVars

=============================================================================
