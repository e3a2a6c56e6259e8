------------------------------ MODULE Sessions ------------------------------
(***************************************************************************)
(* Login, refresh, logout, revocation and the access check                 *)
(* (internal/auth/infrastructure/session.go, application/auth.go) as       *)
(* concurrent database transactions, in the manner of AccountRoles: one    *)
(* action is one statement, or several between which nobody can change     *)
(* what they read; a transaction's writes show when it commits.            *)
(*                                                                         *)
(* Roles are AccountRoles' business and left out here.  A login locks its  *)
(* identity's key, and with it the account, which no other identity has.   *)
(***************************************************************************)
EXTENDS SessionLedger

CONSTANTS
    Proc,           \* requests in any replica
    NoProc,
    MaxTime         \* bound on the clock

ASSUME ProcAssumption == NoProc \notin Proc /\ MaxTime \in Nat

VARIABLES
    used,           \* auth_used_credential
    scan,           \* the rows each request's DELETE has still to reach
    credentialLock, \* who is inserting or deleting the row of a credential
    identityLock,   \* who is at the row of an identity
    sessionLock,    \* who is rotating a session
    pc,             \* the statement each request is at
    tx              \* its arguments and local variables

locks == <<credentialLock, identityLock, sessionLock>>
vars == <<now, owner, account, disabled, session, redeemed, issued, token,
          used, scan, credentialLock, identityLock, sessionLock, pc, tx>>

Op == {"login", "refresh", "logout", "revoke", "access"}
Statement == {"idle", "clock", "purge", "delete", "store", "identity", "rotate",
              "status", "grant", "logout", "revoke", "access", "account"}

Tx == [op : Op \cup {"none"},
       credential : Credential \cup {None},
       account : Account \cup {None},   \* candidate of a login; else the caller
       session : Session \cup {None},
       old : Hash \cup {None},          \* the refresh token presented
       new : Hash \cup {None},          \* the one generated
       expires : Nat,                   \* of the new session or token
       time : Nat,                      \* the transaction's time.Now()
       purged : SUBSET Credential,      \* rows it has deleted
       barred : BOOLEAN]                \* history: what an access check began with

NoTx == [op |-> "none", credential |-> None, account |-> None, session |-> None,
         old |-> None, new |-> None, expires |-> 0, time |-> 0, purged |-> {},
         barred |-> FALSE]

Init ==
    /\ LedgerInit
    /\ used = {c \in Credential : redeemed[c] > 0}
    /\ scan = [p \in Proc |-> {}]
    /\ credentialLock = [c \in Credential |-> NoProc]
    /\ identityLock = [x \in External |-> NoProc]
    /\ sessionLock = [s \in Session |-> NoProc]
    /\ pc = [p \in Proc |-> "idle"]
    /\ tx = [p \in Proc |-> NoTx]

Is(p, op) == tx[p].op = op
Identity(p) == Bearer[tx[p].credential]

-----------------------------------------------------------------------------
(* Requests.                                                               *)

Begin(p, s, request) ==
    /\ pc[p] = "idle"
    /\ pc' = [pc EXCEPT ![p] = s]
    /\ tx' = [tx EXCEPT ![p] = request]
    /\ UNCHANGED <<ledgerVars, used, scan, locks>>

(* What crypto/rand has returned to nobody else.                           *)
FreshHash(h) == h \notin issued /\ \A q \in Proc : tx[q].new # h
FreshSession(s) ==
    session[s] = NoRow /\ \A q \in Proc : Is(q, "login") => tx[q].session # s
FreshAccount(a) ==
    a \notin account /\ \A q \in Proc : Is(q, "login") => tx[q].account # a

(* Usecase.Login: the provider's verifier has accepted the credential.     *)
BeginLogin(p) ==
    \E c \in Credential, a \in Account, s \in Session, h \in Hash :
        /\ now < Expiry[c]
        /\ FreshAccount(a) /\ FreshSession(s) /\ FreshHash(h)
        /\ Begin(p, "clock", [NoTx EXCEPT !.op = "login", !.credential = c,
                                          !.account = a, !.session = s, !.new = h,
                                          !.expires = now + RefreshTTL])

(* Refresh tokens the client may hold: any it was given, or a made-up one. *)
Presented == issued \cup {None}

BeginRefresh(p) ==
    \E old \in Presented, h \in Hash :
        /\ FreshHash(h)
        /\ Begin(p, "clock", [NoTx EXCEPT !.op = "refresh", !.old = old, !.new = h,
                                          !.expires = now + RefreshTTL])

BeginLogout(p) ==
    \E old \in Presented :
        Begin(p, "logout", [NoTx EXCEPT !.op = "logout", !.old = old])

(* RevokeMySession: any session but the caller's own.                      *)
BeginRevoke(p) ==
    \E t \in token : \E s \in Session \ {t.session} :
        Begin(p, "revoke", [NoTx EXCEPT !.op = "revoke", !.account = t.account,
                                        !.session = s])

(* The session check of a request with a valid access token.               *)
BeginAccess(p) ==
    \E t \in token :
        Begin(p, "access", [NoTx EXCEPT !.op = "access", !.account = t.account,
                                        !.session = t.session,
                                        !.barred = \/ session[t.session].revoked
                                                   \/ t.account \in disabled])

-----------------------------------------------------------------------------
(* Statements.                                                             *)

Goto(p, s) == pc' = [pc EXCEPT ![p] = s]

(* now := time.Now() of consumeCredential or Rotate.                       *)
ReadClock(p) ==
    /\ pc[p] = "clock"
    /\ Is(p, "login") => now < Expiry[tx[p].credential]
    /\ tx' = [tx EXCEPT ![p].time = now]
    /\ Goto(p, IF Is(p, "login") THEN "purge" ELSE "rotate")
    /\ UNCHANGED <<ledgerVars, used, scan, locks>>

(* Mutant: credentials that are still valid are deleted too.               *)
ExpiredEarly(t) == {c \in used : Expiry[c] <= t + 1}

Expired(t) == {c \in used : Expiry[c] <= t}

(* DELETE of the expired credentials: the rows that are there when it      *)
(* begins, which it then takes one after the other, in any order, keeping  *)
(* those it has while it waits for one that another login is deleting.     *)
Purge(p) ==
    /\ pc[p] = "purge"
    /\ scan' = [scan EXCEPT ![p] = Expired(tx[p].time)]
    /\ Goto(p, "delete")
    /\ UNCHANGED <<ledgerVars, used, locks, tx>>

DeleteRow(p) ==
    /\ pc[p] = "delete"
    /\ \E c \in scan[p] :
         /\ credentialLock[c] = NoProc
         /\ credentialLock' = [credentialLock EXCEPT ![c] = p]
         /\ tx' = [tx EXCEPT ![p].purged = @ \cup {c}]
         /\ scan' = [scan EXCEPT ![p] = @ \ {c}]
    /\ UNCHANGED <<ledgerVars, used, identityLock, sessionLock, pc>>

EndDelete(p) ==
    /\ pc[p] = "delete" /\ scan[p] = {}
    /\ Goto(p, "store")
    /\ UNCHANGED <<ledgerVars, used, scan, locks, tx>>

(* Mutant: a conflict on the key is ignored.                               *)
StoreCredentialIgnoreConflict(p) ==
    /\ pc[p] = "store"
    /\ credentialLock[tx[p].credential] = NoProc
    /\ credentialLock' = [credentialLock EXCEPT ![tx[p].credential] = p]
    /\ Goto(p, "identity")
    /\ UNCHANGED <<ledgerVars, used, scan, identityLock, sessionLock, tx>>

(* INSERT of the credential: waits for a transaction that inserts or       *)
(* deletes the same key.                                                   *)
StoreCredential(p) ==
    /\ pc[p] = "store" /\ tx[p].credential \notin used
    /\ credentialLock[tx[p].credential] = NoProc
    /\ credentialLock' = [credentialLock EXCEPT ![tx[p].credential] = p]
    /\ Goto(p, "identity")
    /\ UNCHANGED <<ledgerVars, used, scan, identityLock, sessionLock, tx>>

(* Mutant: the candidate is kept although the identity has an account.     *)
UpsertIdentityKeepCandidate(p) ==
    /\ pc[p] = "identity"
    /\ identityLock[Identity(p)] = NoProc
    /\ identityLock' = [identityLock EXCEPT ![Identity(p)] = p]
    /\ Goto(p, "grant")
    /\ UNCHANGED <<ledgerVars, used, scan, credentialLock, sessionLock, tx>>

(* Mutant: the identity is looked up before it is inserted, and nothing    *)
(* waits for another login of it.                                          *)
UpsertIdentityNoWait(p) ==
    /\ pc[p] = "identity"
    /\ identityLock' = [identityLock EXCEPT ![Identity(p)] = p]
    /\ tx' = [tx EXCEPT ![p].account = IF owner[Identity(p)] = None THEN @
                                       ELSE owner[Identity(p)]]
    /\ Goto(p, "grant")
    /\ UNCHANGED <<ledgerVars, used, scan, credentialLock, sessionLock>>

(* upsertIdentity: the candidate account, the upsert on the identity's     *)
(* unique key, which waits for any other login of the identity, the        *)
(* account it has, and the removal of the candidate if that is another.    *)
UpsertIdentity(p) ==
    /\ pc[p] = "identity"
    /\ identityLock[Identity(p)] = NoProc
    /\ identityLock' = [identityLock EXCEPT ![Identity(p)] = p]
    /\ tx' = [tx EXCEPT ![p].account = IF owner[Identity(p)] = None THEN @
                                       ELSE owner[Identity(p)]]
    /\ Goto(p, "grant")
    /\ UNCHANGED <<ledgerVars, used, scan, credentialLock, sessionLock>>

(* The rows an UPDATE by refresh token hash finds.                         *)
WithHash(h) == {s \in Session : ~session[s].revoked /\ session[s].hash = h}

(* Mutant: revoked sessions are found as well.                             *)
RefreshableRevoked(p) ==
    {s \in Session : /\ session[s] # NoRow
                     /\ session[s].hash = tx[p].old
                     /\ session[s].expires > tx[p].time}

Refreshable(p) == {s \in WithHash(tx[p].old) : session[s].expires > tx[p].time}

(* Mutant: a read, and not the conditional UPDATE, finds the session.      *)
RotateNoLock(p) ==
    /\ pc[p] = "rotate"
    /\ \E s \in Refreshable(p) :
         /\ tx' = [tx EXCEPT ![p].session = s, ![p].account = owner[session[s].owner]]
         /\ UNCHANGED sessionLock
    /\ Goto(p, "status")
    /\ UNCHANGED <<ledgerVars, used, scan, credentialLock, identityLock>>

(* Mutant: that the UPDATE affected no row goes unnoticed.                 *)
RotateUnchecked(p) ==
    /\ pc[p] = "rotate"
    /\ \E s \in Refreshable(p) \cup {None} :
         /\ s \in Session => sessionLock[s] = NoProc
         /\ sessionLock' = [k \in Session |-> IF k = s THEN p ELSE sessionLock[k]]
         /\ tx' = [tx EXCEPT ![p].session = s,
                             ![p].account = IF s = None THEN None
                                            ELSE owner[session[s].owner]]
    /\ Goto(p, "status")
    /\ UNCHANGED <<ledgerVars, used, scan, credentialLock, identityLock>>

(* The conditional UPDATE of Rotate, then the rows it leads to.  It waits  *)
(* for a transaction that is rotating the session and then looks again.    *)
Rotate(p) ==
    /\ pc[p] = "rotate"
    /\ \E s \in Refreshable(p) :
         /\ sessionLock[s] = NoProc
         /\ sessionLock' = [sessionLock EXCEPT ![s] = p]
         /\ tx' = [tx EXCEPT ![p].session = s, ![p].account = owner[session[s].owner]]
    /\ Goto(p, "status")
    /\ UNCHANGED <<ledgerVars, used, scan, credentialLock, identityLock>>

(* Rotate reads the account, without a lock on it.                         *)
ReadStatus(p) ==
    /\ pc[p] = "status" /\ tx[p].account \notin disabled
    /\ Goto(p, "grant")
    /\ UNCHANGED <<ledgerVars, used, scan, locks, tx>>

(* Mutant: a session that has been revoked passes until it expires.        *)
ReadSessionExpiryOnly(p) ==
    /\ pc[p] = "access"
    /\ session[tx[p].session].expires > now
    /\ owner[session[tx[p].session].owner] = tx[p].account
    /\ Goto(p, "account")
    /\ UNCHANGED <<ledgerVars, used, scan, locks, tx>>

(* AccessActive: the session and its identity.                             *)
ReadSession(p) ==
    /\ pc[p] = "access"
    /\ ~session[tx[p].session].revoked
    /\ session[tx[p].session].expires > now
    /\ owner[session[tx[p].session].owner] = tx[p].account
    /\ Goto(p, "account")
    /\ UNCHANGED <<ledgerVars, used, scan, locks, tx>>

-----------------------------------------------------------------------------
(* The end of a request.                                                   *)

Release(lock, p) == [k \in DOMAIN lock |-> IF lock[k] = p THEN NoProc ELSE lock[k]]

Finish(p) ==
    /\ credentialLock' = Release(credentialLock, p)
    /\ identityLock' = Release(identityLock, p)
    /\ sessionLock' = Release(sessionLock, p)
    /\ pc' = [pc EXCEPT ![p] = "idle"]
    /\ tx' = [tx EXCEPT ![p] = NoTx]

Return(p) ==
    /\ issued' = issued \cup {tx[p].new}
    /\ token' = token \cup {[account |-> tx[p].account, session |-> tx[p].session]}

(* Create from the status check on: session row, signature, COMMIT.  A row *)
(* that it has deleted is passed over by those who waited for it.          *)
CommitLogin(p) ==
    /\ pc[p] = "grant" /\ Is(p, "login") /\ tx[p].account \notin disabled
    /\ used' = (used \ tx[p].purged) \cup {tx[p].credential}
    /\ scan' = [q \in Proc |-> scan[q] \ tx[p].purged]
    /\ owner' = [owner EXCEPT ![Identity(p)] = tx[p].account]
    /\ account' = account \cup {tx[p].account}
    /\ session' = [session EXCEPT ![tx[p].session] =
                     [owner |-> Identity(p), hash |-> tx[p].new,
                      expires |-> tx[p].expires, revoked |-> FALSE]]
    /\ redeemed' = [redeemed EXCEPT ![tx[p].credential] = @ + 1]
    /\ Return(p)
    /\ Finish(p)
    /\ UNCHANGED <<now, disabled>>

(* Rotate from the signature on.                                           *)
CommitRefresh(p) ==
    /\ pc[p] = "grant" /\ Is(p, "refresh")
    /\ session' = [session EXCEPT ![tx[p].session].hash = tx[p].new,
                                  ![tx[p].session].expires = tx[p].expires]
    /\ Return(p)
    /\ Finish(p)
    /\ UNCHANGED <<now, owner, account, disabled, redeemed, used, scan>>

(* An UPDATE that sets revoked_at, outside any transaction.                *)
Revoke(p, s) ==
    /\ sessionLock[s] = NoProc
    /\ session' = [session EXCEPT ![s].revoked = TRUE]
    /\ Finish(p)
    /\ UNCHANGED <<now, owner, account, disabled, redeemed, issued, token, used, scan>>

Logout(p) == pc[p] = "logout" /\ \E s \in WithHash(tx[p].old) : Revoke(p, s)

(* RevokeID: a live session of one of the caller's identities.             *)
Revocable(p) ==
    {s \in {tx[p].session} : /\ ~session[s].revoked
                             /\ owner[session[s].owner] = tx[p].account}

RevokeID(p) == pc[p] = "revoke" /\ \E s \in Revocable(p) : Revoke(p, s)

AllowAccess(p) ==
    /\ pc[p] = "account" /\ tx[p].account \notin disabled
    /\ Finish(p)
    /\ UNCHANGED <<ledgerVars, used, scan>>

(* ErrInvalidIDToken, ErrCredentialUsed, ErrInvalidRefreshToken,           *)
(* ErrAccountDisabled, ErrSessionNotFound and ErrSessionInactive.          *)
Refused(p) ==
    \/ pc[p] = "clock" /\ Is(p, "login") /\ Expiry[tx[p].credential] <= now
    \/ /\ pc[p] = "store" /\ tx[p].credential \in used
       /\ credentialLock[tx[p].credential] = NoProc
    \/ pc[p] = "rotate" /\ Refreshable(p) = {}
    \/ pc[p] = "logout" /\ WithHash(tx[p].old) = {}
    \/ pc[p] = "revoke" /\ Revocable(p) = {}
    \/ /\ pc[p] \in {"status", "account"} \/ (pc[p] = "grant" /\ Is(p, "login"))
       /\ tx[p].account \in disabled
    \/ /\ pc[p] = "access"
       /\ \/ session[tx[p].session].revoked
          \/ session[tx[p].session].expires <= now
          \/ owner[session[tx[p].session].owner] # tx[p].account

(* Mutant: an error path forgets to roll back, and keeps its locks.        *)
RejectKeepsLocks(p) ==
    /\ Refused(p)
    /\ Goto(p, "idle")
    /\ UNCHANGED <<ledgerVars, used, scan, locks, tx>>

(* An error rolls back whatever the request has done, and so does anything *)
(* that fails on the way, the signature included.                          *)
Reject(p) == Refused(p) /\ Finish(p) /\ UNCHANGED <<ledgerVars, used, scan>>

(* Mutant: the credential is not recorded within the transaction.          *)
FailKeepsRecord(p) ==
    /\ pc[p] # "idle" /\ Finish(p)
    /\ used' = used \cup {c \in {tx[p].credential} : pc[p] \in {"identity", "grant"}
                                                      /\ Is(p, "login")}
    /\ scan' = [scan EXCEPT ![p] = {}]
    /\ UNCHANGED ledgerVars

(* Any statement may fail: the database does so to one of the requests     *)
(* that wait for one another in a circle.                                  *)
Fail(p) ==
    /\ pc[p] # "idle" /\ Finish(p)
    /\ scan' = [scan EXCEPT ![p] = {}]
    /\ UNCHANGED <<ledgerVars, used>>

Tick ==
    /\ now < MaxTime
    /\ now' = now + 1
    /\ UNCHANGED <<owner, account, disabled, session, redeemed, issued, token,
                   used, scan, locks, pc, tx>>

(* The operator disables an account: an UPDATE of the account row, which a *)
(* login at its account makes wait.                                        *)
Disable ==
    \E a \in account \ disabled :
        /\ \A x \in External : owner[x] = a => identityLock[x] = NoProc
        /\ disabled' = disabled \cup {a}
        /\ UNCHANGED <<now, owner, account, session, redeemed, issued, token,
                       used, scan, locks, pc, tx>>

Proceed(p) ==
    \/ ReadClock(p) \/ Purge(p) \/ DeleteRow(p) \/ EndDelete(p)
    \/ StoreCredential(p) \/ UpsertIdentity(p)
    \/ Rotate(p) \/ ReadStatus(p) \/ ReadSession(p)
    \/ CommitLogin(p) \/ CommitRefresh(p) \/ Logout(p) \/ RevokeID(p)
    \/ AllowAccess(p) \/ Reject(p)

Next ==
    \/ \E p \in Proc :
         \/ BeginLogin(p) \/ BeginRefresh(p) \/ BeginLogout(p)
         \/ BeginRevoke(p) \/ BeginAccess(p)
         \/ Proceed(p)
         \/ Fail(p)
    \/ Tick
    \/ Disable

Spec == Init /\ [][Next]_vars

-----------------------------------------------------------------------------
(* Properties.                                                             *)

(* The type invariant of the rows and of the requests' local variables.    *)
TypeOK ==
    /\ now \in Nat
    /\ owner \in [External -> Account \cup {None}]
    /\ account \subseteq Account /\ disabled \subseteq account
    /\ session \in [Session -> Row \cup {NoRow}]
    /\ redeemed \in [Credential -> Nat]
    /\ issued \subseteq Hash
    /\ token \subseteq Token
    /\ used \subseteq Credential
    /\ scan \in [Proc -> SUBSET Credential]
    /\ credentialLock \in [Credential -> Proc \cup {NoProc}]
    /\ identityLock \in [External -> Proc \cup {NoProc}]
    /\ sessionLock \in [Session -> Proc \cup {NoProc}]
    /\ pc \in [Proc -> Statement]
    /\ tx \in [Proc -> Tx]

(* What a transaction has found stays true until it commits: the stored    *)
(* credential is nobody else's, the account is the identity's (or both are *)
(* still to be created), and the session being rotated has not been        *)
(* rotated or revoked by anyone else.                                      *)
ClaimsHold ==
    \A p \in Proc :
        /\ pc[p] \in {"identity", "grant"} /\ Is(p, "login") =>
             tx[p].credential \notin used
        /\ pc[p] = "grant" /\ Is(p, "login") =>
             IF owner[Identity(p)] = None THEN tx[p].account \notin account
             ELSE tx[p].account = owner[Identity(p)]
        /\ pc[p] \in {"status", "grant"} /\ Is(p, "refresh") =>
             LET row == session[tx[p].session]
             IN  /\ ~row.revoked /\ row.hash = tx[p].old
                 /\ tx[p].account = owner[row.owner]

(* A credential that is still valid has been exchanged at most once, and   *)
(* once exchanged it is on record, however logins and the removal of       *)
(* expired records interleave.  What is on record has been exchanged: a    *)
(* login that failed leaves no record and may be tried again               *)
(* (session.go:188).                                                       *)
CredentialSpent ==
    \A c \in Credential :
        /\ redeemed[c] > 0 /\ now < Expiry[c] => c \in used /\ redeemed[c] = 1
        /\ c \in used => redeemed[c] > 0

(* domain/auth.go:87: a credential succeeds only once, whatever the time.  *)
CredentialOnce == \A c \in Credential : redeemed[c] <= 1

(* Every account belongs to exactly one identity: concurrent first logins  *)
(* of a person leave no orphan and give nobody two accounts.               *)
OneAccountEach ==
    /\ \A a \in account : \E x \in External : owner[x] = a
    /\ \A x, y \in External : owner[x] = owner[y] /\ x # y => owner[x] = None

(* The account of an identity never changes, so that every access token    *)
(* ever returned still names the owner of its session.                     *)
IdentityStable ==
    [][/\ \A x \in External : owner[x] # None => owner'[x] = owner[x]
       /\ \A t \in token' : owner'[session'[t.session].owner] = t.account]_vars

(* A revoked session is never renewed or restored, not even by a refresh   *)
(* that was under way when it was revoked.                                 *)
RevokedForGood ==
    [][\A s \in Session :
          session[s] # NoRow /\ session[s].revoked => session'[s] = session[s]]_vars

(* A request that starts after its session was revoked or its account      *)
(* disabled is not let in (docs/social-login.md:78), although the check    *)
(* reads its rows one after the other.                                     *)
AccessHonest == [][\A p \in Proc : AllowAccess(p) => ~tx[p].barred]_vars

(* p cannot go on before q ends: it needs a row that q has locked; the     *)
(* next row of a DELETE may be any that it has still to reach.             *)
WaitsFor(p, q) ==
    \/ pc[p] = "delete" /\ \E c \in scan[p] : credentialLock[c] = q
    \/ pc[p] = "store" /\ credentialLock[tx[p].credential] = q
    \/ pc[p] = "identity" /\ identityLock[Identity(p)] = q
    \/ pc[p] = "rotate" /\ \E s \in Refreshable(p) : sessionLock[s] = q
    \/ pc[p] = "logout" /\ \E s \in WithHash(tx[p].old) : sessionLock[s] = q
    \/ pc[p] = "revoke" /\ \E s \in Revocable(p) : sessionLock[s] = q

(* Every one of them waits for another of them.                            *)
Stuck(S) == \A p \in S : \E q \in S : WaitsFor(p, q)

(* Whoever is waited for is still at work, since all ways out of a         *)
(* transaction release its rows (session.go:45).  Waiting in a circle is   *)
(* possible, among logins at the table of used credentials only: one that  *)
(* has deleted some expired rows and waits for another (session.go:194)    *)
(* may be waited for by one that does the same, or that presents a         *)
(* credential the first has deleted (session.go:197).  Every circle goes   *)
(* through such a DELETE, so that the database, which ends a circle by     *)
(* failing a statement, may end it there; no refresh, revocation, or login *)
(* whose credential is stored is ever part of one.                         *)
WaitsEnd ==
    /\ \A p, q \in Proc : WaitsFor(p, q) => pc[q] # "idle"
    /\ \A S \in SUBSET Proc : S # {} /\ Stuck(S) =>
         /\ \A p \in S : pc[p] \in {"delete", "store"}
         /\ \E p \in S : pc[p] = "delete"

=============================================================================
