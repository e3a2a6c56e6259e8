-------------------------- MODULE Sessions_proofs ---------------------------
(***************************************************************************)
(* Proofs about Sessions, for any identities, credentials, accounts,       *)
(* sessions and requests.                                                  *)
(*                                                                         *)
(* A login has to itself the key of its credential and of its identity,    *)
(* and a refresh its session, from the statement that finds the row to the *)
(* end (LocksHeld), so that what they found there is still so at COMMIT    *)
(* (ClaimsHold); what was drawn at random is nobody else's until it is     *)
(* stored (Fresh).  From that a COMMIT is a step of SessionLedger.         *)
(***************************************************************************)
EXTENDS Sessions, WellFoundedInduction, TLAPS

(* Which statements each kind of request reaches, and what it carries.     *)
Route == [none    |-> {"idle"},
          login   |-> {"clock", "purge", "delete", "store", "identity", "grant"},
          refresh |-> {"clock", "rotate", "status", "grant"},
          logout  |-> {"logout"},
          revoke  |-> {"revoke"},
          access  |-> {"access", "account"}]

Lifetime == RefreshTTL .. now + RefreshTTL

LoginFields(t) ==
    /\ t.credential \in Credential /\ t.account \in Account
    /\ t.session \in Session /\ t.new \in Hash
    /\ t.expires \in Lifetime /\ t.time <= now
    /\ \A c \in t.purged : Expiry[c] <= t.time

FollowsRoute(p) ==
    /\ pc[p] \in Route[tx[p].op]
    /\ pc[p] = "idle" => tx[p] = NoTx
    /\ Is(p, "login") => LoginFields(tx[p])
    /\ pc[p] \in {"purge", "delete", "store", "identity"} =>
         tx[p].time < Expiry[tx[p].credential]
    /\ pc[p] = "delete" => \A c \in scan[p] : Expiry[c] <= tx[p].time
    /\ Is(p, "refresh") => tx[p].new \in Hash /\ tx[p].expires \in Lifetime
    /\ Is(p, "refresh") /\ pc[p] \in {"status", "grant"} =>
         tx[p].old \in Hash /\ tx[p].session \in Session /\ tx[p].account \in Account
    /\ Is(p, "revoke") => tx[p].session \in Session /\ tx[p].account \in Account
    /\ Is(p, "access") => [account |-> tx[p].account, session |-> tx[p].session] \in token

OnRoute == \A p \in Proc : FollowsRoute(p)

(* A row is locked by the request that is where it needs it, and by nobody *)
(* else.                                                                   *)
LocksCredential(p, c) ==
    /\ Is(p, "login")
    /\ \/ c \in tx[p].purged
       \/ pc[p] \in {"identity", "grant"} /\ c = tx[p].credential

LocksIdentity(p, x) == Is(p, "login") /\ pc[p] = "grant" /\ x = Identity(p)

LocksSession(p, s) ==
    Is(p, "refresh") /\ pc[p] \in {"status", "grant"} /\ s = tx[p].session

LocksHeld ==
    \A p \in Proc :
        /\ \A c \in Credential : credentialLock[c] = p <=> LocksCredential(p, c)
        /\ \A x \in External : identityLock[x] = p <=> LocksIdentity(p, x)
        /\ \A s \in Session : sessionLock[s] = p <=> LocksSession(p, s)

(* A login that may still create the account it carries.                   *)
Candidate(p) ==
    /\ Is(p, "login")
    /\ pc[p] = "grant" => owner[Identity(p)] = None

(* What crypto/rand gave a request is still nobody else's.                 *)
Fresh ==
    \A p \in Proc :
        /\ tx[p].new # None =>
             tx[p].new \notin issued /\ \A q \in Proc \ {p} : tx[q].new # tx[p].new
        /\ Is(p, "login") =>
             /\ session[tx[p].session] = NoRow
             /\ \A q \in Proc \ {p} : Is(q, "login") => tx[q].session # tx[p].session
        /\ Candidate(p) =>
             /\ tx[p].account \notin account
             /\ \A q \in Proc \ {p} : Is(q, "login") => tx[q].account # tx[p].account

(* What the rows and the access tokens refer to is there.                  *)
RowsLinked ==
    /\ \A x \in External : owner[x] # None => owner[x] \in account
    /\ \A s \in Session : session[s] # NoRow => owner[session[s].owner] # None
    /\ \A t \in token : session[t.session] # NoRow /\ owner[session[t.session].owner] = t.account

(* What made a request not to be let in is still so when it is checked.    *)
Barred ==
    \A p \in Proc : tx[p].barred =>
        /\ pc[p] = "access" => session[tx[p].session].revoked \/ tx[p].account \in disabled
        /\ pc[p] = "account" => tx[p].account \in disabled

(* The inductive invariant.                                                *)
IInv ==
    /\ TypeOK /\ OnRoute /\ LocksHeld /\ Fresh /\ RowsLinked /\ Barred
    /\ ClaimsHold /\ CredentialSpent /\ OneAccountEach

-----------------------------------------------------------------------------
(* What the type invariant says of a request.                              *)

LEMMA Fields ==
    ASSUME TypeOK, NEW p \in Proc
    PROVE  /\ pc[p] \in Statement /\ tx[p] \in Tx
           /\ tx[p].op \in Op \cup {"none"} /\ tx[p].credential \in Credential \cup {None}
           /\ tx[p].account \in Account \cup {None} /\ tx[p].session \in Session \cup {None}
           /\ tx[p].old \in Hash \cup {None} /\ tx[p].new \in Hash \cup {None}
           /\ tx[p].expires \in Nat /\ tx[p].time \in Nat
           /\ tx[p].purged \in SUBSET Credential /\ tx[p].barred \in BOOLEAN
  BY DEF TypeOK, Tx

(* The statement a request is at tells which kind it is.                   *)
LEMMA KindOf ==
    ASSUME TypeOK, OnRoute, NEW p \in Proc
    PROVE  /\ pc[p] = "idle" <=> Is(p, "none")
           /\ pc[p] = "clock" => Is(p, "login") \/ Is(p, "refresh")
           /\ pc[p] \in {"purge", "delete", "store", "identity"} => Is(p, "login")
           /\ pc[p] \in {"rotate", "status"} => Is(p, "refresh")
           /\ pc[p] = "grant" => Is(p, "login") \/ Is(p, "refresh")
           /\ pc[p] = "logout" => Is(p, "logout")
           /\ pc[p] = "revoke" => Is(p, "revoke")
           /\ pc[p] \in {"access", "account"} => Is(p, "access")
  <1>1. tx[p].op \in Op \cup {"none"} /\ pc[p] \in Route[tx[p].op]
    BY Fields DEF OnRoute, FollowsRoute
  <1> QED
    BY <1>1 DEF Route, Is, Op

LEMMA NoTxIsTx == NoTx \in Tx /\ NoTx.op = "none" /\ NoTx.new = None
  BY DEF NoTx, Tx

LEMMA RowIsNotNoRow == NoRow \notin Row
  <1>1. "owner" \notin DOMAIN NoRow
    BY DEF NoRow
  <1>2. \A r \in Row : "owner" \in DOMAIN r
    BY DEF Row
  <1> QED
    BY <1>1, <1>2

(* A row that is not revoked is a row.                                     *)
LEMMA LiveIsRow ==
    ASSUME TypeOK, NEW s \in Session
    PROVE  /\ ~session[s].revoked => session[s] \in Row
           /\ session[s] \in Row => session[s] # NoRow
           /\ session[s] # NoRow => session[s] \in Row
  <1>1. session[s] \in Row \cup {NoRow}
    BY DEF TypeOK
  <1>2. NoRow.revoked
    BY DEF NoRow
  <1> QED
    BY <1>1, <1>2, RowIsNotNoRow

(* The rows that logins at another audience may have left.                 *)
LEMMA EarlierRows ==
    ASSUME LedgerInit
    PROVE  /\ redeemed \in [Credential -> {0, 1}]
           /\ account \subseteq Account
           /\ \A x \in External : owner[x] # None => owner[x] \in account
           /\ \A a \in account : \E x \in External : owner[x] = a
           /\ \A x, y \in External : owner[x] = owner[y] /\ x # y => owner[x] = None
  <1>1. PICK E \in Earlier : redeemed = [c \in Credential |-> IF c \in E THEN 1 ELSE 0]
    BY DEF LedgerInit
  <1>2. redeemed \in [Credential -> {0, 1}]
    BY <1>1
  <1>3. /\ owner \in [External -> Account \cup {None}]
        /\ account = {owner[x] : x \in External} \ {None}
        /\ \A x, y \in External : owner[x] = owner[y] /\ x # y => owner[x] = None
    BY DEF LedgerInit
  <1> QED
    BY <1>2, <1>3

LEMMA InitInv == Init => IInv
  <1> SUFFICES ASSUME Init PROVE IInv
    OBVIOUS
  <1>1. TypeOK
    <2>1. /\ redeemed \in [Credential -> Nat] /\ used \subseteq Credential
          /\ owner \in [External -> Account \cup {None}]
          /\ account \subseteq Account /\ disabled \subseteq account
          /\ now \in Nat /\ issued \subseteq Hash /\ token \subseteq Token
          /\ session \in [Session -> Row \cup {NoRow}]
      <3>1. redeemed \in [Credential -> {0, 1}] /\ account \subseteq Account
        BY EarlierRows DEF Init
      <3>2. \A f \in [Credential -> {0, 1}] : f \in [Credential -> Nat]
        OBVIOUS
      <3>3. redeemed \in [Credential -> Nat]
        BY <3>1, <3>2
      <3>4. /\ owner \in [External -> Account \cup {None}] /\ now = 0
            /\ disabled = {} /\ issued = {} /\ token = {}
            /\ session = [s \in Session |-> NoRow]
            /\ used = {c \in Credential : redeemed[c] > 0}
        BY DEF Init, LedgerInit
      <3> QED
        BY <3>1, <3>3, <3>4
    <2>2. /\ scan \in [Proc -> SUBSET Credential]
          /\ credentialLock \in [Credential -> Proc \cup {NoProc}]
          /\ identityLock \in [External -> Proc \cup {NoProc}]
          /\ sessionLock \in [Session -> Proc \cup {NoProc}]
          /\ pc \in [Proc -> Statement] /\ tx \in [Proc -> Tx]
      BY NoTxIsTx DEF Init, Statement
    <2> QED
      BY <2>1, <2>2 DEF TypeOK
  <1>2. OnRoute
    BY NoTxIsTx DEF Init, OnRoute, FollowsRoute, Route, Is
  <1>3. LocksHeld
    BY NoTxIsTx, ProcAssumption
       DEF Init, LocksHeld, Is, LocksCredential, LocksIdentity, LocksSession
  <1>4. Fresh
    BY NoTxIsTx DEF Init, Fresh, Candidate, Is
  <1>5. RowsLinked
    <2>1. session = [s \in Session |-> NoRow] /\ token = {}
      BY DEF Init, LedgerInit
    <2> QED
      BY <2>1, EarlierRows DEF Init, RowsLinked
  <1>6. Barred
    BY DEF Init, Barred, NoTx
  <1>7. ClaimsHold
    BY NoTxIsTx DEF Init, ClaimsHold
  <1>8. CredentialSpent
    <2>1. redeemed \in [Credential -> {0, 1}] /\ used = {c \in Credential : redeemed[c] > 0}
      BY EarlierRows DEF Init
    <2> QED
      BY <2>1 DEF CredentialSpent
  <1>9. OneAccountEach
    BY EarlierRows DEF Init, OneAccountEach
  <1> QED
    BY <1>1, <1>2, <1>3, <1>4, <1>5, <1>6, <1>7, <1>8, <1>9 DEF IInv

-----------------------------------------------------------------------------
(* What a step of one request leaves of what is said of the others.        *)

LEMMA Elsewhere ==
    ASSUME NEW q \in Proc, UNCHANGED <<now, token>>,
           pc'[q] = pc[q], tx'[q] = tx[q], scan'[q] \subseteq scan[q], FollowsRoute(q)
    PROVE  FollowsRoute(q)'
  BY DEF FollowsRoute, Is, LoginFields, Lifetime, Route

(* What a request came with, which no statement of it changes.             *)
SameRequest(t, u) ==
    /\ u.op = t.op /\ u.credential = t.credential /\ u.old = t.old
    /\ u.new = t.new /\ u.expires = t.expires /\ u.barred = t.barred

LEMMA Onward ==
    ASSUME NEW p \in Proc, UNCHANGED <<now, token>>, FollowsRoute(p),
           SameRequest(tx[p], tx'[p]), pc'[p] # "idle", pc'[p] \in Route[tx[p].op],
           Is(p, "login") =>
             /\ tx'[p].account \in Account /\ tx'[p].session \in Session
             /\ tx'[p].time <= now /\ \A c \in tx'[p].purged : Expiry[c] <= tx'[p].time,
           pc'[p] \in {"purge", "delete", "store", "identity"} =>
             tx'[p].time < Expiry[tx[p].credential],
           pc'[p] = "delete" => \A c \in scan'[p] : Expiry[c] <= tx'[p].time,
           Is(p, "refresh") /\ pc'[p] \in {"status", "grant"} =>
             tx[p].old \in Hash /\ tx'[p].session \in Session /\ tx'[p].account \in Account,
           Is(p, "revoke") \/ Is(p, "access") =>
             UNCHANGED <<tx[p].account, tx[p].session>>
    PROVE  FollowsRoute(p)'
  <1>1. (pc[p] \in Route[tx[p].op])'
    BY DEF SameRequest, Route
  <1>2. (Is(p, "login") => LoginFields(tx[p]))'
    BY DEF SameRequest, Is, FollowsRoute, LoginFields, Lifetime
  <1>3. (Is(p, "refresh") => tx[p].new \in Hash /\ tx[p].expires \in Lifetime)'
    BY DEF SameRequest, Is, FollowsRoute, Lifetime
  <1> QED
    BY <1>1, <1>2, <1>3 DEF SameRequest, Is, FollowsRoute

(* Nothing is drawn and nothing is stored in this step.                    *)
LEMMA StillFresh ==
    ASSUME Fresh, UNCHANGED <<issued, account, session>>,
           \A q \in Proc :
             /\ tx'[q].new \in {None, tx[q].new}
             /\ Is(q, "login")' =>
                  /\ Is(q, "login") /\ tx'[q].session = tx[q].session
                  /\ tx'[q].account \in {tx[q].account} \cup account
             /\ Candidate(q)' => Candidate(q) /\ tx'[q].account = tx[q].account
    PROVE  Fresh'
  BY DEF Fresh, Is, Candidate

-----------------------------------------------------------------------------
(* Requests begin.                                                         *)

(* What the request that begins carries.                                   *)
Drawn(r) ==
    /\ r.op \in {"login", "refresh"} =>
         r.new \in Hash /\ FreshHash(r.new) /\ r.expires \in Lifetime
    /\ r.op = "login" =>
         /\ r.credential \in Credential
         /\ r.account \in Account /\ FreshAccount(r.account)
         /\ r.session \in Session /\ FreshSession(r.session)
    /\ r.op \in {"logout", "revoke", "access"} => r.new = None
    /\ r.op = "revoke" => r.session \in Session /\ r.account \in Account
    /\ r.op = "access" => [account |-> r.account, session |-> r.session] \in token
    /\ r.barred =>
         r.op = "access" /\ (session[r.session].revoked \/ r.account \in disabled)

LEMMA BeginKeeps ==
    ASSUME IInv, NEW p \in Proc, NEW s, NEW r,
           r \in Tx, r.op # "none", s \in Route[r.op],
           s \notin {"purge", "delete", "store", "identity", "rotate", "status", "grant", "account"},
           r.purged = {}, r.time = 0, Drawn(r), Begin(p, s, r)
    PROVE  IInv'
  <1> USE DEF IInv
  <1>1. s \in Statement /\ s # "idle"
    BY DEF Route, Statement, Tx, Op
  <1>2. /\ pc'[p] = s /\ tx'[p] = r /\ tx[p] = NoTx /\ pc[p] = "idle"
        /\ pc' \in [Proc -> Statement] /\ tx' \in [Proc -> Tx]
        /\ \A q \in Proc \ {p} : pc'[q] = pc[q] /\ tx'[q] = tx[q]
    BY <1>1 DEF Begin, TypeOK, OnRoute, FollowsRoute
  <1>3. UNCHANGED <<now, owner, account, disabled, session, redeemed, issued, token,
                    used, scan, credentialLock, identityLock, sessionLock>>
    BY DEF Begin, ledgerVars, locks
  <1>4. TypeOK'
    BY <1>2, <1>3 DEF TypeOK
  <1>5. OnRoute'
    <2>1. ASSUME NEW q \in Proc, q # p PROVE FollowsRoute(q)'
      BY <1>2, <1>3, <2>1, Elsewhere DEF OnRoute, ledgerVars
    <2>2. /\ r.op = "login" => LoginFields(r)
          /\ r.op = "refresh" => r.new \in Hash /\ r.expires \in Lifetime
          /\ r.op = "revoke" => r.session \in Session /\ r.account \in Account
          /\ r.op = "access" => [account |-> r.account, session |-> r.session] \in token
      BY DEF Drawn, LoginFields, TypeOK
    <2>3. UNCHANGED Lifetime /\ s \notin {"purge", "delete", "store", "identity", "status", "grant"}
      BY <1>3 DEF Lifetime
    <2>4. FollowsRoute(p)'
      BY <1>1, <1>2, <1>3, <2>2, <2>3 DEF FollowsRoute, Is, LoginFields, Route
    <2> QED
      BY <2>1, <2>4 DEF OnRoute
  <1>6. LocksHeld'
    <2>1. /\ ~Is(p, "login") /\ ~Is(p, "refresh")
          /\ s \notin {"store", "identity", "grant", "status"}
      BY <1>2, NoTxIsTx DEF Is
    <2> QED
      BY <1>2, <1>3, <2>1
         DEF LocksHeld, Is, LocksCredential, LocksIdentity, LocksSession, Identity
  <1>7. Fresh'
    <2>1. /\ r.new # None => r.new \notin issued /\ \A q \in Proc : tx[q].new # r.new
          /\ r.op = "login" => FreshAccount(r.account) /\ FreshSession(r.session)
      BY DEF Drawn, FreshHash, Tx, Op
    <2>2. tx[p].new = None /\ ~Is(p, "login")
      BY <1>2, NoTxIsTx DEF Is
    <2>3. Tx = Tx' /\ \A q \in Proc \ {p} : Candidate(q)' <=> Candidate(q)
      BY <1>2, <1>3 DEF Candidate, Is, Identity, Tx
    <2> QED
      BY <1>2, <1>3, <2>1, <2>2, <2>3
         DEF Fresh, Candidate, FreshAccount, FreshSession, Is
  <1>8. RowsLinked'
    BY <1>3 DEF RowsLinked
  <1>9. Barred'
    BY <1>2, <1>3 DEF Barred, Drawn
  <1>10. ClaimsHold' /\ CredentialSpent' /\ OneAccountEach'
    BY <1>2, <1>3 DEF ClaimsHold, CredentialSpent, OneAccountEach, Is, Identity
  <1> QED
    BY <1>4, <1>5, <1>6, <1>7, <1>8, <1>9, <1>10

LEMMA BeginInv ==
    ASSUME IInv, NEW p \in Proc,
           BeginLogin(p) \/ BeginRefresh(p) \/ BeginLogout(p)
             \/ BeginRevoke(p) \/ BeginAccess(p)
    PROVE  IInv'
  <1> USE DEF IInv
  <1>0. now + RefreshTTL \in Lifetime /\ now + RefreshTTL \in Nat
    BY CredentialAssumption DEF TypeOK, Lifetime
  <1>1. CASE BeginLogin(p)
    <2>1. PICK c \in Credential, a \in Account, s \in Session, h \in Hash :
            /\ FreshAccount(a) /\ FreshSession(s) /\ FreshHash(h)
            /\ Begin(p, "clock", [NoTx EXCEPT !.op = "login", !.credential = c,
                                     !.account = a, !.session = s, !.new = h,
                                     !.expires = now + RefreshTTL])
      BY <1>1 DEF BeginLogin
    <2> DEFINE r == [NoTx EXCEPT !.op = "login", !.credential = c,
                                 !.account = a, !.session = s, !.new = h,
                                 !.expires = now + RefreshTTL]
    <2>2. /\ r \in Tx /\ r.op = "login" /\ r.purged = {} /\ r.time = 0
          /\ "clock" \in Route[r.op]
      BY <1>0 DEF NoTx, Tx, Op, Route
    <2>3. Drawn(r)
      BY <1>0, <2>1 DEF Drawn, NoTx
    <2>4. Begin(p, "clock", r)
      BY <2>1
    <2> HIDE DEF r
    <2> QED
      BY <2>2, <2>3, <2>4, BeginKeeps
  <1>2. CASE BeginRefresh(p)
    <2>1. PICK old \in Presented, h \in Hash :
            /\ FreshHash(h)
            /\ Begin(p, "clock", [NoTx EXCEPT !.op = "refresh", !.old = old, !.new = h,
                                              !.expires = now + RefreshTTL])
      BY <1>2 DEF BeginRefresh
    <2> DEFINE r == [NoTx EXCEPT !.op = "refresh", !.old = old, !.new = h,
                                 !.expires = now + RefreshTTL]
    <2>2. /\ r \in Tx /\ r.op = "refresh" /\ r.purged = {} /\ r.time = 0
          /\ "clock" \in Route[r.op]
      BY <1>0 DEF NoTx, Tx, Op, Route, Presented, TypeOK
    <2>3. Drawn(r)
      BY <1>0, <2>1 DEF Drawn, NoTx
    <2>4. Begin(p, "clock", r)
      BY <2>1
    <2> HIDE DEF r
    <2> QED
      BY <2>2, <2>3, <2>4, BeginKeeps
  <1>3. CASE BeginLogout(p)
    <2>1. PICK old \in Presented :
            Begin(p, "logout", [NoTx EXCEPT !.op = "logout", !.old = old])
      BY <1>3 DEF BeginLogout
    <2> DEFINE r == [NoTx EXCEPT !.op = "logout", !.old = old]
    <2>2. /\ r \in Tx /\ r.op = "logout" /\ r.purged = {} /\ r.time = 0
          /\ "logout" \in Route[r.op]
      BY DEF NoTx, Tx, Op, Route, Presented, TypeOK
    <2>3. Drawn(r)
      BY DEF Drawn, NoTx
    <2>4. Begin(p, "logout", r)
      BY <2>1
    <2> HIDE DEF r
    <2> QED
      BY <2>2, <2>3, <2>4, BeginKeeps
  <1>4. CASE BeginRevoke(p)
    <2>1. PICK t \in token : \E s \in Session \ {t.session} :
            Begin(p, "revoke", [NoTx EXCEPT !.op = "revoke", !.account = t.account,
                                            !.session = s])
      BY <1>4 DEF BeginRevoke
    <2>2. PICK s \in Session \ {t.session} :
            Begin(p, "revoke", [NoTx EXCEPT !.op = "revoke", !.account = t.account,
                                            !.session = s])
      BY <2>1
    <2> DEFINE r == [NoTx EXCEPT !.op = "revoke", !.account = t.account, !.session = s]
    <2>3. t \in Token
      BY DEF TypeOK
    <2>4. /\ r \in Tx /\ r.op = "revoke" /\ r.purged = {} /\ r.time = 0
          /\ "revoke" \in Route[r.op]
      BY <2>3 DEF NoTx, Tx, Op, Route, Token
    <2>5. Drawn(r)
      BY <2>3 DEF Drawn, NoTx, Token
    <2>6. Begin(p, "revoke", r)
      BY <2>2
    <2> HIDE DEF r
    <2> QED
      BY <2>4, <2>5, <2>6, BeginKeeps
  <1>5. CASE BeginAccess(p)
    <2>1. PICK t \in token :
            Begin(p, "access", [NoTx EXCEPT !.op = "access", !.account = t.account,
                                            !.session = t.session,
                                            !.barred = \/ session[t.session].revoked
                                                       \/ t.account \in disabled])
      BY <1>5 DEF BeginAccess
    <2> DEFINE b == session[t.session].revoked \/ t.account \in disabled
               r == [NoTx EXCEPT !.op = "access", !.account = t.account,
                                 !.session = t.session, !.barred = b]
    <2>2. t \in Token /\ t = [account |-> t.account, session |-> t.session]
      BY DEF TypeOK, Token
    <2>3. b \in BOOLEAN
      BY Zenon
    <2>4. /\ r \in Tx /\ r.op = "access" /\ r.purged = {} /\ r.time = 0
          /\ "access" \in Route[r.op]
      <3> HIDE DEF b
      <3> QED
        BY <2>2, <2>3 DEF NoTx, Tx, Op, Route, Token
    <2>5. Drawn(r)
      <3>1. /\ r.op = "access" /\ r.session = t.session /\ r.account = t.account
            /\ r.new = None /\ r.barred = b
        <4> HIDE DEF b
        <4> QED
          BY DEF NoTx
      <3> HIDE DEF r
      <3> QED
        BY <2>2, <3>1 DEF Drawn
    <2>6. Begin(p, "access", r)
      BY <2>1
    <2> HIDE DEF r
    <2> QED
      BY <2>4, <2>5, <2>6, BeginKeeps
  <1> QED
    BY <1>1, <1>2, <1>3, <1>4, <1>5

-----------------------------------------------------------------------------
(* Requests end.                                                           *)

(* What every end does to the request itself and to the locks.             *)
LEMMA Ended ==
    ASSUME TypeOK, LocksHeld, NEW p \in Proc, Finish(p)
    PROVE  /\ pc' \in [Proc -> Statement] /\ tx' \in [Proc -> Tx]
           /\ pc'[p] = "idle" /\ tx'[p] = NoTx
           /\ \A q \in Proc \ {p} : pc'[q] = pc[q] /\ tx'[q] = tx[q]
           /\ credentialLock' \in [Credential -> Proc \cup {NoProc}]
           /\ identityLock' \in [External -> Proc \cup {NoProc}]
           /\ sessionLock' \in [Session -> Proc \cup {NoProc}]
           /\ LocksHeld'
  <1> USE DEF Finish, Release
  <1>1. /\ pc' \in [Proc -> Statement] /\ tx' \in [Proc -> Tx]
        /\ pc'[p] = "idle" /\ tx'[p] = NoTx
        /\ \A q \in Proc \ {p} : pc'[q] = pc[q] /\ tx'[q] = tx[q]
    BY NoTxIsTx DEF TypeOK, Statement
  <1>2. /\ credentialLock' \in [Credential -> Proc \cup {NoProc}]
        /\ \A c \in Credential, q \in Proc :
             credentialLock'[c] = q <=> credentialLock[c] = q /\ q # p
    BY ProcAssumption DEF TypeOK
  <1>3. /\ identityLock' \in [External -> Proc \cup {NoProc}]
        /\ \A x \in External, q \in Proc :
             identityLock'[x] = q <=> identityLock[x] = q /\ q # p
    BY ProcAssumption DEF TypeOK
  <1>4. /\ sessionLock' \in [Session -> Proc \cup {NoProc}]
        /\ \A s \in Session, q \in Proc :
             sessionLock'[s] = q <=> sessionLock[s] = q /\ q # p
    BY ProcAssumption DEF TypeOK
  <1>5. LocksHeld'
    BY <1>1, <1>2, <1>3, <1>4, NoTxIsTx
       DEF LocksHeld, LocksCredential, LocksIdentity, LocksSession, Is, Identity
  <1> QED
    BY <1>1, <1>2, <1>3, <1>4, <1>5

(* What a request that has ended leaves of what is said of each request.   *)
LEMMA EndKeeps ==
    ASSUME IInv, NEW p \in Proc, Finish(p), UNCHANGED <<ledgerVars, used>>,
           scan' \in {scan, [scan EXCEPT ![p] = {}]}
    PROVE  IInv'
  <1> USE DEF IInv
  <1>1. /\ pc' \in [Proc -> Statement] /\ tx' \in [Proc -> Tx]
        /\ pc'[p] = "idle" /\ tx'[p] = NoTx
        /\ \A q \in Proc \ {p} : pc'[q] = pc[q] /\ tx'[q] = tx[q]
        /\ LocksHeld'
    BY Ended
  <1>2. UNCHANGED <<now, owner, account, disabled, session, redeemed, issued, token, used>>
    BY DEF ledgerVars
  <1>a. scan' \in [Proc -> SUBSET Credential] /\ \A q \in Proc \ {p} : scan'[q] = scan[q]
    BY DEF TypeOK
  <1>3. TypeOK'
    BY <1>2, <1>a, Ended DEF TypeOK
  <1>4. OnRoute'
    <2>1. FollowsRoute(p)'
      BY <1>1, NoTxIsTx DEF FollowsRoute, Is, Route
    <2> QED
      BY <1>1, <1>2, <1>a, <2>1, Elsewhere DEF OnRoute
  <1>5. Fresh'
    BY <1>1, <1>2, NoTxIsTx, StillFresh DEF Candidate, Is, Identity
  <1>6. RowsLinked'
    BY <1>2 DEF RowsLinked
  <1>7. Barred'
    BY <1>1, <1>2, NoTxIsTx DEF Barred
  <1>8. ClaimsHold' /\ CredentialSpent' /\ OneAccountEach'
    BY <1>1, <1>2, NoTxIsTx DEF ClaimsHold, CredentialSpent, OneAccountEach, Is, Identity
  <1> QED
    BY <1>1, <1>3, <1>4, <1>5, <1>6, <1>7, <1>8


-----------------------------------------------------------------------------
(* Requests go on.                                                         *)

LEMMA ReadClockKeeps ==
    ASSUME IInv, NEW p \in Proc, ReadClock(p)
    PROVE  IInv'
  <1> USE DEF IInv
  <1>1. /\ pc[p] = "clock" /\ pc' \in [Proc -> Statement] /\ tx' \in [Proc -> Tx]
        /\ pc'[p] = IF Is(p, "login") THEN "purge" ELSE "rotate"
        /\ SameRequest(tx[p], tx'[p])
        /\ tx'[p].time = now /\ now \in Nat
        /\ UNCHANGED <<tx[p].account, tx[p].session, tx[p].purged>>
        /\ Is(p, "login") => now < Expiry[tx[p].credential]
        /\ \A q \in Proc \ {p} : pc'[q] = pc[q] /\ tx'[q] = tx[q]
    <2>1. tx[p] \in Tx /\ now \in Nat /\ tx' = [tx EXCEPT ![p].time = now]
      BY Fields DEF ReadClock, TypeOK
    <2>2. [tx[p] EXCEPT !.time = now] \in Tx
      BY <2>1 DEF Tx
    <2>3. tx' \in [Proc -> Tx] /\ tx'[p] = [tx[p] EXCEPT !.time = now]
      BY <2>1, <2>2 DEF TypeOK
    <2>4. SameRequest(tx[p], tx'[p]) /\ tx'[p].time = now
          /\ UNCHANGED <<tx[p].account, tx[p].session, tx[p].purged>>
      BY <2>1, <2>3 DEF Tx, SameRequest
    <2> QED
      BY <2>1, <2>3, <2>4 DEF ReadClock, Goto, TypeOK, Statement
  <1>2. UNCHANGED <<now, owner, account, disabled, session, redeemed, issued, token, used, scan>>
    BY DEF ReadClock, ledgerVars
  <1>3. UNCHANGED <<credentialLock, identityLock, sessionLock>>
    BY DEF ReadClock, locks
  <1>4. Is(p, "login") \/ Is(p, "refresh")
    BY <1>1, KindOf
  <1>5. TypeOK'
    BY <1>1, <1>2, <1>3 DEF TypeOK
  <1>6. OnRoute'
    <2>1. FollowsRoute(p) /\ pc'[p] # "idle" /\ pc'[p] \in Route[tx[p].op]
      BY <1>1, <1>4 DEF OnRoute, Route, Is
    <2>2. Is(p, "login") =>
            /\ tx[p].account \in Account /\ tx[p].session \in Session
            /\ \A c \in tx[p].purged : Expiry[c] <= now
      BY <1>1, <2>1, Fields, CredentialAssumption DEF FollowsRoute, LoginFields
    <2>3. pc'[p] \notin {"identity", "status", "grant"} /\ now <= now
      BY <1>1
    <2>4. FollowsRoute(p)'
      BY <1>1, <1>2, <1>4, <2>1, <2>2, <2>3, Onward DEF SameRequest, Is
    <2> QED
      BY <1>1, <1>2, <2>4, Elsewhere DEF OnRoute
  <1>7. LocksHeld'
    BY <1>1, <1>2, <1>3, <1>4
       DEF SameRequest, LocksHeld, LocksCredential, LocksIdentity, LocksSession, Is, Identity
  <1>8. Fresh'
    BY <1>1, <1>2, <1>4, StillFresh DEF SameRequest, Candidate, Is, Identity
  <1>9. RowsLinked' /\ CredentialSpent' /\ OneAccountEach'
    BY <1>2 DEF RowsLinked, CredentialSpent, OneAccountEach
  <1>10. Barred'
    BY <1>1, <1>2, <1>4 DEF SameRequest, Barred, Is
  <1>11. ClaimsHold'
    BY <1>1, <1>2, <1>4 DEF SameRequest, ClaimsHold, Is, Identity
  <1> QED
    BY <1>5, <1>6, <1>7, <1>8, <1>9, <1>10, <1>11

LEMMA PurgeKeeps ==
    ASSUME IInv, NEW p \in Proc, Purge(p)
    PROVE  IInv'
  <1> USE DEF IInv
  <1>1. /\ pc[p] = "purge" /\ pc' \in [Proc -> Statement] /\ tx' \in [Proc -> Tx]
        /\ pc'[p] = "delete" /\ tx' = tx
        /\ \A q \in Proc \ {p} : pc'[q] = pc[q] /\ tx'[q] = tx[q]
    BY DEF Purge, Goto, TypeOK, Statement
  <1>2. UNCHANGED <<now, owner, account, disabled, session, redeemed, issued, token, used>>
    BY DEF Purge, ledgerVars
  <1>3. /\ scan' \in [Proc -> SUBSET Credential] /\ scan'[p] = Expired(tx[p].time)
        /\ \A q \in Proc \ {p} : scan'[q] = scan[q]
        /\ UNCHANGED <<credentialLock, identityLock, sessionLock>>
    BY DEF Purge, locks, TypeOK, Expired
  <1>4. Is(p, "login")
    BY <1>1, KindOf
  <1>5. TypeOK'
    BY <1>1, <1>2, <1>3 DEF TypeOK
  <1>6. OnRoute'
    <2>1. FollowsRoute(p) /\ pc'[p] # "idle" /\ pc'[p] \in Route[tx[p].op]
      BY <1>1, <1>4 DEF OnRoute, Route, Is
    <2>2. \A c \in scan'[p] : Expiry[c] <= tx[p].time
      BY <1>3 DEF Expired
    <2>3. FollowsRoute(p)'
      BY <1>1, <1>2, <1>4, <2>1, <2>2, Onward DEF FollowsRoute, LoginFields, SameRequest, Is
    <2> QED
      BY <1>1, <1>2, <1>3, <2>3, Elsewhere DEF OnRoute
  <1>7. LocksHeld'
    BY <1>1, <1>2, <1>3, <1>4
       DEF SameRequest, LocksHeld, LocksCredential, LocksIdentity, LocksSession, Is, Identity
  <1>8. Fresh'
    BY <1>1, <1>2, <1>4, StillFresh DEF SameRequest, Candidate, Is, Identity
  <1>9. RowsLinked' /\ CredentialSpent' /\ OneAccountEach'
    BY <1>2 DEF RowsLinked, CredentialSpent, OneAccountEach
  <1>10. Barred'
    BY <1>1, <1>2, <1>4 DEF SameRequest, Barred, Is
  <1>11. ClaimsHold'
    BY <1>1, <1>2, <1>4 DEF SameRequest, ClaimsHold, Is, Identity
  <1> QED
    BY <1>5, <1>6, <1>7, <1>8, <1>9, <1>10, <1>11

LEMMA DeleteRowKeeps ==
    ASSUME IInv, NEW p \in Proc, DeleteRow(p)
    PROVE  IInv'
  <1> USE DEF IInv
  <1>0. PICK c \in scan[p] :
          /\ credentialLock' = [credentialLock EXCEPT ![c] = p]
          /\ credentialLock[c] = NoProc
          /\ tx' = [tx EXCEPT ![p].purged = @ \cup {c}]
          /\ scan' = [scan EXCEPT ![p] = @ \ {c}]
    BY DEF DeleteRow
  <1>1. /\ pc[p] = "delete" /\ pc' \in [Proc -> Statement] /\ tx' \in [Proc -> Tx]
        /\ pc' = pc /\ c \in Credential
        /\ SameRequest(tx[p], tx'[p]) /\ tx'[p].purged = tx[p].purged \cup {c}
        /\ UNCHANGED <<tx[p].account, tx[p].session, tx[p].time>>
        /\ \A q \in Proc \ {p} : pc'[q] = pc[q] /\ tx'[q] = tx[q]
    <2>1. c \in Credential /\ tx[p] \in Tx /\ tx[p].purged \in SUBSET Credential
      BY Fields DEF TypeOK
    <2>2. [tx[p] EXCEPT !.purged = @ \cup {c}] \in Tx
      BY <2>1 DEF Tx
    <2>3. tx' \in [Proc -> Tx] /\ tx'[p] = [tx[p] EXCEPT !.purged = @ \cup {c}]
      BY <1>0, <2>2 DEF TypeOK
    <2>4. SameRequest(tx[p], tx'[p]) /\ tx'[p].purged = tx[p].purged \cup {c}
          /\ UNCHANGED <<tx[p].account, tx[p].session, tx[p].time>>
      BY <2>1, <2>3 DEF Tx, SameRequest
    <2> QED
      BY <1>0, <2>1, <2>3, <2>4 DEF DeleteRow, TypeOK
  <1>2. UNCHANGED <<now, owner, account, disabled, session, redeemed, issued, token, used>>
    BY DEF DeleteRow, ledgerVars
  <1>3. /\ credentialLock' \in [Credential -> Proc \cup {NoProc}]
        /\ \A d \in Credential, q \in Proc :
             credentialLock'[d] = q <=> credentialLock[d] = q \/ (q = p /\ d = c)
        /\ scan' \in [Proc -> SUBSET Credential]
        /\ \A q \in Proc : scan'[q] \subseteq scan[q]
        /\ UNCHANGED <<identityLock, sessionLock>>
    BY <1>0, <1>1, ProcAssumption DEF DeleteRow, TypeOK
  <1>4. Is(p, "login")
    BY <1>1, KindOf
  <1>5. TypeOK'
    BY <1>1, <1>2, <1>3 DEF TypeOK
  <1>6. OnRoute'
    <2>1. FollowsRoute(p) /\ pc'[p] # "idle" /\ pc'[p] \in Route[tx[p].op]
      BY <1>1, <1>4 DEF OnRoute, Route, Is
    <2>2. \A d \in scan[p] \cup tx'[p].purged : Expiry[d] <= tx[p].time
      BY <1>0, <1>1, <1>4, <2>1 DEF FollowsRoute, LoginFields
    <2>3. FollowsRoute(p)'
      BY <1>1, <1>2, <1>3, <1>4, <2>1, <2>2, Onward
         DEF FollowsRoute, LoginFields, SameRequest, Is
    <2> QED
      BY <1>1, <1>2, <1>3, <2>3, Elsewhere DEF OnRoute
  <1>7. LocksHeld'
    BY <1>1, <1>2, <1>3, <1>4
       DEF SameRequest, LocksHeld, LocksCredential, LocksIdentity, LocksSession, Is, Identity
  <1>8. Fresh'
    BY <1>1, <1>2, <1>4, StillFresh DEF SameRequest, Candidate, Is, Identity
  <1>9. RowsLinked' /\ CredentialSpent' /\ OneAccountEach'
    BY <1>2 DEF RowsLinked, CredentialSpent, OneAccountEach
  <1>10. Barred'
    BY <1>1, <1>2, <1>4 DEF SameRequest, Barred, Is
  <1>11. ClaimsHold'
    BY <1>1, <1>2, <1>4 DEF SameRequest, ClaimsHold, Is, Identity
  <1> QED
    BY <1>5, <1>6, <1>7, <1>8, <1>9, <1>10, <1>11

LEMMA EndDeleteKeeps ==
    ASSUME IInv, NEW p \in Proc, EndDelete(p)
    PROVE  IInv'
  <1> USE DEF IInv
  <1>1. /\ pc[p] = "delete" /\ pc' \in [Proc -> Statement] /\ tx' \in [Proc -> Tx]
        /\ pc'[p] = "store" /\ tx' = tx
        /\ \A q \in Proc \ {p} : pc'[q] = pc[q] /\ tx'[q] = tx[q]
    BY DEF EndDelete, Goto, TypeOK, Statement
  <1>2. UNCHANGED <<now, owner, account, disabled, session, redeemed, issued, token, used, scan>>
    BY DEF EndDelete, ledgerVars
  <1>3. UNCHANGED <<credentialLock, identityLock, sessionLock>>
    BY DEF EndDelete, locks
  <1>4. Is(p, "login")
    BY <1>1, KindOf
  <1>5. TypeOK'
    BY <1>1, <1>2, <1>3 DEF TypeOK
  <1>6. OnRoute'
    <2>1. FollowsRoute(p) /\ pc'[p] # "idle" /\ pc'[p] \in Route[tx[p].op]
      BY <1>1, <1>4 DEF OnRoute, Route, Is
    <2>2. FollowsRoute(p)'
      BY <1>1, <1>2, <1>4, <2>1, Onward DEF FollowsRoute, LoginFields, SameRequest, Is
    <2> QED
      BY <1>1, <1>2, <2>2, Elsewhere DEF OnRoute
  <1>7. LocksHeld'
    BY <1>1, <1>2, <1>3, <1>4
       DEF SameRequest, LocksHeld, LocksCredential, LocksIdentity, LocksSession, Is, Identity
  <1>8. Fresh'
    BY <1>1, <1>2, <1>4, StillFresh DEF SameRequest, Candidate, Is, Identity
  <1>9. RowsLinked' /\ CredentialSpent' /\ OneAccountEach'
    BY <1>2 DEF RowsLinked, CredentialSpent, OneAccountEach
  <1>10. Barred'
    BY <1>1, <1>2, <1>4 DEF SameRequest, Barred, Is
  <1>11. ClaimsHold'
    BY <1>1, <1>2, <1>4 DEF SameRequest, ClaimsHold, Is, Identity
  <1> QED
    BY <1>5, <1>6, <1>7, <1>8, <1>9, <1>10, <1>11

LEMMA StoreCredentialKeeps ==
    ASSUME IInv, NEW p \in Proc, StoreCredential(p)
    PROVE  IInv'
  <1> USE DEF IInv
  <1>1. /\ pc[p] = "store" /\ pc' \in [Proc -> Statement] /\ tx' \in [Proc -> Tx]
        /\ pc'[p] = "identity"
        /\ tx'[p] = tx[p] /\ tx[p].credential \notin used
        /\ \A q \in Proc \ {p} : pc'[q] = pc[q] /\ tx'[q] = tx[q]
    BY Fields DEF StoreCredential, Goto, TypeOK, Statement, Tx, SameRequest
  <1>2. UNCHANGED <<now, owner, account, disabled, session, redeemed, issued, token, used, scan>>
    BY DEF StoreCredential, ledgerVars
  <1>3. /\ credentialLock' \in [Credential -> Proc \cup {NoProc}]
        /\ \A c \in Credential, q \in Proc :
             credentialLock'[c] = q <=>
               credentialLock[c] = q \/ (q = p /\ c = tx[p].credential)
        /\ UNCHANGED <<identityLock, sessionLock>>
    BY ProcAssumption DEF StoreCredential, TypeOK
  <1>4. Is(p, "login")
    BY <1>1, KindOf
  <1>5. TypeOK'
    BY <1>1, <1>2, <1>3 DEF TypeOK
  <1>6. OnRoute'
    <2>1. FollowsRoute(p) /\ pc'[p] # "idle" /\ pc'[p] \in Route[tx[p].op]
      BY <1>1, <1>4 DEF OnRoute, Route, Is
    <2>2. FollowsRoute(p)'
      BY <1>1, <1>2, <1>4, <2>1, Onward DEF FollowsRoute, LoginFields, SameRequest, Is
    <2> QED
      BY <1>1, <1>2, <2>2, Elsewhere DEF OnRoute
  <1>7. LocksHeld'
    BY <1>1, <1>2, <1>3, <1>4
       DEF SameRequest, LocksHeld, LocksCredential, LocksIdentity, LocksSession, Is, Identity
  <1>8. Fresh'
    BY <1>1, <1>2, <1>4, StillFresh DEF SameRequest, Candidate, Is, Identity
  <1>9. RowsLinked' /\ CredentialSpent' /\ OneAccountEach'
    BY <1>2 DEF RowsLinked, CredentialSpent, OneAccountEach
  <1>10. Barred'
    BY <1>1, <1>2, <1>4 DEF SameRequest, Barred, Is
  <1>11. ClaimsHold'
    BY <1>1, <1>2, <1>4 DEF SameRequest, ClaimsHold, Is, Identity
  <1> QED
    BY <1>5, <1>6, <1>7, <1>8, <1>9, <1>10, <1>11

LEMMA UpsertIdentityKeeps ==
    ASSUME IInv, NEW p \in Proc, UpsertIdentity(p)
    PROVE  IInv'
  <1> USE DEF IInv
  <1>0. Is(p, "login") /\ Identity(p) \in External /\ LoginFields(tx[p])
    <2>1. Is(p, "login") /\ LoginFields(tx[p])
      BY KindOf DEF UpsertIdentity, OnRoute, FollowsRoute
    <2> QED
      BY <2>1, CredentialAssumption DEF LoginFields, Identity
  <1> DEFINE a == IF owner[Identity(p)] = None THEN tx[p].account ELSE owner[Identity(p)]
  <1>a. a \in Account /\ (owner[Identity(p)] # None => a \in account)
    BY <1>0 DEF TypeOK, RowsLinked, LoginFields
  <1>1. /\ pc[p] = "identity" /\ pc' \in [Proc -> Statement] /\ tx' \in [Proc -> Tx]
        /\ pc'[p] = "grant"
        /\ SameRequest(tx[p], tx'[p])
        /\ tx'[p].account = a
        /\ UNCHANGED <<tx[p].session, tx[p].time, tx[p].purged>>
        /\ \A q \in Proc \ {p} : pc'[q] = pc[q] /\ tx'[q] = tx[q]
    <2>1. tx' = [tx EXCEPT ![p].account = a]
      BY DEF UpsertIdentity
    <2> HIDE DEF a
    <2>2. tx[p] \in Tx /\ [tx[p] EXCEPT !.account = a] \in Tx
      BY <1>a, Fields DEF Tx
    <2>3. tx' \in [Proc -> Tx] /\ tx'[p] = [tx[p] EXCEPT !.account = a]
      BY <2>1, <2>2 DEF TypeOK
    <2>4. SameRequest(tx[p], tx'[p]) /\ tx'[p].account = a
          /\ UNCHANGED <<tx[p].session, tx[p].time, tx[p].purged>>
      BY <2>2, <2>3 DEF Tx, SameRequest
    <2> QED
      BY <2>1, <2>3, <2>4 DEF UpsertIdentity, Goto, TypeOK, Statement
  <1>2. UNCHANGED <<now, owner, account, disabled, session, redeemed, issued, token, used, scan>>
    BY DEF UpsertIdentity, ledgerVars
  <1>3. /\ identityLock' \in [External -> Proc \cup {NoProc}]
        /\ \A x \in External, q \in Proc :
             identityLock'[x] = q <=> identityLock[x] = q \/ (q = p /\ x = Identity(p))
        /\ UNCHANGED <<credentialLock, sessionLock>>
    BY ProcAssumption DEF UpsertIdentity, TypeOK
  <1>4. Is(p, "login")
    BY <1>1, KindOf
  <1>5. TypeOK'
    BY <1>1, <1>2, <1>3 DEF TypeOK
  <1>6. OnRoute'
    <2>1. FollowsRoute(p) /\ pc'[p] # "idle" /\ pc'[p] \in Route[tx[p].op]
      BY <1>1, <1>4 DEF OnRoute, Route, Is
    <2> HIDE DEF a
    <2>2. FollowsRoute(p)'
      BY <1>0, <1>a, <1>1, <1>2, <2>1, Onward DEF FollowsRoute, LoginFields, SameRequest, Is
    <2> QED
      BY <1>1, <1>2, <2>2, Elsewhere DEF OnRoute
  <1>7. LocksHeld'
    BY <1>1, <1>2, <1>3, <1>4
       DEF SameRequest, LocksHeld, LocksCredential, LocksIdentity, LocksSession, Is, Identity
  <1>8. Fresh'
    <2>1. Identity(p)' = Identity(p)
      BY <1>1 DEF SameRequest, Identity
    <2>2. /\ Candidate(p) /\ tx'[p].account \in {tx[p].account} \cup account
          /\ Candidate(p)' => tx'[p].account = tx[p].account
      BY <1>0, <1>a, <1>1, <1>2, <2>1 DEF Candidate, Is
    <2>3. \A q \in Proc \ {p} : Candidate(q)' <=> Candidate(q)
      BY <1>1, <1>2 DEF Candidate, Is, Identity
    <2> HIDE DEF a
    <2> QED
      BY <1>1, <1>2, <1>4, <2>2, <2>3, StillFresh DEF SameRequest, Is
  <1>9. RowsLinked' /\ CredentialSpent' /\ OneAccountEach'
    BY <1>2 DEF RowsLinked, CredentialSpent, OneAccountEach
  <1>10. Barred'
    BY <1>1, <1>2, <1>4 DEF SameRequest, Barred, Is
  <1>11. ClaimsHold'
    <2>1. Identity(p)' = Identity(p) /\ ~Is(p, "refresh")'
      BY <1>0, <1>1 DEF SameRequest, Identity, Is
    <2>2. owner[Identity(p)] = None => tx'[p].account \notin account
      BY <1>0, <1>1 DEF Fresh, Candidate
    <2>3. owner[Identity(p)] # None => tx'[p].account = owner[Identity(p)]
      BY <1>1
    <2> HIDE DEF a
    <2> QED
      BY <1>0, <1>1, <1>2, <2>1, <2>2, <2>3 DEF SameRequest, ClaimsHold, Is, Identity
  <1> QED
    BY <1>5, <1>6, <1>7, <1>8, <1>9, <1>10, <1>11

LEMMA ReadStatusKeeps ==
    ASSUME IInv, NEW p \in Proc, ReadStatus(p)
    PROVE  IInv'
  <1> USE DEF IInv
  <1>1. /\ pc[p] = "status" /\ pc' \in [Proc -> Statement] /\ tx' \in [Proc -> Tx]
        /\ pc'[p] = "grant"
        /\ tx'[p] = tx[p]
        /\ \A q \in Proc \ {p} : pc'[q] = pc[q] /\ tx'[q] = tx[q]
    BY Fields DEF ReadStatus, Goto, TypeOK, Statement, Tx, SameRequest
  <1>2. UNCHANGED <<now, owner, account, disabled, session, redeemed, issued, token, used, scan>>
    BY DEF ReadStatus, ledgerVars
  <1>3. UNCHANGED <<credentialLock, identityLock, sessionLock>>
    BY DEF ReadStatus, locks
  <1>4. Is(p, "refresh")
    BY <1>1, KindOf
  <1>5. TypeOK'
    BY <1>1, <1>2, <1>3 DEF TypeOK
  <1>6. OnRoute'
    <2>1. FollowsRoute(p) /\ pc'[p] # "idle" /\ pc'[p] \in Route[tx[p].op]
      BY <1>1, <1>4 DEF OnRoute, Route, Is
    <2>2. FollowsRoute(p)'
      BY <1>1, <1>2, <1>4, <2>1, Onward DEF FollowsRoute, LoginFields, SameRequest, Is
    <2> QED
      BY <1>1, <1>2, <2>2, Elsewhere DEF OnRoute
  <1>7. LocksHeld'
    BY <1>1, <1>2, <1>3, <1>4
       DEF SameRequest, LocksHeld, LocksCredential, LocksIdentity, LocksSession, Is, Identity
  <1>8. Fresh'
    BY <1>1, <1>2, <1>4, StillFresh DEF SameRequest, Candidate, Is, Identity
  <1>9. RowsLinked' /\ CredentialSpent' /\ OneAccountEach'
    BY <1>2 DEF RowsLinked, CredentialSpent, OneAccountEach
  <1>10. Barred'
    BY <1>1, <1>2, <1>4 DEF SameRequest, Barred, Is
  <1>11. ClaimsHold'
    BY <1>1, <1>2, <1>4 DEF SameRequest, ClaimsHold, Is, Identity
  <1> QED
    BY <1>5, <1>6, <1>7, <1>8, <1>9, <1>10, <1>11

LEMMA ReadSessionKeeps ==
    ASSUME IInv, NEW p \in Proc, ReadSession(p)
    PROVE  IInv'
  <1> USE DEF IInv
  <1>1. /\ pc[p] = "access" /\ pc' \in [Proc -> Statement] /\ tx' \in [Proc -> Tx]
        /\ pc'[p] = "account"
        /\ tx'[p] = tx[p] /\ ~session[tx[p].session].revoked
        /\ \A q \in Proc \ {p} : pc'[q] = pc[q] /\ tx'[q] = tx[q]
    BY Fields DEF ReadSession, Goto, TypeOK, Statement, Tx, SameRequest
  <1>2. UNCHANGED <<now, owner, account, disabled, session, redeemed, issued, token, used, scan>>
    BY DEF ReadSession, ledgerVars
  <1>3. UNCHANGED <<credentialLock, identityLock, sessionLock>>
    BY DEF ReadSession, locks
  <1>4. Is(p, "access")
    BY <1>1, KindOf
  <1>5. TypeOK'
    BY <1>1, <1>2, <1>3 DEF TypeOK
  <1>6. OnRoute'
    <2>1. FollowsRoute(p) /\ pc'[p] # "idle" /\ pc'[p] \in Route[tx[p].op]
      BY <1>1, <1>4 DEF OnRoute, Route, Is
    <2>2. FollowsRoute(p)'
      BY <1>1, <1>2, <1>4, <2>1, Onward DEF FollowsRoute, LoginFields, SameRequest, Is
    <2> QED
      BY <1>1, <1>2, <2>2, Elsewhere DEF OnRoute
  <1>7. LocksHeld'
    BY <1>1, <1>2, <1>3, <1>4
       DEF SameRequest, LocksHeld, LocksCredential, LocksIdentity, LocksSession, Is, Identity
  <1>8. Fresh'
    BY <1>1, <1>2, <1>4, StillFresh DEF SameRequest, Candidate, Is, Identity
  <1>9. RowsLinked' /\ CredentialSpent' /\ OneAccountEach'
    BY <1>2 DEF RowsLinked, CredentialSpent, OneAccountEach
  <1>10. Barred'
    BY <1>1, <1>2, <1>4 DEF SameRequest, Barred, Is
  <1>11. ClaimsHold'
    BY <1>1, <1>2, <1>4 DEF SameRequest, ClaimsHold, Is, Identity
  <1> QED
    BY <1>5, <1>6, <1>7, <1>8, <1>9, <1>10, <1>11


LEMMA RotateKeeps ==
    ASSUME IInv, NEW p \in Proc, Rotate(p)
    PROVE  IInv'
  <1> USE DEF IInv
  <1>1. PICK s \in Refreshable(p) :
          /\ sessionLock[s] = NoProc
          /\ sessionLock' = [sessionLock EXCEPT ![s] = p]
          /\ tx' = [tx EXCEPT ![p].session = s, ![p].account = owner[session[s].owner]]
    BY DEF Rotate
  <1> DEFINE a == owner[session[s].owner]
  <1>2. /\ s \in Session /\ session[s] \in Row /\ ~session[s].revoked
        /\ session[s].hash = tx[p].old /\ tx[p].old \in Hash /\ a \in Account
    <2>1. s \in Session /\ ~session[s].revoked /\ session[s].hash = tx[p].old
      BY DEF Refreshable, WithHash
    <2>2. session[s] \in Row /\ session[s] # NoRow
      BY <2>1, LiveIsRow
    <2>3. session[s].hash \in Hash /\ session[s].owner \in External /\ a # None
      BY <2>1, <2>2 DEF Row, RowsLinked
    <2> QED
      BY <2>1, <2>2, <2>3 DEF TypeOK
  <1>3. /\ pc[p] = "rotate" /\ pc' \in [Proc -> Statement] /\ tx' \in [Proc -> Tx]
        /\ pc'[p] = "status"
        /\ SameRequest(tx[p], tx'[p]) /\ tx'[p].session = s /\ tx'[p].account = a
        /\ UNCHANGED <<tx[p].time, tx[p].purged>>
        /\ \A q \in Proc \ {p} : pc'[q] = pc[q] /\ tx'[q] = tx[q]
    <2> HIDE DEF a
    <2>1. tx[p] \in Tx /\ [tx[p] EXCEPT !.session = s, !.account = a] \in Tx
      <3>1. tx[p] \in Tx
        BY Fields
      <3>2. \A t \in Tx : [t EXCEPT !.session = s, !.account = a] \in Tx
        BY <1>2 DEF Tx
      <3> QED
        BY <3>1, <3>2
    <2>2. tx' \in [Proc -> Tx] /\ tx'[p] = [tx[p] EXCEPT !.session = s, !.account = a]
          /\ \A q \in Proc \ {p} : tx'[q] = tx[q]
      BY <1>1, <2>1 DEF TypeOK, a
    <2>3. SameRequest(tx[p], tx'[p]) /\ tx'[p].session = s /\ tx'[p].account = a
          /\ UNCHANGED <<tx[p].time, tx[p].purged>>
      BY <2>1, <2>2 DEF Tx, SameRequest
    <2> QED
      BY <2>2, <2>3 DEF Rotate, Goto, TypeOK, Statement
  <1> HIDE DEF a
  <1>4. UNCHANGED <<now, owner, account, disabled, session, redeemed, issued, token, used, scan,
                    credentialLock, identityLock>>
    BY DEF Rotate, ledgerVars
  <1>5. /\ sessionLock' \in [Session -> Proc \cup {NoProc}]
        /\ \A k \in Session, q \in Proc :
             sessionLock'[k] = q <=> sessionLock[k] = q \/ (q = p /\ k = s)
    BY <1>1, <1>2, ProcAssumption DEF TypeOK
  <1>6. Is(p, "refresh") /\ ~Is(p, "login")
    BY <1>3, KindOf DEF Is
  <1>7. TypeOK'
    BY <1>3, <1>4, <1>5 DEF TypeOK
  <1>8. OnRoute'
    <2>1. FollowsRoute(p) /\ pc'[p] # "idle" /\ pc'[p] \in Route[tx[p].op]
      BY <1>3, <1>6 DEF OnRoute, Route, Is
    <2>2. FollowsRoute(p)'
      BY <1>2, <1>3, <1>4, <1>6, <2>1, Onward DEF FollowsRoute, Is
    <2> QED
      BY <1>3, <1>4, <2>2, Elsewhere DEF OnRoute
  <1>9. LocksHeld'
    BY <1>3, <1>4, <1>5, <1>6
       DEF SameRequest, LocksHeld, LocksCredential, LocksIdentity, LocksSession, Is, Identity
  <1>10. Fresh'
    BY <1>3, <1>4, <1>6, StillFresh DEF SameRequest, Candidate, Is, Identity
  <1>11. RowsLinked' /\ CredentialSpent' /\ OneAccountEach'
    BY <1>4 DEF RowsLinked, CredentialSpent, OneAccountEach
  <1>12. Barred'
    BY <1>3, <1>4, <1>6 DEF SameRequest, Barred, Is
  <1>13. ClaimsHold'
    <2>1. /\ ~Is(p, "login")' /\ session'[tx'[p].session] = session[s]
          /\ tx'[p].old = tx[p].old /\ tx'[p].account = owner[session[s].owner]
      BY <1>3, <1>4, <1>6 DEF SameRequest, Is, a
    <2> QED
      BY <1>2, <1>3, <1>4, <2>1 DEF ClaimsHold, Is, Identity
  <1> QED
    BY <1>7, <1>8, <1>9, <1>10, <1>11, <1>12, <1>13

-----------------------------------------------------------------------------
(* Rows change.                                                            *)

(* A session is revoked.                                                   *)
LEMMA RevokeKeeps ==
    ASSUME IInv, NEW p \in Proc, NEW s \in Session, ~session[s].revoked, Revoke(p, s)
    PROVE  IInv'
  <1> USE DEF IInv
  <1>1. /\ pc' \in [Proc -> Statement] /\ tx' \in [Proc -> Tx]
        /\ pc'[p] = "idle" /\ tx'[p] = NoTx
        /\ \A q \in Proc \ {p} : pc'[q] = pc[q] /\ tx'[q] = tx[q]
        /\ LocksHeld'
    BY Ended DEF Revoke
  <1>2. UNCHANGED <<now, owner, account, disabled, redeemed, issued, token, used, scan>>
    BY DEF Revoke
  <1>3. /\ session[s] \in Row /\ session'[s] \in Row /\ session'[s].revoked
        /\ session'[s].owner = session[s].owner
        /\ session' \in [Session -> Row \cup {NoRow}]
        /\ \A k \in Session \ {s} : session'[k] = session[k]
    <2>1. session[s] \in Row /\ session' = [session EXCEPT ![s] = [@ EXCEPT !.revoked = TRUE]]
      BY LiveIsRow DEF Revoke
    <2>2. /\ [session[s] EXCEPT !.revoked = TRUE] \in Row
          /\ [session[s] EXCEPT !.revoked = TRUE].revoked
          /\ [session[s] EXCEPT !.revoked = TRUE].owner = session[s].owner
      BY <2>1 DEF Row
    <2> QED
      BY <2>1, <2>2 DEF TypeOK
  <1>4. session[s] # NoRow /\ session'[s] # NoRow
    BY <1>3, RowIsNotNoRow
  <1>5. TypeOK'
    BY <1>1, <1>2, <1>3, Ended DEF TypeOK, Revoke
  <1>6. OnRoute'
    <2>1. FollowsRoute(p)'
      BY <1>1, NoTxIsTx DEF FollowsRoute, Is, Route
    <2> QED
      BY <1>1, <1>2, <2>1, Elsewhere DEF OnRoute
  <1>7. Fresh'
    <2>1. \A q \in Proc \ {p} : (Candidate(q)' <=> Candidate(q)) /\ (Is(q, "login")' <=> Is(q, "login"))
      BY <1>1, <1>2 DEF Candidate, Is, Identity
    <2>2. ~Is(p, "login")' /\ ~Candidate(p)' /\ tx'[p].new = None
      BY <1>1, NoTxIsTx DEF Candidate, Is
    <2>3. \A q \in Proc \ {p} : Is(q, "login") => tx[q].session \in Session \ {s}
      BY <1>4 DEF Fresh, OnRoute, FollowsRoute, LoginFields
    <2> QED
      BY <1>1, <1>2, <1>3, <2>1, <2>2, <2>3 DEF Fresh
  <1>8. RowsLinked'
    <2>1. \A t \in token : t.session \in Session
      BY DEF TypeOK, Token
    <2> QED
      BY <1>2, <1>3, <1>4, <2>1 DEF RowsLinked
  <1>9. Barred'
    <2>1. ASSUME NEW q \in Proc \ {p}, pc[q] = "access", tx[q].barred
          PROVE  session'[tx[q].session].revoked \/ tx[q].account \in disabled
      <3>1. [account |-> tx[q].account, session |-> tx[q].session] \in token
        BY <2>1, KindOf DEF OnRoute, FollowsRoute
      <3>2. tx[q].session \in Session
        BY <3>1 DEF TypeOK, Token
      <3> QED
        BY <1>3, <2>1, <3>2 DEF Barred
    <2> QED
      BY <1>1, <1>2, <2>1 DEF Barred
  <1>10. ClaimsHold'
    <2>1. \A q \in Proc : LocksSession(q, tx[q].session) /\ tx[q].session \in Session =>
                            tx[q].session # s
      BY ProcAssumption DEF Revoke, LocksHeld
    <2>2. ASSUME NEW q \in Proc \ {p}, pc[q] \in {"status", "grant"}, Is(q, "refresh")
          PROVE  tx[q].session \in Session \ {s}
      BY <2>1, <2>2 DEF OnRoute, FollowsRoute, LocksSession
    <2> QED
      BY <1>1, <1>2, <1>3, <2>2 DEF ClaimsHold, Is, Identity
  <1>11. CredentialSpent' /\ OneAccountEach'
    BY <1>2 DEF CredentialSpent, OneAccountEach
  <1> QED
    BY <1>1, <1>5, <1>6, <1>7, <1>8, <1>9, <1>10, <1>11


(* A refresh token is replaced.                                            *)
LEMMA RotatedRow ==
    ASSUME IInv, NEW p \in Proc, CommitRefresh(p)
    PROVE  /\ pc[p] = "grant" /\ Is(p, "refresh")
           /\ tx[p].session \in Session /\ tx[p].account \in Account
           /\ tx[p].new \in Hash /\ tx[p].expires \in Lifetime /\ tx[p].old \in Hash
           /\ session[tx[p].session] \in Row /\ ~session[tx[p].session].revoked
           /\ session[tx[p].session].hash = tx[p].old
           /\ tx[p].account = owner[session[tx[p].session].owner]
           /\ session'[tx[p].session] =
                [session[tx[p].session] EXCEPT !.hash = tx[p].new, !.expires = tx[p].expires]
           /\ session'[tx[p].session] \in Row /\ ~session'[tx[p].session].revoked
           /\ session'[tx[p].session].owner = session[tx[p].session].owner
           /\ session' \in [Session -> Row \cup {NoRow}]
           /\ \A k \in Session \ {tx[p].session} : session'[k] = session[k]
  <1> USE DEF IInv
  <1>1. /\ pc[p] = "grant" /\ Is(p, "refresh")
        /\ tx[p].session \in Session /\ tx[p].account \in Account
        /\ tx[p].new \in Hash /\ tx[p].expires \in Lifetime /\ tx[p].old \in Hash
    BY DEF CommitRefresh, OnRoute, FollowsRoute
  <1> DEFINE s == tx[p].session
  <1>2. /\ ~session[s].revoked /\ session[s].hash = tx[p].old
        /\ tx[p].account = owner[session[s].owner]
    BY <1>1 DEF ClaimsHold
  <1>3. session[s] \in Row
    BY <1>1, <1>2, LiveIsRow
  <1>4. session' = [session EXCEPT ![s] = [session[s] EXCEPT !.hash = tx[p].new,
                                                             !.expires = tx[p].expires]]
    BY <1>1 DEF CommitRefresh, TypeOK
  <1>5. tx[p].expires \in Nat
    BY Fields
  <1>6. /\ [session[s] EXCEPT !.hash = tx[p].new, !.expires = tx[p].expires] \in Row
        /\ [session[s] EXCEPT !.hash = tx[p].new, !.expires = tx[p].expires].revoked
             = session[s].revoked
        /\ [session[s] EXCEPT !.hash = tx[p].new, !.expires = tx[p].expires].owner
             = session[s].owner
    BY <1>1, <1>3, <1>5 DEF Row
  <1> QED
    BY <1>1, <1>2, <1>3, <1>4, <1>6 DEF TypeOK

LEMMA CommitRefreshKeeps ==
    ASSUME IInv, NEW p \in Proc, CommitRefresh(p)
    PROVE  IInv'
  <1> USE DEF IInv
  <1> DEFINE s == tx[p].session
             t0 == [account |-> tx[p].account, session |-> s]
  <1>1. /\ pc' \in [Proc -> Statement] /\ tx' \in [Proc -> Tx]
        /\ pc'[p] = "idle" /\ tx'[p] = NoTx
        /\ \A q \in Proc \ {p} : pc'[q] = pc[q] /\ tx'[q] = tx[q]
        /\ LocksHeld'
    BY Ended DEF CommitRefresh
  <1>2. /\ UNCHANGED <<now, owner, account, disabled, redeemed, used, scan>>
        /\ issued' = issued \cup {tx[p].new} /\ token' = token \cup {t0}
    BY DEF CommitRefresh, Return
  <1>3. /\ s \in Session /\ tx[p].account \in Account /\ tx[p].new \in Hash
        /\ session[s] \in Row /\ ~session[s].revoked
        /\ session'[s] \in Row /\ ~session'[s].revoked
        /\ session'[s].owner = session[s].owner
        /\ session' \in [Session -> Row \cup {NoRow}]
        /\ \A k \in Session \ {s} : session'[k] = session[k]
        /\ tx[p].account = owner[session[s].owner]
        /\ pc[p] = "grant" /\ Is(p, "refresh")
    BY RotatedRow
  <1>4. session[s] # NoRow /\ session'[s] # NoRow
    BY <1>3, RowIsNotNoRow
  <1>5. TypeOK'
    <2>1. t0 \in Token
      BY <1>3 DEF Token
    <2> QED
      BY <1>1, <1>2, <1>3, <2>1, Ended DEF TypeOK, CommitRefresh
  <1>6. OnRoute'
    <2>1. FollowsRoute(p)'
      BY <1>1, NoTxIsTx DEF FollowsRoute, Is, Route
    <2>2. ASSUME NEW q \in Proc \ {p} PROVE FollowsRoute(q)'
      BY <1>1, <1>2 DEF OnRoute, FollowsRoute, Is, LoginFields, Lifetime, Route
    <2> QED
      BY <2>1, <2>2 DEF OnRoute
  <1>7. Fresh'
    <2>1. \A q \in Proc \ {p} : (Candidate(q)' <=> Candidate(q)) /\ (Is(q, "login")' <=> Is(q, "login"))
      BY <1>1, <1>2 DEF Candidate, Is, Identity
    <2>2. ~Is(p, "login")' /\ ~Candidate(p)' /\ tx'[p].new = None
      BY <1>1, NoTxIsTx DEF Candidate, Is
    <2>3. \A q \in Proc \ {p} : Is(q, "login") => tx[q].session \in Session \ {s}
      BY <1>4 DEF Fresh, OnRoute, FollowsRoute, LoginFields
    <2>4. \A q \in Proc \ {p} : tx[q].new # None => tx[q].new # tx[p].new
      BY <1>3, NoneAssumption DEF Fresh
    <2>5. ASSUME NEW q \in Proc
          PROVE  /\ tx'[q].new # None =>
                      /\ tx'[q].new \notin issued'
                      /\ \A r \in Proc \ {q} : tx'[r].new # tx'[q].new
                 /\ Is(q, "login")' =>
                      /\ session'[tx'[q].session] = NoRow
                      /\ \A r \in Proc \ {q} : Is(r, "login")' =>
                           tx'[r].session # tx'[q].session
                 /\ Candidate(q)' =>
                      /\ tx'[q].account \notin account'
                      /\ \A r \in Proc \ {q} : Is(r, "login")' =>
                           tx'[r].account # tx'[q].account
      <3>1. CASE q = p
        BY <2>2, <3>1
      <3>2. CASE q # p
        <4>1. /\ tx'[q] = tx[q] /\ Is(q, "login")' = Is(q, "login")
              /\ Candidate(q)' = Candidate(q)
          BY <1>1, <2>1, <3>2 DEF Is, Candidate
        <4>2. tx[q].new # None => /\ tx[q].new \notin issued'
                                  /\ \A r \in Proc \ {q} : tx'[r].new # tx[q].new
          BY <1>1, <1>2, <2>2, <2>4, <3>2 DEF Fresh
        <4>3. Is(q, "login") => session'[tx[q].session] = NoRow
          BY <1>3, <2>3, <3>2 DEF Fresh
        <4>4. \A r \in Proc \ {q} : Is(r, "login")' => Is(r, "login") /\ tx'[r] = tx[r]
          BY <1>1, <2>1, <2>2
        <4> QED
          BY <1>2, <4>1, <4>2, <4>3, <4>4 DEF Fresh
      <3> QED
        BY <3>1, <3>2
    <2> QED
      BY <2>5 DEF Fresh
  <1>8. RowsLinked'
    <2>1. \A t \in token : t.session \in Session
      BY DEF TypeOK, Token
    <2>2. \A k \in Session : session'[k] # NoRow => owner'[session'[k].owner] # None
      BY <1>2, <1>3, <1>4 DEF RowsLinked
    <2>3. \A t \in token : session'[t.session] # NoRow
                             /\ owner'[session'[t.session].owner] = t.account
      BY <1>2, <1>3, <1>4, <2>1 DEF RowsLinked
    <2>4. t0.session = s /\ t0.account = tx[p].account
      OBVIOUS
    <2>5. session'[t0.session] # NoRow /\ owner'[session'[t0.session].owner] = t0.account
      BY <1>2, <1>3, <1>4, <2>4
    <2>6. \A y \in External : owner'[y] # None => owner'[y] \in account'
      BY <1>2 DEF RowsLinked
    <2>7. \A t \in token' : session'[t.session] # NoRow
                              /\ owner'[session'[t.session].owner] = t.account
      <3> HIDE DEF t0
      <3> QED
        BY <1>2, <2>3, <2>5
    <2> QED
      BY <2>2, <2>6, <2>7 DEF RowsLinked
  <1>9. Barred'
    <2>1. ASSUME NEW q \in Proc \ {p}, pc[q] = "access", tx[q].barred,
                 session[tx[q].session].revoked
          PROVE  session'[tx[q].session].revoked
      <3>1. [account |-> tx[q].account, session |-> tx[q].session] \in token
        BY <2>1, KindOf DEF OnRoute, FollowsRoute
      <3>2. tx[q].session \in Session \ {s}
        BY <1>3, <2>1, <3>1 DEF TypeOK, Token
      <3> QED
        BY <1>3, <2>1, <3>2
    <2>2. ~tx'[p].barred
      BY <1>1 DEF NoTx
    <2> QED
      BY <1>1, <1>2, <2>1, <2>2 DEF Barred
  <1>10. ClaimsHold'
    <2>1. sessionLock[s] = p
      BY <1>3 DEF LocksHeld, LocksSession
    <2>2. ASSUME NEW q \in Proc \ {p}, pc[q] \in {"status", "grant"}, Is(q, "refresh")
          PROVE  tx[q].session \in Session \ {s}
      <3>1. tx[q].session \in Session
        BY <2>2 DEF OnRoute, FollowsRoute
      <3>2. sessionLock[tx[q].session] = q
        BY <2>2, <3>1 DEF LocksHeld, LocksSession
      <3> QED
        BY <2>1, <3>1, <3>2
    <2>3. ~Is(p, "login")' /\ ~Is(p, "refresh")'
      BY <1>1, NoTxIsTx DEF Is
    <2>4. \A q \in Proc \ {p} : /\ pc'[q] = pc[q] /\ tx'[q] = tx[q]
                                /\ \A op : Is(q, op)' <=> Is(q, op)
      BY <1>1 DEF Is
    <2>5. ASSUME NEW q \in Proc \ {p}, pc[q] \in {"status", "grant"}, Is(q, "refresh")
          PROVE  session'[tx[q].session] = session[tx[q].session]
      BY <1>3, <2>2, <2>5
    <2> QED
      BY <1>2, <2>3, <2>4, <2>5 DEF ClaimsHold, Identity
  <1>11. CredentialSpent' /\ OneAccountEach'
    BY <1>2 DEF CredentialSpent, OneAccountEach
  <1> QED
    BY <1>1, <1>5, <1>6, <1>7, <1>8, <1>9, <1>10, <1>11


(* A login commits: who it is, and what it writes.                         *)
LEMMA GrantedLogin ==
    ASSUME IInv, NEW p \in Proc, CommitLogin(p)
    PROVE  /\ pc[p] = "grant" /\ Is(p, "login")
           /\ tx[p].credential \in Credential /\ Identity(p) \in External
           /\ tx[p].account \in Account \ disabled /\ tx[p].session \in Session
           /\ tx[p].new \in Hash \ issued /\ tx[p].expires \in Lifetime
           /\ tx[p].credential \notin used /\ tx[p].time <= now
           /\ \A c \in tx[p].purged : c \in Credential /\ Expiry[c] <= tx[p].time
           /\ session[tx[p].session] = NoRow
           /\ IF owner[Identity(p)] = None THEN tx[p].account \notin account
              ELSE tx[p].account = owner[Identity(p)]
           /\ owner' \in [External -> Account \cup {None}]
           /\ owner'[Identity(p)] = tx[p].account
           /\ \A x \in External \ {Identity(p)} : owner'[x] = owner[x]
           /\ session' \in [Session -> Row \cup {NoRow}]
           /\ session'[tx[p].session] =
                [owner |-> Identity(p), hash |-> tx[p].new,
                 expires |-> tx[p].expires, revoked |-> FALSE]
           /\ session'[tx[p].session] \in Row
           /\ \A k \in Session \ {tx[p].session} : session'[k] = session[k]
           /\ redeemed' \in [Credential -> Nat]
           /\ redeemed'[tx[p].credential] = redeemed[tx[p].credential] + 1
           /\ \A c \in Credential \ {tx[p].credential} : redeemed'[c] = redeemed[c]
           /\ token' = token \cup {[account |-> tx[p].account, session |-> tx[p].session]}
  <1> USE DEF IInv
  <1>1. pc[p] = "grant" /\ Is(p, "login") /\ LoginFields(tx[p]) /\ tx[p].account \notin disabled
    BY DEF CommitLogin, OnRoute, FollowsRoute
  <1>2. /\ tx[p].credential \in Credential /\ tx[p].account \in Account
        /\ tx[p].session \in Session /\ tx[p].new \in Hash /\ tx[p].expires \in Lifetime
        /\ tx[p].time <= now /\ \A c \in tx[p].purged : Expiry[c] <= tx[p].time
        /\ tx[p].purged \in SUBSET Credential /\ tx[p].expires \in Nat
    BY <1>1, Fields DEF LoginFields
  <1>3. Identity(p) \in External
    BY <1>2, CredentialAssumption DEF Identity
  <1>4. session[tx[p].session] = NoRow /\ tx[p].new \notin issued
    BY <1>1, <1>2, NoneAssumption DEF Fresh
  <1>5. /\ tx[p].credential \notin used
        /\ IF owner[Identity(p)] = None THEN tx[p].account \notin account
           ELSE tx[p].account = owner[Identity(p)]
    BY <1>1 DEF ClaimsHold
  <1>6. /\ owner' \in [External -> Account \cup {None}]
        /\ owner'[Identity(p)] = tx[p].account
        /\ \A x \in External \ {Identity(p)} : owner'[x] = owner[x]
    BY <1>2, <1>3 DEF CommitLogin, TypeOK
  <1> DEFINE r == [owner |-> Identity(p), hash |-> tx[p].new,
                   expires |-> tx[p].expires, revoked |-> FALSE]
  <1>7. r \in Row
    BY <1>2, <1>3 DEF Row
  <1>8. session' = [session EXCEPT ![tx[p].session] = r]
    BY DEF CommitLogin
  <1> HIDE DEF r
  <1>9. /\ session' \in [Session -> Row \cup {NoRow}] /\ session'[tx[p].session] = r
        /\ \A k \in Session \ {tx[p].session} : session'[k] = session[k]
    BY <1>2, <1>7, <1>8 DEF TypeOK
  <1>10. /\ redeemed' \in [Credential -> Nat]
         /\ redeemed'[tx[p].credential] = redeemed[tx[p].credential] + 1
         /\ \A c \in Credential \ {tx[p].credential} : redeemed'[c] = redeemed[c]
    BY <1>2 DEF CommitLogin, TypeOK
  <1>11. token' = token \cup {[account |-> tx[p].account, session |-> tx[p].session]}
    BY DEF CommitLogin, Return
  <1> QED
    BY <1>1, <1>2, <1>3, <1>4, <1>5, <1>6, <1>7, <1>9, <1>10, <1>11 DEF r

(* Its credential and its identity are locked, so that no other login is   *)
(* past them.                                                              *)
LEMMA LoginAlone ==
    ASSUME IInv, NEW p \in Proc, pc[p] = "grant", Is(p, "login"),
           NEW q \in Proc \ {p}, Is(q, "login")
    PROVE  /\ pc[q] \in {"identity", "grant"} => tx[q].credential # tx[p].credential
           /\ pc[q] = "grant" => Identity(q) # Identity(p)
  <1> USE DEF IInv
  <1>1. tx[q].credential \in Credential /\ tx[p].credential \in Credential
    BY DEF OnRoute, FollowsRoute, LoginFields
  <1>2. Identity(q) \in External /\ Identity(p) \in External
    BY <1>1, CredentialAssumption DEF Identity
  <1>3. credentialLock[tx[p].credential] = p /\ identityLock[Identity(p)] = p
    BY <1>1, <1>2 DEF LocksHeld, LocksCredential, LocksIdentity
  <1>4. pc[q] \in {"identity", "grant"} => credentialLock[tx[q].credential] = q
    BY <1>1 DEF LocksHeld, LocksCredential
  <1>5. pc[q] = "grant" => identityLock[Identity(q)] = q
    BY <1>2 DEF LocksHeld, LocksIdentity
  <1> QED
    BY <1>3, <1>4, <1>5


LEMMA CommitLoginKeeps ==
    ASSUME IInv, NEW p \in Proc, CommitLogin(p)
    PROVE  IInv'
  <1> USE DEF IInv
  <1> DEFINE c == tx[p].credential
             x == Identity(p)
             a == tx[p].account
             s == tx[p].session
             h == tx[p].new
  <1>1. /\ pc' \in [Proc -> Statement] /\ tx' \in [Proc -> Tx]
        /\ pc'[p] = "idle" /\ tx'[p] = NoTx
        /\ \A q \in Proc \ {p} : pc'[q] = pc[q] /\ tx'[q] = tx[q]
        /\ LocksHeld'
    BY Ended DEF CommitLogin
  <1>2. /\ UNCHANGED <<now, disabled>>
        /\ used' = (used \ tx[p].purged) \cup {c}
        /\ account' = account \cup {a} /\ issued' = issued \cup {h}
        /\ token' = token \cup {[account |-> a, session |-> s]}
    BY DEF CommitLogin, Return
  <1>a. /\ scan' \in [Proc -> SUBSET Credential]
        /\ \A q \in Proc : scan'[q] \subseteq scan[q]
    BY DEF CommitLogin, TypeOK
  <1>3. /\ pc[p] = "grant" /\ Is(p, "login")
        /\ c \in Credential /\ x \in External /\ a \in Account \ disabled
        /\ s \in Session /\ h \in Hash \ issued /\ c \notin used /\ tx[p].time <= now
        /\ \A d \in tx[p].purged : d \in Credential /\ Expiry[d] <= tx[p].time
    BY GrantedLogin
  <1>4. /\ owner' \in [External -> Account \cup {None}] /\ owner'[x] = a
        /\ \A y \in External \ {x} : owner'[y] = owner[y]
        /\ IF owner[x] = None THEN a \notin account ELSE a = owner[x]
        /\ a # None
    <2>1. a # None
      BY <1>3, NoneAssumption
    <2> QED
      BY <2>1, GrantedLogin
  <1>5. /\ session[s] = NoRow /\ session' \in [Session -> Row \cup {NoRow}]
        /\ session'[s] # NoRow /\ session'[s] \in Row /\ session'[s].owner = x
        /\ \A k \in Session \ {s} : session'[k] = session[k]
    <2>1. session'[s] = [owner |-> x, hash |-> h, expires |-> tx[p].expires, revoked |-> FALSE]
      BY GrantedLogin
    <2>2. session'[s].owner = x
      BY <2>1
    <2> QED
      BY <2>2, GrantedLogin, RowIsNotNoRow
  <1>6. /\ redeemed' \in [Credential -> Nat] /\ redeemed'[c] = redeemed[c] + 1
        /\ \A d \in Credential \ {c} : redeemed'[d] = redeemed[d]
    BY GrantedLogin
  <1> HIDE DEF c, x, a, s, h
  <1>7. \A y \in External : owner[y] # None => owner'[y] = owner[y]
    BY <1>3, <1>4
  <1>8. TypeOK'
    <2>1. [account |-> a, session |-> s] \in Token
      BY <1>3 DEF Token
    <2>2. tx[p].purged \in SUBSET Credential
      BY Fields
    <2> QED
      BY <1>1, <1>2, <1>3, <1>4, <1>5, <1>6, <1>a, <2>1, <2>2, Ended
         DEF TypeOK, CommitLogin
  <1>9. OnRoute'
    <2>1. FollowsRoute(p)'
      BY <1>1, NoTxIsTx DEF FollowsRoute, Is, Route
    <2>2. ASSUME NEW q \in Proc \ {p} PROVE FollowsRoute(q)'
      BY <1>1, <1>2, <1>a DEF OnRoute, FollowsRoute, Is, LoginFields, Lifetime, Route
    <2> QED
      BY <2>1, <2>2 DEF OnRoute
  <1>10. Fresh'
    <2>1. ASSUME NEW q \in Proc \ {p}
          PROVE  /\ Is(q, "login")' <=> Is(q, "login")
                 /\ Candidate(q)' => Candidate(q)
      <3>1. Candidate(q)' => Is(q, "login") /\ (pc[q] = "grant" => owner'[Identity(q)] = None)
        BY <1>1 DEF Candidate, Is, Identity
      <3>2. Is(q, "login") => Identity(q) \in External
        BY CredentialAssumption DEF OnRoute, FollowsRoute, LoginFields, Identity
      <3> QED
        BY <1>1, <1>7, <3>1, <3>2 DEF Candidate, Is
    <2>2. ~Is(p, "login")' /\ ~Candidate(p)' /\ tx'[p].new = None
      BY <1>1, NoTxIsTx DEF Candidate, Is
    <2>3. \A q \in Proc \ {p} : Is(q, "login") => tx[q].session \in Session \ {s}
      BY <1>3 DEF Fresh, OnRoute, FollowsRoute, LoginFields, s
    <2>4. \A q \in Proc \ {p} : tx[q].new # None => tx[q].new # h
      BY <1>3, NoneAssumption DEF Fresh, h
    <2>5. \A q \in Proc \ {p} : Candidate(q) => tx[q].account # a
      BY <1>3 DEF Fresh, Candidate, a
    <2>6. ASSUME NEW q \in Proc
          PROVE  /\ (tx[q].new # None =>
                       tx[q].new \notin issued /\ \A k \in Proc \ {q} : tx[k].new # tx[q].new)'
                 /\ (Is(q, "login") =>
                       /\ session[tx[q].session] = NoRow
                       /\ \A k \in Proc \ {q} : Is(k, "login") => tx[k].session # tx[q].session)'
      BY <1>1, <1>2, <1>5, <2>1, <2>2, <2>3, <2>4 DEF Fresh
    <2>7. ASSUME NEW q \in Proc
          PROVE  (Candidate(q) =>
                    /\ tx[q].account \notin account
                    /\ \A k \in Proc \ {q} : Is(k, "login") => tx[k].account # tx[q].account)'
      BY <1>1, <1>2, <2>1, <2>2, <2>5 DEF Fresh
    <2> QED
      BY <2>6, <2>7 DEF Fresh
  <1>11. RowsLinked'
    <2>1. \A t \in token : t.session \in Session \ {s}
      BY <1>5 DEF TypeOK, Token, RowsLinked
    <2>2. \A y \in External : owner'[y] # None => owner'[y] \in account'
      BY <1>2, <1>4 DEF RowsLinked
    <2>3. \A k \in Session \ {s} : session[k] # NoRow => session[k].owner \in External
      BY LiveIsRow DEF Row
    <2>4. \A k \in Session : session'[k] # NoRow => owner'[session'[k].owner] # None
      BY <1>4, <1>5, <1>7, <2>3 DEF RowsLinked
    <2>5. \A t \in token : session'[t.session] # NoRow
                             /\ owner'[session'[t.session].owner] = t.account
      BY <1>5, <1>7, <2>1, <2>3 DEF RowsLinked
    <2>6. \A t \in token' \ token : t.session = s /\ t.account = a
      BY <1>2
    <2> QED
      BY <1>4, <1>5, <2>2, <2>4, <2>5, <2>6 DEF RowsLinked
  <1>12. Barred'
    <2>1. ASSUME NEW q \in Proc \ {p}, pc[q] = "access", tx[q].barred,
                 session[tx[q].session].revoked
          PROVE  session'[tx[q].session].revoked
      <3>1. [account |-> tx[q].account, session |-> tx[q].session] \in token
        BY <2>1, KindOf DEF OnRoute, FollowsRoute
      <3>2. tx[q].session \in Session \ {s}
        BY <1>5, <3>1 DEF TypeOK, Token, RowsLinked
      <3> QED
        BY <1>5, <2>1, <3>2
    <2>2. ~tx'[p].barred
      BY <1>1 DEF NoTx
    <2> QED
      BY <1>1, <1>2, <2>1, <2>2 DEF Barred
  <1>13. ClaimsHold'
    <2>1. ASSUME NEW q \in Proc \ {p}, pc[q] \in {"identity", "grant"}, Is(q, "login")
          PROVE  tx[q].credential \notin used'
      BY <1>2, <1>3, <2>1, LoginAlone DEF ClaimsHold, c
    <2>2. ASSUME NEW q \in Proc \ {p}, pc[q] = "grant", Is(q, "login")
          PROVE  IF owner'[Identity(q)] = None THEN tx[q].account \notin account'
                 ELSE tx[q].account = owner'[Identity(q)]
      <3>1. Identity(q) \in External \ {x}
        BY <1>3, <2>2, LoginAlone, CredentialAssumption
           DEF OnRoute, FollowsRoute, LoginFields, Identity, x
      <3>2. owner'[Identity(q)] = owner[Identity(q)]
        BY <1>4, <3>1
      <3>3. owner[Identity(q)] = None => tx[q].account # a
        BY <1>3, <2>2 DEF Fresh, Candidate, a
      <3> QED
        BY <1>2, <2>2, <3>2, <3>3 DEF ClaimsHold
    <2>3. ASSUME NEW q \in Proc \ {p}, pc[q] \in {"status", "grant"}, Is(q, "refresh")
          PROVE  /\ session'[tx[q].session] = session[tx[q].session]
                 /\ owner'[session[tx[q].session].owner] = owner[session[tx[q].session].owner]
      <3>1. tx[q].session \in Session /\ ~session[tx[q].session].revoked
        BY <2>3 DEF OnRoute, FollowsRoute, ClaimsHold
      <3>2. session[tx[q].session] \in Row /\ session[tx[q].session] # NoRow
        BY <3>1, LiveIsRow
      <3>3. session[tx[q].session].owner \in External
              /\ owner[session[tx[q].session].owner] # None
        BY <3>1, <3>2 DEF Row, RowsLinked
      <3> QED
        BY <1>5, <1>7, <3>1, <3>2, <3>3
    <2>4. ~Is(p, "login")' /\ ~Is(p, "refresh")'
      BY <1>1, NoTxIsTx DEF Is
    <2>5. \A q \in Proc \ {p} : Identity(q)' = Identity(q)
      BY <1>1 DEF Identity
    <2> QED
      BY <1>1, <2>1, <2>2, <2>3, <2>4, <2>5 DEF ClaimsHold, Is
  <1>14. CredentialSpent'
    <2>1. redeemed[c] \in Nat /\ now \in Nat /\ tx[p].time \in Nat
      BY <1>3, Fields DEF TypeOK
    <2>2. now < Expiry[c] => redeemed[c] = 0
      BY <1>3, <2>1 DEF CredentialSpent
    <2>3. \A d \in tx[p].purged : Expiry[d] \in Nat /\ ~(now < Expiry[d])
      BY <1>3, <2>1, CredentialAssumption
    <2> QED
      BY <1>2, <1>3, <1>6, <2>1, <2>2, <2>3 DEF CredentialSpent
  <1>15. OneAccountEach'
    <2>1. ASSUME NEW b \in account' PROVE \E y \in External : owner'[y] = b
      <3>1. CASE b = a
        BY <1>3, <1>4, <3>1
      <3>2. CASE b \in account
        <4>1. b # None
          BY <3>2, NoneAssumption DEF TypeOK
        <4> QED
          BY <1>7, <3>2, <4>1 DEF OneAccountEach
      <3> QED
        BY <1>2, <3>1, <3>2
    <2>2. \A y \in External \ {x} : owner'[y] # a
      BY <1>3, <1>4 DEF OneAccountEach, RowsLinked
    <2>3. ASSUME NEW y \in External, NEW z \in External, owner'[y] = owner'[z], y # z
          PROVE  owner'[y] = None
      BY <1>4, <2>2, <2>3 DEF OneAccountEach
    <2> QED
      BY <2>1, <2>3 DEF OneAccountEach
  <1> QED
    BY <1>1, <1>8, <1>9, <1>10, <1>11, <1>12, <1>13, <1>14, <1>15

(* The clock goes on.                                                      *)
LEMMA TickKeeps ==
    ASSUME IInv, Tick
    PROVE  IInv'
  <1> USE DEF IInv
  <1>1. /\ now \in Nat /\ now' = now + 1
        /\ UNCHANGED <<owner, account, disabled, session, redeemed, issued, token, used, scan,
                       credentialLock, identityLock, sessionLock, pc, tx>>
    BY DEF Tick, TypeOK, locks
  <1>2. TypeOK'
    BY <1>1 DEF TypeOK
  <1>3. \A e \in Lifetime : e \in Lifetime'
    BY <1>1, CredentialAssumption DEF Lifetime
  <1>4. ASSUME NEW p \in Proc PROVE FollowsRoute(p)'
    <2>1. FollowsRoute(p) /\ tx[p].time \in Nat
      BY Fields DEF OnRoute
    <2>2. Is(p, "login") => LoginFields(tx[p])'
      BY <1>1, <1>3, <2>1 DEF FollowsRoute, LoginFields
    <2> QED
      BY <1>1, <1>3, <2>1, <2>2 DEF FollowsRoute, Is
  <1>5. LocksHeld' /\ Fresh'
    BY <1>1 DEF LocksHeld, LocksCredential, LocksIdentity, LocksSession, Fresh, Candidate,
                Is, Identity
  <1>6. RowsLinked' /\ OneAccountEach'
    BY <1>1 DEF RowsLinked, OneAccountEach
  <1>7. Barred' /\ ClaimsHold'
    BY <1>1 DEF Barred, ClaimsHold, Is, Identity
  <1>8. CredentialSpent'
    BY <1>1, CredentialAssumption DEF CredentialSpent
  <1> QED
    BY <1>2, <1>4, <1>5, <1>6, <1>7, <1>8 DEF OnRoute

(* An account is disabled.                                                 *)
LEMMA DisableKeeps ==
    ASSUME IInv, Disable
    PROVE  IInv'
  <1> USE DEF IInv
  <1>1. /\ disabled \subseteq disabled' /\ disabled' \subseteq account
        /\ UNCHANGED <<now, owner, account, session, redeemed, issued, token, used, scan,
                       credentialLock, identityLock, sessionLock, pc, tx>>
    BY DEF Disable, TypeOK, locks
  <1>2. TypeOK'
    BY <1>1 DEF TypeOK
  <1>3. OnRoute'
    BY <1>1, Elsewhere DEF OnRoute
  <1>4. LocksHeld' /\ Fresh'
    BY <1>1 DEF LocksHeld, LocksCredential, LocksIdentity, LocksSession, Fresh, Candidate,
                Is, Identity
  <1>5. RowsLinked' /\ CredentialSpent' /\ OneAccountEach'
    BY <1>1 DEF RowsLinked, CredentialSpent, OneAccountEach
  <1>6. ClaimsHold'
    BY <1>1 DEF ClaimsHold, Is, Identity
  <1>7. Barred'
    BY <1>1 DEF Barred
  <1> QED
    BY <1>2, <1>3, <1>4, <1>5, <1>6, <1>7


-----------------------------------------------------------------------------
(* The invariant.                                                          *)

(* Logout and RevokeID revoke a session that was not.                      *)
LEMMA RevokesLive ==
    ASSUME NEW p \in Proc, TypeOK, Logout(p) \/ (RevokeID(p) /\ FollowsRoute(p))
    PROVE  \E s \in Session : ~session[s].revoked /\ Revoke(p, s)
  <1>1. CASE Logout(p)
    BY <1>1 DEF Logout, WithHash
  <1>2. CASE RevokeID(p) /\ FollowsRoute(p)
    <2>1. PICK s \in Revocable(p) : Revoke(p, s)
      BY <1>2 DEF RevokeID
    <2>2. s = tx[p].session /\ ~session[s].revoked
      BY DEF Revocable
    <2>3. tx[p].op \in Op \cup {"none"} /\ pc[p] \in Route[tx[p].op] /\ pc[p] = "revoke"
      BY <1>2, Fields DEF FollowsRoute, RevokeID
    <2>4. Is(p, "revoke")
      BY <2>3 DEF Route, Op, Is
    <2> QED
      BY <1>2, <2>1, <2>2, <2>4 DEF FollowsRoute
  <1> QED
    BY <1>1, <1>2

(* The steps that change what the ledger shows; all others leave it alone. *)
LEMMA Steps ==
    ASSUME IInv, Next
    PROVE  \/ UNCHANGED ledgerVars
           \/ \E p \in Proc : CommitLogin(p)
           \/ \E p \in Proc : CommitRefresh(p)
           \/ \E p \in Proc, s \in Session : ~session[s].revoked /\ Revoke(p, s)
           \/ Tick
           \/ Disable
  <1>1. ASSUME NEW p \in Proc,
               BeginLogin(p) \/ BeginRefresh(p) \/ BeginLogout(p)
                 \/ BeginRevoke(p) \/ BeginAccess(p)
        PROVE  UNCHANGED ledgerVars
    BY <1>1 DEF BeginLogin, BeginRefresh, BeginLogout, BeginRevoke, BeginAccess, Begin
  <1>2. ASSUME NEW p \in Proc,
               \/ ReadClock(p) \/ Purge(p) \/ DeleteRow(p) \/ EndDelete(p)
               \/ StoreCredential(p) \/ UpsertIdentity(p)
               \/ Rotate(p) \/ ReadStatus(p) \/ ReadSession(p)
               \/ AllowAccess(p) \/ Reject(p) \/ Fail(p)
        PROVE  UNCHANGED ledgerVars
    BY <1>2 DEF ReadClock, Purge, DeleteRow, EndDelete, StoreCredential, UpsertIdentity, Rotate, ReadStatus,
                ReadSession, AllowAccess, Reject, Fail
  <1>3. ASSUME NEW p \in Proc, Logout(p) \/ RevokeID(p)
        PROVE  \E s \in Session : ~session[s].revoked /\ Revoke(p, s)
    BY <1>3, RevokesLive DEF IInv, OnRoute
  <1> QED
    BY <1>1, <1>2, <1>3 DEF Next, Proceed

LEMMA NextKeeps == IInv /\ [Next]_vars => IInv'
  <1> SUFFICES ASSUME IInv, [Next]_vars PROVE IInv'
    OBVIOUS
  <1>1. ASSUME NEW p \in Proc,
               BeginLogin(p) \/ BeginRefresh(p) \/ BeginLogout(p)
                 \/ BeginRevoke(p) \/ BeginAccess(p)
        PROVE  IInv'
    BY <1>1, BeginInv
  <1>2. ASSUME NEW p \in Proc, Proceed(p) \/ Fail(p)
        PROVE  IInv'
    <2>1. CASE ReadClock(p)
      BY <2>1, ReadClockKeeps
    <2>2. CASE Purge(p)
      BY <2>2, PurgeKeeps
    <2>3. CASE DeleteRow(p)
      BY <2>3, DeleteRowKeeps
    <2>4. CASE EndDelete(p)
      BY <2>4, EndDeleteKeeps
    <2>5. CASE StoreCredential(p)
      BY <2>5, StoreCredentialKeeps
    <2>6. CASE UpsertIdentity(p)
      BY <2>6, UpsertIdentityKeeps
    <2>7. CASE Rotate(p)
      BY <2>7, RotateKeeps
    <2>8. CASE ReadStatus(p)
      BY <2>8, ReadStatusKeeps
    <2>9. CASE ReadSession(p)
      BY <2>9, ReadSessionKeeps
    <2>10. CASE CommitLogin(p)
      BY <2>10, CommitLoginKeeps
    <2>11. CASE CommitRefresh(p)
      BY <2>11, CommitRefreshKeeps
    <2>12. CASE Logout(p) \/ RevokeID(p)
      BY <2>12, RevokesLive, RevokeKeeps DEF IInv, OnRoute
    <2>13. CASE AllowAccess(p) \/ Reject(p) \/ Fail(p)
      BY <2>13, EndKeeps DEF AllowAccess, Reject, Fail
    <2> QED
      BY <1>2, <2>1, <2>2, <2>3, <2>4, <2>5, <2>6, <2>7, <2>8, <2>9, <2>10, <2>11, <2>12, <2>13
         DEF Proceed
  <1>3. CASE Tick
    BY <1>3, TickKeeps
  <1>4. CASE Disable
    BY <1>4, DisableKeeps
  <1>5. CASE UNCHANGED vars
    <2>1. UNCHANGED <<now, owner, account, disabled, session, redeemed, issued, token, used, scan,
                      credentialLock, identityLock, sessionLock, pc, tx>>
      BY <1>5 DEF vars
    <2>2. TypeOK'
      BY <2>1 DEF IInv, TypeOK
    <2>3. LocksHeld' /\ Fresh'
      BY <2>1 DEF IInv, LocksHeld, LocksCredential, LocksIdentity, LocksSession, Fresh,
                  Candidate, Is, Identity
    <2>4. RowsLinked' /\ Barred' /\ CredentialSpent' /\ OneAccountEach'
      BY <2>1 DEF IInv, RowsLinked, Barred, CredentialSpent, OneAccountEach, Is
    <2>5. ClaimsHold'
      BY <2>1 DEF IInv, ClaimsHold, Is, Identity
    <2>6. OnRoute'
      BY <2>1, Elsewhere DEF IInv, OnRoute
    <2> QED
      BY <2>2, <2>3, <2>4, <2>5, <2>6 DEF IInv
  <1> QED
    BY <1>1, <1>2, <1>3, <1>4, <1>5 DEF Next

(* The invariant holds at every step.                                      *)
THEOREM Invariance == Spec => []IInv
  BY InitInv, NextKeeps, PTL DEF Spec

(* The rows and the requests keep their types.                             *)
THEOREM TypeCorrect == Spec => []TypeOK
  <1>1. IInv => TypeOK
    BY DEF IInv
  <1> QED
    BY <1>1, Invariance, PTL

(* What a transaction has found is still so when it commits, however other *)
(* logins, refreshes, logouts and revocations interleave with it.          *)
THEOREM ClaimsAlwaysHold == Spec => []ClaimsHold
  <1>1. IInv => ClaimsHold
    BY DEF IInv
  <1> QED
    BY <1>1, Invariance, PTL

(* A credential is exchanged at most once for as long as it is valid, and  *)
(* stays on record until it is not.                                        *)
THEOREM CredentialsSpentOnce == Spec => []CredentialSpent
  <1>1. IInv => CredentialSpent
    BY DEF IInv
  <1> QED
    BY <1>1, Invariance, PTL

(* Concurrent first logins of a person leave one account, and no orphan.   *)
THEOREM OneAccountPerPerson == Spec => []OneAccountEach
  <1>1. IInv => OneAccountEach
    BY DEF IInv
  <1> QED
    BY <1>1, Invariance, PTL


-----------------------------------------------------------------------------
(* Nobody waits for ever.                                                  *)

(* A set of numbers has a least one.                                       *)
LEMMA Least ==
    ASSUME NEW T \in SUBSET Nat, T # {}
    PROVE  \E m \in T : \A t \in T : m <= t
  <1> DEFINE R == {ss \in Nat \X Nat : ss[1] < ss[2]}
  <1>1. IsWellFoundedOn(R, Nat)
    BY NatLessThanWellFounded DEF OpToRel
  <1> HIDE DEF R
  <1>2. PICK m \in T : \A t \in T : <<t, m>> \notin R
    BY <1>1, WFMin
  <1>3. ASSUME NEW t \in T PROVE m <= t
    <2>1. m \in Nat /\ t \in Nat
      OBVIOUS
    <2>2. ~(t < m)
      BY <1>2, <2>1 DEF R
    <2> QED
      BY <2>1, <2>2
  <1> QED
    BY <1>3

(* Of some requests, one began its transaction last.                       *)
LEMMA Latest ==
    ASSUME IInv, NEW S \in SUBSET Proc, S # {}, \A p \in S : Is(p, "login")
    PROVE  \E p \in S : \A q \in S : tx[q].time <= tx[p].time
  <1> USE DEF IInv
  <1>1. now \in Nat /\ \A p \in S : tx[p].time \in Nat /\ tx[p].time <= now
    BY Fields DEF TypeOK, OnRoute, FollowsRoute, LoginFields
  <1> DEFINE age == {now - tx[p].time : p \in S}
  <1>2. age \in SUBSET Nat /\ age # {}
    BY <1>1
  <1>3. PICK m \in age : \A t \in age : m <= t
    <2> HIDE DEF age
    <2> QED
      BY <1>2, Least
  <1>4. PICK p \in S : m = now - tx[p].time
    OBVIOUS
  <1>5. ASSUME NEW q \in S PROVE tx[q].time <= tx[p].time
    <2>1. now - tx[p].time <= now - tx[q].time
      BY <1>3, <1>4
    <2> QED
      BY <1>1, <2>1
  <1> QED
    BY <1>5

(* Whom a request waits for, by the statement it is at.  A login that      *)
(* waits to store its credential and one that deletes it as expired have   *)
(* read the clock in this order.                                           *)
LEMMA WaitsForWhom ==
    ASSUME IInv, NEW p \in Proc, NEW q \in Proc, WaitsFor(p, q)
    PROVE  \/ pc[p] = "delete" /\ Is(q, "login")
           \/ pc[p] = "store" /\ pc[q] \in {"identity", "grant"}
           \/ /\ pc[p] = "store"
              /\ Is(p, "login") /\ Is(q, "login") /\ tx[p].time < tx[q].time
           \/ pc[p] = "identity" /\ pc[q] = "grant"
           \/ pc[p] \in {"rotate", "logout", "revoke"} /\ pc[q] \in {"status", "grant"}
  <1> USE DEF IInv
  <1>1. CASE pc[p] = "delete" /\ \E c \in scan[p] : credentialLock[c] = q
    BY <1>1 DEF TypeOK, LocksHeld, LocksCredential
  <1>2. CASE pc[p] = "store" /\ credentialLock[tx[p].credential] = q
    <2>1. /\ Is(p, "login") /\ tx[p].credential \in Credential
          /\ tx[p].time < Expiry[tx[p].credential]
      BY <1>2, KindOf DEF OnRoute, FollowsRoute, LoginFields
    <2>2. LocksCredential(q, tx[p].credential)
      BY <1>2, <2>1 DEF LocksHeld
    <2>3. ASSUME tx[p].credential \in tx[q].purged PROVE tx[p].time < tx[q].time
      <3>1. Expiry[tx[p].credential] <= tx[q].time
        BY <2>2, <2>3 DEF LocksCredential, OnRoute, FollowsRoute, LoginFields
      <3>2. Expiry[tx[p].credential] \in Nat /\ tx[p].time \in Nat /\ tx[q].time \in Nat
        BY <2>1, Fields, CredentialAssumption
      <3> QED
        BY <2>1, <3>1, <3>2
    <2> QED
      BY <1>2, <2>1, <2>2, <2>3 DEF LocksCredential
  <1>3. CASE pc[p] = "identity" /\ identityLock[Identity(p)] = q
    <2>1. Identity(p) \in External
      BY <1>3, KindOf, CredentialAssumption DEF OnRoute, FollowsRoute, LoginFields, Identity
    <2> QED
      BY <1>3, <2>1 DEF LocksHeld, LocksIdentity
  <1>4. CASE pc[p] = "rotate" /\ \E s \in Refreshable(p) : sessionLock[s] = q
    BY <1>4 DEF Refreshable, WithHash, LocksHeld, LocksSession
  <1>5. CASE pc[p] = "logout" /\ \E s \in WithHash(tx[p].old) : sessionLock[s] = q
    BY <1>5 DEF WithHash, LocksHeld, LocksSession
  <1>6. CASE pc[p] = "revoke" /\ \E s \in Revocable(p) : sessionLock[s] = q
    <2>1. tx[p].session \in Session
      BY <1>6, KindOf DEF OnRoute, FollowsRoute
    <2> QED
      BY <1>6, <2>1 DEF Revocable, LocksHeld, LocksSession
  <1> QED
    BY <1>1, <1>2, <1>3, <1>4, <1>5, <1>6 DEF WaitsFor

(* A request past its credential waits for one that waits for nobody, and  *)
(* of logins that wait only to store their credentials the one that read   *)
(* the clock last waits for none of the others.                            *)
LEMMA WaitsCanEnd == IInv => WaitsEnd
  <1> SUFFICES ASSUME IInv PROVE WaitsEnd
    OBVIOUS
  <1>1. ASSUME NEW p \in Proc, NEW q \in Proc, WaitsFor(p, q)
        PROVE  pc[q] # "idle"
    <2>1. pc[q] = "idle" => ~Is(q, "login")
      BY KindOf DEF IInv, Is
    <2> QED
      BY <1>1, <2>1, WaitsForWhom
  <1>2. ASSUME NEW S \in SUBSET Proc, S # {}, Stuck(S)
        PROVE  /\ \A p \in S : pc[p] \in {"delete", "store"}
               /\ \E p \in S : pc[p] = "delete"
    <2>1. \A p \in S : pc[p] \in {"delete", "store", "identity", "rotate", "logout", "revoke"}
      BY <1>2, WaitsForWhom DEF Stuck
    <2>2. \A p \in S : pc[p] \in {"delete", "store"}
      BY <1>2, <2>1, WaitsForWhom DEF Stuck
    <2>3. ASSUME \A p \in S : pc[p] = "store" PROVE FALSE
      <3>1. \A p \in S : Is(p, "login")
        BY <2>3, KindOf DEF IInv
      <3>2. PICK p \in S : \A q \in S : tx[q].time <= tx[p].time
        BY <1>2, <3>1, Latest
      <3>3. PICK q \in S : WaitsFor(p, q)
        BY <1>2 DEF Stuck
      <3>4. tx[p].time < tx[q].time
        BY <2>3, <3>3, WaitsForWhom
      <3>5. tx[q].time <= tx[p].time /\ tx[p].time \in Nat /\ tx[q].time \in Nat
        BY <3>2, Fields DEF IInv
      <3> QED
        BY <3>4, <3>5
    <2> QED
      BY <2>2, <2>3
  <1> QED
    BY <1>1, <1>2 DEF WaitsEnd

(* Nobody waits for a request that has ended, and requests that wait in a  *)
(* circle are logins, one of which is still deleting expired credentials.  *)
THEOREM WaitsAlwaysEnd == Spec => []WaitsEnd
  BY WaitsCanEnd, Invariance, PTL

-----------------------------------------------------------------------------
(* What no step does.                                                      *)

LEMMA OwnersKept ==
    ASSUME IInv, Next, NEW x \in External, owner[x] # None
    PROVE  owner'[x] = owner[x]
  <1>1. ASSUME NEW p \in Proc, CommitLogin(p) PROVE owner'[x] = owner[x]
    BY <1>1, GrantedLogin
  <1> QED
    BY <1>1, Steps DEF ledgerVars, CommitRefresh, Revoke, Tick, Disable

(* The account of an identity never changes, and every access token ever   *)
(* returned names the owner of its session.                                *)
THEOREM IdentityAlwaysStable == Spec => IdentityStable
  <1>1. ASSUME IInv, IInv', [Next]_vars
        PROVE  [/\ \A x \in External : owner[x] # None => owner'[x] = owner[x]
                /\ \A t \in token' : owner'[session'[t.session].owner] = t.account]_vars
    BY <1>1, OwnersKept DEF IInv, RowsLinked
  <1> QED
    BY <1>1, Invariance, PTL DEF Spec, IdentityStable

(* A revoked session stays as it is, whatever refresh was under way.       *)
THEOREM RevokedStaysRevoked == Spec => RevokedForGood
  <1>1. ASSUME IInv, Next, NEW s \in Session, session[s] # NoRow, session[s].revoked
        PROVE  session'[s] = session[s]
    <2>1. ASSUME NEW p \in Proc, CommitLogin(p) PROVE session'[s] = session[s]
      BY <1>1, <2>1, GrantedLogin
    <2>2. ASSUME NEW p \in Proc, CommitRefresh(p) PROVE session'[s] = session[s]
      BY <1>1, <2>2, RotatedRow
    <2>3. ASSUME NEW p \in Proc, NEW k \in Session, ~session[k].revoked, Revoke(p, k)
          PROVE  session'[s] = session[s]
      BY <1>1, <2>3 DEF Revoke, IInv, TypeOK
    <2> QED
      BY <1>1, <2>1, <2>2, <2>3, Steps DEF ledgerVars, Tick, Disable
  <1>2. IInv /\ [Next]_vars =>
          [\A s \in Session : session[s] # NoRow /\ session[s].revoked =>
                                session'[s] = session[s]]_vars
    BY <1>1
  <1> QED
    BY <1>2, Invariance, PTL DEF Spec, RevokedForGood

(* A request that begins after its session was revoked or its account      *)
(* disabled is not let in.                                                 *)
THEOREM AccessAlwaysHonest == Spec => AccessHonest
  <1>1. IInv /\ [Next]_vars => [\A p \in Proc : AllowAccess(p) => ~tx[p].barred]_vars
    BY DEF IInv, Barred, AllowAccess
  <1> QED
    BY <1>1, Invariance, PTL DEF Spec, AccessHonest


-----------------------------------------------------------------------------
(* Sessions implements SessionLedger.                                      *)

LEMMA LoginIsLoginAs ==
    ASSUME IInv, NEW p \in Proc, CommitLogin(p)
    PROVE  LoginAs(tx[p].credential, tx[p].account, tx[p].session, tx[p].new, tx[p].expires)
  <1>1. redeemed[tx[p].credential] = 0 \/ Expiry[tx[p].credential] <= now
    <2>1. /\ redeemed[tx[p].credential] \in Nat /\ now \in Nat
          /\ Expiry[tx[p].credential] \in Nat
      BY GrantedLogin, CredentialAssumption DEF IInv, TypeOK
    <2>2. tx[p].credential \in Credential /\ tx[p].credential \notin used
      BY GrantedLogin
    <2>3. ~(redeemed[tx[p].credential] > 0 /\ now < Expiry[tx[p].credential])
      BY <2>2 DEF IInv, CredentialSpent
    <2> QED
      BY <2>1, <2>3
  <1>2. /\ tx[p].account \notin disabled
        /\ session[tx[p].session] = NoRow
        /\ IF owner[Identity(p)] = None THEN tx[p].account \notin account
           ELSE tx[p].account = owner[Identity(p)]
    BY GrantedLogin
  <1> QED
    BY <1>1, <1>2 DEF LoginAs, CommitLogin, Return, Identity

LEMMA RefreshIsReplace ==
    ASSUME IInv, NEW p \in Proc, CommitRefresh(p)
    PROVE  Replace(tx[p].session, tx[p].old, tx[p].new, tx[p].expires)
  <1>1. /\ ~session[tx[p].session].revoked /\ session[tx[p].session].hash = tx[p].old
        /\ tx[p].account = owner[session[tx[p].session].owner]
    BY RotatedRow
  <1> QED
    BY <1>1 DEF Replace, CommitRefresh, Return

LEMMA StepRefines == IInv /\ [Next]_vars => [LedgerNext]_ledgerVars
  <1> SUFFICES ASSUME IInv, [Next]_vars PROVE LedgerNext \/ UNCHANGED ledgerVars
    OBVIOUS
  <1>1. ASSUME NEW p \in Proc, CommitLogin(p) PROVE LedgerNext
    <2>1. tx[p].new \in Hash /\ Issue(tx[p].new)
      BY <1>1, GrantedLogin DEF Issue, CommitLogin, Return
    <2> QED
      BY <1>1, <2>1, LoginIsLoginAs, GrantedLogin DEF LedgerNext, Lifetime
  <1>2. ASSUME NEW p \in Proc, CommitRefresh(p) PROVE LedgerNext
    <2>1. tx[p].new \in Hash /\ tx[p].new # None
      BY <1>2, RotatedRow, NoneAssumption
    <2>2. Issue(tx[p].new)
      BY <1>2, <2>1 DEF Issue, CommitRefresh, Return, IInv, Fresh
    <2> QED
      BY <1>2, <2>1, <2>2, RefreshIsReplace, RotatedRow DEF LedgerNext, Lifetime
  <1>3. ASSUME NEW p \in Proc, NEW s \in Session, ~session[s].revoked, Revoke(p, s)
        PROVE  LedgerNext
    BY <1>3 DEF Revoke, LedgerNext, Terminate
  <1>4. CASE Tick
    BY <1>4 DEF Tick, LedgerNext, Later
  <1>5. ASSUME Disable PROVE LedgerNext
    BY <1>5 DEF Disable, LedgerNext, LockOut, IInv, TypeOK
  <1>6. CASE UNCHANGED vars
    BY <1>6 DEF vars, ledgerVars
  <1> QED
    BY <1>1, <1>2, <1>3, <1>4, <1>5, <1>6, Steps

(* Logins, refreshes and revocations take effect one at a time, at COMMIT, *)
(* each as domain.SessionManager promises it.                              *)
THEOREM ImplementsLedger == Spec => LedgerSpec
  <1>1. Init => LedgerInit
    BY DEF Init
  <1> QED
    BY <1>1, StepRefines, Invariance, PTL DEF Spec, LedgerSpec


=============================================================================
