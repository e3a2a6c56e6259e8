------------------------ MODULE AccountRoles_proofs -------------------------
(***************************************************************************)
(* Proofs about AccountRoles, for any sets of accounts, roles and          *)
(* connections.                                                            *)
(*                                                                         *)
(* IInv is inductive: its parts say where each kind of transaction can be, *)
(* which locks it then holds, and (ViewCurrent) that what it read cannot   *)
(* have changed, because every transaction that commits a change holds the *)
(* state row and its target's account row.  From IInv a commit is a step   *)
(* of RoleLedger, and the properties of the ledger follow.                 *)
(***************************************************************************)
EXTENDS AccountRoles, TLAPS

(* Which statements each kind of transaction reaches, and what the checks  *)
(* on the way there established about the account.                         *)
OnRoute ==
    \A p \in Proc : pc[p] # "idle" =>
        /\ req[p] \in Request
        /\ Is(p, "roles") => pc[p] \in {"state", "roles", "commit"}
        /\ pc[p] \in {"audience", "reuse", "grant"} => Is(p, "login")
        /\ pc[p] = "admins" => Is(p, "replace")
        /\ Is(p, "replace") \/ Is(p, "bootstrap") =>
             pc[p] = "account" \/ status[Target(p)] # "absent"
        /\ Is(p, "replace") /\ pc[p] = "admins" => view[p].revision = req[p].expected
        /\ Is(p, "bootstrap") /\ pc[p] \in {"roles", "commit"} =>
             status[Target(p)] = "enabled"

(* A transaction owns exactly the rows its statements have locked.         *)
LocksHeld ==
    \A p \in Proc :
        /\ stateLock = p <=> pc[p] \in HoldsState
        /\ \A a \in Account :
             accountLock[a] = p <=>
                 /\ pc[p] \notin {"idle", "account"}
                 /\ ~Is(p, "roles")
                 /\ Target(p) = a

(* The inductive invariant.                                                *)
IInv == TypeOK /\ OnRoute /\ LocksHeld /\ ViewCurrent

-----------------------------------------------------------------------------
(* Type correctness: every variable keeps to its type, whatever the        *)
(* interleaving (the rows and Go values of account.go).                    *)

LEMMA InitType == Init => TypeOK
  <1> SUFFICES ASSUME Init PROVE TypeOK
    OBVIOUS
  <1>1. status \in [Account -> Status] /\ roles \in [Account -> SUBSET Role]
    BY RolesAssumption DEF Init, LedgerInit
  <1>2. audit \in Seq(AuditEntry)
    BY DEF Init, LedgerInit
  <1>3. /\ marked \subseteq Account
        /\ initialized \in BOOLEAN
    BY DEF Init, LedgerInit
  <1>6. revision \in Nat \ {0}
    BY DEF Init, LedgerInit
  <1>4. /\ accountLock \in [Account -> Proc \cup {NoProc}]
        /\ stateLock \in Proc \cup {NoProc}
        /\ pc \in [Proc -> Statement]
        /\ req \in [Proc -> Request \cup {NoRequest}]
    BY DEF Init, Statement
  <1>5. view \in [Proc -> View]
    BY DEF Init, NoView, View
  <1> QED
    BY <1>1, <1>2, <1>3, <1>4, <1>5, <1>6 DEF TypeOK

(* A transaction begins with a well-formed request.                        *)
LEMMA BeginRequest ==
  ASSUME NEW p \in Proc, TypeOK,
         BeginReplace(p) \/ BeginBootstrap(p) \/ BeginLogin(p) \/ BeginRoles(p)
  PROVE  \E r \in Request : Begin(p, r)
  <1>1. CASE BeginReplace(p)
    <2>1. PICK a \in Account, R \in SUBSET Role, e \in 1 .. revision :
            Begin(p, [op |-> "replace", account |-> a, roles |-> R, expected |-> e])
      BY <1>1 DEF BeginReplace
    <2>2. e \in Nat
      BY DEF TypeOK
    <2>3. [op |-> "replace", account |-> a, roles |-> R, expected |-> e] \in Request
      BY <2>2 DEF Request
    <2> QED
      BY <2>1, <2>3
  <1>2. ASSUME NEW op \in {"bootstrap", "login", "roles"}, NEW a \in Account
        PROVE  [op |-> op, account |-> a, roles |-> {}, expected |-> 0] \in Request
    BY DEF Request
  <1>3. CASE BeginBootstrap(p)
    BY <1>2, <1>3 DEF BeginBootstrap
  <1>4. CASE BeginLogin(p)
    BY <1>2, <1>4 DEF BeginLogin
  <1>5. CASE BeginRoles(p)
    BY <1>2, <1>5 DEF BeginRoles
  <1> QED
    BY <1>1, <1>3, <1>4, <1>5

(* The request of a transaction under way, and where Advance takes it.     *)
LEMMA ActiveRequest ==
  ASSUME NEW p \in Proc, TypeOK, OnRoute, pc[p] # "idle"
  PROVE  /\ req[p] \in Request
         /\ Target(p) \in Account
         /\ req[p].op \in {"replace", "bootstrap", "login", "roles"}
         /\ view[p] \in View
  BY DEF OnRoute, Request, Target, TypeOK

LEMMA AdvanceType ==
  ASSUME NEW p \in Proc, TypeOK, pc[p] \notin {"commit", "grant"}, Advance(p)
  PROVE  pc' \in [Proc -> Statement]
  <1>1. pc[p] \in Statement
    BY DEF TypeOK
  <1>2. After(req[p].op, pc[p]) \in Statement
    BY <1>1 DEF After, Statement
  <1> QED
    BY <1>2 DEF TypeOK, Advance, Goto

LEMMA FinishType ==
  ASSUME NEW p \in Proc, TypeOK, Finish(p)
  PROVE  /\ accountLock' \in [Account -> Proc \cup {NoProc}]
         /\ stateLock' \in Proc \cup {NoProc}
         /\ pc' \in [Proc -> Statement]
         /\ req' \in [Proc -> Request \cup {NoRequest}]
         /\ view' \in [Proc -> View]
  <1>1. NoView \in View
    BY DEF NoView, View
  <1>2. /\ accountLock' \in [Account -> Proc \cup {NoProc}]
        /\ stateLock' \in Proc \cup {NoProc}
        /\ pc' \in [Proc -> Statement]
        /\ req' \in [Proc -> Request \cup {NoRequest}]
    BY DEF TypeOK, Finish, Statement
  <1> QED
    BY <1>1, <1>2 DEF TypeOK, Finish

LEMMA AuditType ==
  ASSUME NEW p \in Proc, TypeOK, OnRoute, pc[p] # "idle",
         NEW action \in {"roles.replace", "admin.bootstrap", "audience.join"},
         NEW after \in SUBSET Role,
         AuditAccountRoles(p, action, after)
  PROVE  /\ audit' \in Seq(AuditEntry)
         /\ revision' \in Nat \ {0}
  <1> DEFINE entry == [revision |-> view[p].revision + 1, account |-> Target(p),
                       action |-> action, before |-> view[p].roles, after |-> after]
  <1>1. view[p] \in View /\ Target(p) \in Account
    BY ActiveRequest
  <1>2. view[p].revision + 1 \in Nat \ {0} /\ view[p].roles \in SUBSET Role
    BY <1>1 DEF View
  <1>3. entry \in AuditEntry
    BY <1>1, <1>2 DEF AuditEntry
  <1>4. audit' = Append(audit, entry) /\ revision' = view[p].revision + 1
    BY DEF AuditAccountRoles
  <1>5. audit' \in Seq(AuditEntry)
    BY <1>3, <1>4 DEF TypeOK
  <1> QED
    BY <1>2, <1>4, <1>5

(* Every step keeps every variable to its type.                            *)
LEMMA NextType ==
  ASSUME TypeOK, OnRoute, [Next]_vars
  PROVE  TypeOK'
  <1>1. ASSUME NEW p \in Proc, NEW r \in Request, Begin(p, r)
        PROVE  TypeOK'
    <2>1. pc' \in [Proc -> Statement]
      BY <1>1 DEF TypeOK, Begin, After, Statement
    <2> QED
      BY <1>1, <2>1 DEF TypeOK, Begin, ledgerVars
  <1>2. ASSUME NEW p \in Proc,
               BeginReplace(p) \/ BeginBootstrap(p) \/ BeginLogin(p) \/ BeginRoles(p)
        PROVE  TypeOK'
    BY <1>1, <1>2, BeginRequest
  <1>3. ASSUME NEW p \in Proc, LockAccount(p)
        PROVE  TypeOK'
    <2>1. pc' \in [Proc -> Statement]
      BY <1>3, AdvanceType DEF LockAccount
    <2> QED
      BY <1>3, <2>1 DEF TypeOK, LockAccount, ledgerVars
  <1>4. ASSUME NEW p \in Proc, ReadAudience(p)
        PROVE  TypeOK'
    <2>1. pc' \in [Proc -> Statement]
      BY <1>4, AdvanceType DEF ReadAudience, Goto, TypeOK, Statement
    <2> QED
      BY <1>4, <2>1 DEF TypeOK, ReadAudience, ledgerVars
  <1>5. ASSUME NEW p \in Proc, LoadOwnRoles(p) \/ LoadRoles(p)
        PROVE  TypeOK'
    <2>1. pc' \in [Proc -> Statement]
      BY <1>5, AdvanceType DEF LoadOwnRoles, LoadRoles
    <2>2. roles[Target(p)] \in SUBSET Role
      BY <1>5, ActiveRequest DEF TypeOK, LoadOwnRoles, LoadRoles
    <2>3. view' = [view EXCEPT ![p].roles = roles[Target(p)]]
      BY <1>5 DEF LoadOwnRoles, LoadRoles
    <2>4. view' \in [Proc -> View]
      BY <2>2, <2>3 DEF TypeOK, View
    <2> QED
      BY <1>5, <2>1, <2>4 DEF TypeOK, LoadOwnRoles, LoadRoles, ledgerVars
  <1>6. ASSUME NEW p \in Proc, LockState(p)
        PROVE  TypeOK'
    <2>1. pc' \in [Proc -> Statement]
      BY <1>6, AdvanceType DEF LockState
    <2>2. view' \in [Proc -> View]
      BY <1>6 DEF TypeOK, LockState, View
    <2> QED
      BY <1>6, <2>1, <2>2 DEF TypeOK, LockState, ledgerVars
  <1>7. ASSUME NEW p \in Proc, CheckLastAdmin(p)
        PROVE  TypeOK'
    <2>1. pc' \in [Proc -> Statement]
      BY <1>7, AdvanceType DEF CheckLastAdmin
    <2> QED
      BY <1>7, <2>1 DEF TypeOK, CheckLastAdmin, ledgerVars
  <1>8. ASSUME NEW p \in Proc, CommitReplace(p)
        PROVE  TypeOK'
    <2>1. Target(p) \in Account /\ req[p].roles \in SUBSET Role
      BY <1>8, ActiveRequest DEF CommitReplace, Request
    <2>2. audit' \in Seq(AuditEntry) /\ revision' \in Nat \ {0}
      BY <1>8, <2>1, AuditType DEF CommitReplace
    <2>3. Finish(p)
      BY <1>8 DEF CommitReplace
    <2> QED
      BY <1>8, <2>1, <2>2, <2>3, FinishType DEF TypeOK, CommitReplace, MarkAudience
  <1>9. ASSUME NEW p \in Proc, CommitBootstrap(p)
        PROVE  TypeOK'
    <2>1. Target(p) \in Account /\ view[p].roles \cup {Admin} \in SUBSET Role
      BY <1>9, ActiveRequest, RolesAssumption DEF CommitBootstrap, View
    <2>2. audit' \in Seq(AuditEntry) /\ revision' \in Nat \ {0}
      BY <1>9, <2>1, AuditType DEF CommitBootstrap
    <2>3. Finish(p)
      BY <1>9 DEF CommitBootstrap
    <2>4. roles' \in [Account -> SUBSET Role]
      BY <1>9, <2>1, RolesAssumption DEF TypeOK, CommitBootstrap
    <2> QED
      BY <1>9, <2>1, <2>2, <2>3, <2>4, FinishType
      DEF TypeOK, CommitBootstrap, MarkAudience
  <1>10. ASSUME NEW p \in Proc, CommitJoin(p)
         PROVE  TypeOK'
    <2>1. Target(p) \in Account /\ view[p].roles \in SUBSET Role
      BY <1>10, ActiveRequest DEF CommitJoin, View
    <2>2. InitialAudienceRoles(view[p].roles) \in SUBSET Role
      BY <2>1, RolesAssumption DEF InitialAudienceRoles
    <2>3. audit' \in Seq(AuditEntry) /\ revision' \in Nat \ {0}
      BY <1>10, <2>2, AuditType DEF CommitJoin
    <2>4. Finish(p)
      BY <1>10 DEF CommitJoin
    <2>5. roles' \in [Account -> SUBSET Role]
      BY <1>10, <2>1, RolesAssumption DEF TypeOK, CommitJoin, InitialAudienceRoles
    <2>6. status' \in [Account -> Status]
      BY <1>10, <2>1 DEF TypeOK, CommitJoin, Status
    <2> QED
      BY <1>10, <2>1, <2>3, <2>4, <2>5, <2>6, FinishType
      DEF TypeOK, CommitJoin, MarkAudience
  <1>11. ASSUME NEW p \in Proc, CommitRead(p) \/ Reject(p) \/ Fail(p)
         PROVE  TypeOK'
    <2>1. Finish(p) /\ UNCHANGED ledgerVars
      BY <1>11 DEF CommitRead, Reject, Fail
    <2> QED
      BY <2>1, FinishType DEF TypeOK, ledgerVars
  <1>12. CASE UNCHANGED vars
    BY <1>12 DEF TypeOK, vars
  <1> QED
    BY <1>2, <1>3, <1>4, <1>5, <1>6, <1>7, <1>8, <1>9, <1>10, <1>11, <1>12
    DEF Next, Proceed, Commit

-----------------------------------------------------------------------------
(* OnRoute and LocksHeld are preserved.                                    *)

(* Some statement of transaction p between its first and its last.         *)
Move(p) ==
    \/ LockAccount(p) \/ ReadAudience(p) \/ LoadOwnRoles(p) \/ LockState(p)
    \/ LoadRoles(p) \/ CheckLastAdmin(p)

(* The end of transaction p, with or without a change.                     *)
End(p) == Commit(p) \/ Reject(p) \/ Fail(p)

LEMMA NextCases ==
  ASSUME TypeOK, [Next]_vars
  PROVE  \/ \E p \in Proc, r \in Request : Begin(p, r)
         \/ \E p \in Proc : Move(p)
         \/ \E p \in Proc : End(p)
         \/ UNCHANGED vars
  BY BeginRequest DEF Next, Proceed, Move, End

LEMMA MoveFacts ==
  ASSUME NEW p \in Proc, TypeOK, Move(p)
  PROVE  /\ UNCHANGED <<ledgerVars, req>>
         /\ pc[p] \notin {"idle", "commit", "grant"}
         /\ pc'[p] \in {After(req[p].op, pc[p]), "reuse"}
         /\ pc[p] # "audience" => pc'[p] = After(req[p].op, pc[p])
         /\ \A q \in Proc \ {p} : pc'[q] = pc[q] /\ view'[q] = view[q]
  BY DEF Move, LockAccount, ReadAudience, LoadOwnRoles, LockState, LoadRoles,
         CheckLastAdmin, Advance, Goto, TypeOK

LEMMA EndFacts ==
  ASSUME NEW p \in Proc, TypeOK, End(p)
  PROVE  /\ Finish(p)
         /\ pc[p] # "idle"
         /\ \A q \in Proc \ {p} : pc'[q] = pc[q] /\ view'[q] = view[q] /\ req'[q] = req[q]
         /\ pc'[p] = "idle"
  <1>1. Finish(p)
    BY DEF End, Commit, CommitReplace, CommitBootstrap, CommitJoin, CommitRead,
           Reject, Fail
  <1>2. pc[p] # "idle"
    BY DEF End, Commit, CommitReplace, CommitBootstrap, CommitJoin, CommitRead,
           Reject, Fail, Refused, AccountMissing, AccountDisabled, RevisionMoved,
           LastAdmin, AlreadyInitialized, AuditTaken
  <1> QED
    BY <1>1, <1>2 DEF Finish, TypeOK

(* An account never ceases to exist, and an enabled one stays enabled.     *)
LEMMA StatusStable ==
  ASSUME NEW p \in Proc, NEW a \in Account, TypeOK, End(p)
  PROVE  /\ status[a] # "absent" => status'[a] # "absent"
         /\ status[a] = "enabled" => status'[a] = "enabled"
  BY DEF End, Commit, CommitReplace, CommitBootstrap, CommitJoin, CommitRead,
         Reject, Fail, ledgerVars, TypeOK

LEMMA NextOnRoute ==
  ASSUME TypeOK, OnRoute, [Next]_vars
  PROVE  OnRoute'
  <1>1. ASSUME NEW p \in Proc, NEW r \in Request, Begin(p, r)
        PROVE  OnRoute'
    BY <1>1 DEF OnRoute, Begin, After, Is, Target, TypeOK, ledgerVars, Request
  <1>2. ASSUME NEW p \in Proc, Move(p)
        PROVE  OnRoute'
    <2> DEFINE op == req[p].op
    <2>1. /\ req[p] \in Request
          /\ op \in {"replace", "bootstrap", "login", "roles"}
      BY <1>2, MoveFacts, ActiveRequest
    <2>2. op = "roles" => pc'[p] \in {"state", "roles", "commit"}
      BY <1>2, <2>1, MoveFacts DEF OnRoute, After, Is
    <2>3. pc'[p] \in {"audience", "reuse", "grant"} => op = "login"
      BY <1>2, <2>1, MoveFacts DEF OnRoute, After, Is, Statement, TypeOK
    <2>4. pc'[p] = "admins" => op = "replace" /\ pc[p] = "roles"
      BY <1>2, <2>1, MoveFacts DEF OnRoute, After, Is, Statement, TypeOK
    <2>5. op \in {"replace", "bootstrap"} => status[Target(p)] # "absent"
      <3>1. CASE pc[p] = "account"
        BY <1>2, <3>1 DEF Move, LockAccount, ReadAudience, LoadOwnRoles, LockState,
             LoadRoles, CheckLastAdmin, Refused, AccountMissing, Is
      <3> QED
        BY <1>2, <3>1, MoveFacts DEF OnRoute, Is
    <2>6. op = "replace" /\ pc'[p] = "admins" => view'[p].revision = req[p].expected
      <3> SUFFICES ASSUME op = "replace", pc'[p] = "admins"
                   PROVE  view'[p].revision = req[p].expected
        OBVIOUS
      <3>1. LoadRoles(p)
        BY <1>2, <2>4 DEF Move, LockAccount, ReadAudience, LoadOwnRoles, LockState,
             LoadRoles, CheckLastAdmin
      <3>2. view[p].revision = req[p].expected
        BY <3>1 DEF LoadRoles, Refused, RevisionMoved, Is
      <3>3. view'[p].revision = view[p].revision
        BY <3>1 DEF LoadRoles, TypeOK, View
      <3> QED
        BY <3>2, <3>3
    <2>7. op = "bootstrap" /\ pc'[p] \in {"roles", "commit"} =>
            status[Target(p)] = "enabled"
      <3> SUFFICES ASSUME op = "bootstrap", pc'[p] \in {"roles", "commit"}
                   PROVE  status[Target(p)] = "enabled"
        OBVIOUS
      <3>1. pc[p] \in {"state", "roles"}
        BY <1>2, <2>1, MoveFacts DEF After, Statement, TypeOK, OnRoute, Is
      <3>2. CASE pc[p] = "state"
        <4>1. ~Refused(p)
          BY <1>2, <3>2 DEF Move, LockAccount, ReadAudience, LoadOwnRoles, LockState,
               LoadRoles, CheckLastAdmin
        <4>2. status[Target(p)] # "disabled"
          BY <3>2, <4>1 DEF Refused, AccountDisabled, Is
        <4> QED
          BY <2>5, <3>2, <4>2, ActiveRequest DEF TypeOK, Status
      <3> QED
        BY <3>1, <3>2 DEF OnRoute, Is
    <2>8. ASSUME NEW q \in Proc \ {p}
          PROVE  pc'[q] = pc[q] /\ view'[q] = view[q]
      BY <1>2, MoveFacts
    <2>9. UNCHANGED <<status, req>>
      BY <1>2, MoveFacts DEF ledgerVars
    <2> QED
      BY <2>1, <2>2, <2>3, <2>4, <2>5, <2>6, <2>7, <2>8, <2>9
      DEF OnRoute, Is, Target
  <1>3. ASSUME NEW p \in Proc, End(p)
        PROVE  OnRoute'
    <2> SUFFICES ASSUME NEW q \in Proc \ {p}, pc[q] # "idle"
                 PROVE  /\ Target(q) \in Account
                        /\ status[Target(q)] # "absent" => status'[Target(q)] # "absent"
                        /\ status[Target(q)] = "enabled" => status'[Target(q)] = "enabled"
      BY <1>3, EndFacts DEF OnRoute, Is, Target
    <2> QED
      BY <1>3, StatusStable, ActiveRequest
  <1>4. CASE UNCHANGED vars
    BY <1>4 DEF OnRoute, vars, Is, Target
  <1> QED
    BY <1>1, <1>2, <1>3, <1>4, NextCases

(* Locks are taken when the statements say so and released at the end.     *)
LEMMA NextLocksHeld ==
  ASSUME TypeOK, OnRoute, LocksHeld, [Next]_vars
  PROVE  LocksHeld'
  <1> USE ProcAssumption
  <1>1. ASSUME NEW p \in Proc, NEW r \in Request, Begin(p, r)
        PROVE  LocksHeld'
    <2>1. /\ pc[p] = "idle"
          /\ r.op \in {"replace", "bootstrap", "login", "roles"}
          /\ pc'[p] = IF r.op = "roles" THEN "state" ELSE "account"
          /\ req'[p] = r
          /\ UNCHANGED <<accountLock, stateLock>>
          /\ \A q \in Proc \ {p} : pc'[q] = pc[q] /\ req'[q] = req[q]
      BY <1>1 DEF Begin, After, TypeOK, Request
    <2> QED
      BY <2>1 DEF LocksHeld, HoldsState, Is, Target
  <1>2. ASSUME NEW p \in Proc, LockAccount(p)
        PROVE  LocksHeld'
    <2>1. /\ pc[p] = "account" /\ ~Is(p, "roles")
          /\ pc'[p] \in {"audience", "state"}
          /\ UNCHANGED <<stateLock, req>>
          /\ \A q \in Proc \ {p} : pc'[q] = pc[q]
      BY <1>2, ActiveRequest
      DEF LockAccount, Advance, Goto, After, TypeOK, OnRoute, Is
    <2>2. /\ accountLock[Target(p)] = NoProc
          /\ accountLock' = [accountLock EXCEPT ![Target(p)] = p]
          /\ Target(p) \in Account
      BY <1>2, ActiveRequest DEF LockAccount
    <2> QED
      BY <2>1, <2>2 DEF LocksHeld, HoldsState, Is, Target, TypeOK
  <1>3. ASSUME NEW p \in Proc, LockState(p)
        PROVE  LocksHeld'
    <2>1. /\ pc[p] = "state" /\ pc'[p] = "roles"
          /\ stateLock = NoProc /\ stateLock' = p
          /\ UNCHANGED <<accountLock, req>>
          /\ \A q \in Proc \ {p} : pc'[q] = pc[q]
      BY <1>3 DEF LockState, Advance, Goto, After, TypeOK
    <2> QED
      BY <2>1 DEF LocksHeld, HoldsState, Is, Target
  <1>4. ASSUME NEW p \in Proc,
               ReadAudience(p) \/ LoadOwnRoles(p) \/ LoadRoles(p) \/ CheckLastAdmin(p)
        PROVE  LocksHeld'
    <2>1. /\ pc[p] \in HoldsState <=> pc'[p] \in HoldsState
          /\ pc[p] \notin {"idle", "account"} /\ pc'[p] \notin {"idle", "account"}
      BY <1>4
      DEF ReadAudience, LoadOwnRoles, LoadRoles, CheckLastAdmin, Advance, Goto,
          After, HoldsState, TypeOK
    <2>2. /\ UNCHANGED <<accountLock, stateLock, req>>
          /\ \A q \in Proc \ {p} : pc'[q] = pc[q]
      BY <1>4
      DEF ReadAudience, LoadOwnRoles, LoadRoles, CheckLastAdmin, Advance, Goto, TypeOK
    <2> QED
      BY <2>1, <2>2 DEF LocksHeld, HoldsState, Is, Target
  <1>5. ASSUME NEW p \in Proc, End(p)
        PROVE  LocksHeld'
    <2>1. /\ accountLock' = [a \in Account |->
                               IF accountLock[a] = p THEN NoProc ELSE accountLock[a]]
          /\ stateLock' = IF stateLock = p THEN NoProc ELSE stateLock
      BY <1>5, EndFacts DEF Finish
    <2>2. /\ pc'[p] = "idle"
          /\ \A q \in Proc \ {p} : pc'[q] = pc[q] /\ req'[q] = req[q]
      BY <1>5, EndFacts
    <2> QED
      BY <2>1, <2>2 DEF LocksHeld, HoldsState, Is, Target, TypeOK
  <1>6. CASE UNCHANGED vars
    BY <1>6 DEF LocksHeld, vars, HoldsState, Is, Target
  <1> QED
    BY <1>1, <1>2, <1>3, <1>4, <1>5, <1>6, NextCases DEF Move

-----------------------------------------------------------------------------
(* ViewCurrent is preserved: only a transaction that holds the state row   *)
(* and its target's row changes the ledger.                                *)

(* A step that changes the ledger is the commit of a lock holder, which    *)
(* changes the roles and the mark of its own target only.                  *)
LEMMA ChangeByHolder ==
  ASSUME NEW p \in Proc, TypeOK, OnRoute, LocksHeld, End(p),
         ~UNCHANGED ledgerVars
  PROVE  /\ pc[p] = "commit" /\ ~Is(p, "roles")
         /\ stateLock = p
         /\ Target(p) \in Account
         /\ accountLock[Target(p)] = p
         /\ \A a \in Account \ {Target(p)} : roles'[a] = roles[a]
         /\ marked' = marked \cup {Target(p)}
  <1>1. CommitReplace(p) \/ CommitBootstrap(p) \/ CommitJoin(p)
    BY DEF End, Commit, CommitRead, Reject, Fail
  <1>2. pc[p] = "commit" /\ ~Is(p, "roles")
    BY <1>1 DEF CommitReplace, CommitBootstrap, CommitJoin, Is
  <1>3. stateLock = p /\ Target(p) \in Account /\ accountLock[Target(p)] = p
    BY <1>2, ActiveRequest DEF LocksHeld, HoldsState
  <1>4. /\ \A a \in Account \ {Target(p)} : roles'[a] = roles[a]
        /\ marked' = marked \cup {Target(p)}
    BY <1>1, <1>3 DEF CommitReplace, CommitBootstrap, CommitJoin, MarkAudience, TypeOK
  <1> QED
    BY <1>2, <1>3, <1>4

(* ViewCurrent, for one transaction.                                       *)
ViewCurrentOf(p) ==
    /\ pc[p] \in HoldsState =>
         view[p].revision = revision /\ view[p].initialized = initialized
    /\ pc[p] \in {"admins", "commit", "grant"} => view[p].roles = roles[Target(p)]
    /\ pc[p] \in {"reuse", "grant"} => Target(p) \in marked
    /\ pc[p] \in {"state", "roles", "commit"} /\ Is(p, "login") =>
         Target(p) \notin marked
    /\ pc[p] = "commit" /\ Is(p, "replace") =>
         revision = req[p].expected /\ ~TakesLastAdmin(p)
    /\ pc[p] = "commit" /\ Is(p, "bootstrap") =>
         ~initialized /\ \A b \in Account : Admin \notin roles[b]

(* The statements of a transaction establish its own part ...              *)
LEMMA MoveViewCurrent ==
  ASSUME NEW p \in Proc, TypeOK, OnRoute, LocksHeld, ViewCurrentOf(p), Move(p)
  PROVE  ViewCurrentOf(p)'
  <1>1. /\ req[p] \in Request /\ Target(p) \in Account /\ view[p] \in View
        /\ req[p].op \in {"replace", "bootstrap", "login", "roles"}
    BY MoveFacts, ActiveRequest
  <1>2. UNCHANGED <<status, roles, marked, initialized, revision, req>>
    BY MoveFacts DEF ledgerVars
  <1>3. Target(p)' = Target(p) /\ \A op : Is(p, op)' = Is(p, op)
    BY <1>2 DEF Target, Is
  <1>4. CASE LockAccount(p)
    <2>1. pc[p] = "account" /\ pc'[p] = IF Is(p, "login") THEN "audience" ELSE "state"
      BY <1>4 DEF LockAccount, Advance, Goto, After, TypeOK, Is
    <2> QED
      BY <2>1, <1>3 DEF ViewCurrentOf, HoldsState
  <1>5. CASE ReadAudience(p)
    <2>1. /\ pc[p] = "audience"
          /\ pc'[p] = IF Target(p) \in marked THEN "reuse" ELSE "state"
      BY <1>5 DEF ReadAudience, Advance, Goto, After, TypeOK
    <2> QED
      BY <2>1, <1>2, <1>3 DEF ViewCurrentOf, HoldsState
  <1>6. CASE LoadOwnRoles(p)
    <2>1. /\ pc[p] = "reuse" /\ pc'[p] = "grant"
          /\ view'[p].roles = roles[Target(p)]
      BY <1>1, <1>6 DEF LoadOwnRoles, Advance, Goto, After, TypeOK, View
    <2> QED
      BY <2>1, <1>2, <1>3 DEF ViewCurrentOf, HoldsState
  <1>7. CASE LockState(p)
    <2>1. /\ pc[p] = "state" /\ pc'[p] = "roles"
          /\ view'[p].revision = revision /\ view'[p].initialized = initialized
      BY <1>1, <1>7 DEF LockState, Advance, Goto, After, TypeOK, View
    <2> QED
      BY <2>1, <1>2, <1>3 DEF ViewCurrentOf, HoldsState
  <1>8. CASE LoadRoles(p)
    <2>1. /\ pc[p] = "roles" /\ ~Refused(p)
          /\ pc'[p] = IF Is(p, "replace") THEN "admins" ELSE "commit"
      BY <1>8 DEF LoadRoles, Advance, Goto, After, TypeOK, Is
    <2>2. /\ view'[p].roles = roles[Target(p)]
          /\ view'[p].revision = view[p].revision
          /\ view'[p].initialized = view[p].initialized
      BY <1>1, <1>8 DEF LoadRoles, TypeOK, View
    <2>3. Is(p, "bootstrap") =>
            ~view[p].initialized /\ \A b \in Account : Admin \notin roles[b]
      BY <2>1 DEF Refused, AlreadyInitialized
    <2>4. ~(Is(p, "replace") /\ Is(p, "bootstrap"))
      BY DEF Is
    <2> QED
      BY <2>1, <2>2, <2>3, <2>4, <1>2, <1>3 DEF ViewCurrentOf, HoldsState
  <1>9. CASE CheckLastAdmin(p)
    <2>1. /\ pc[p] = "admins" /\ pc'[p] = "commit" /\ ~TakesLastAdmin(p)
          /\ UNCHANGED view
      BY <1>9 DEF CheckLastAdmin, Advance, Goto, After, TypeOK, Refused, LastAdmin
    <2>2. Is(p, "replace") /\ view[p].revision = req[p].expected
      BY <2>1 DEF OnRoute
    <2>3. ~Is(p, "login") /\ ~Is(p, "bootstrap")
      BY <2>2 DEF Is
    <2>4. ~TakesLastAdmin(p)'
      BY <2>1, <1>2, <1>3 DEF TakesLastAdmin, EnabledAdmins
    <2> QED
      BY <2>1, <2>2, <2>3, <2>4, <1>2, <1>3 DEF ViewCurrentOf, HoldsState
  <1> QED
    BY <1>4, <1>5, <1>6, <1>7, <1>8, <1>9 DEF Move

(* ... and the end of another transaction does not disturb it.             *)
LEMMA EndViewCurrent ==
  ASSUME NEW p \in Proc, NEW q \in Proc \ {p}, TypeOK, OnRoute, LocksHeld,
         ViewCurrentOf(q), End(p)
  PROVE  ViewCurrentOf(q)'
  <1>1. pc'[q] = pc[q] /\ view'[q] = view[q] /\ req'[q] = req[q]
    BY EndFacts
  <1>2. Target(q)' = Target(q) /\ \A op : Is(q, op)' = Is(q, op)
    BY <1>1 DEF Target, Is
  <1>3. CASE UNCHANGED ledgerVars
    <2>1. TakesLastAdmin(q)' = TakesLastAdmin(q)
      BY <1>1, <1>2, <1>3 DEF TakesLastAdmin, EnabledAdmins, ledgerVars
    <2> QED
      BY <1>1, <1>2, <1>3, <2>1 DEF ViewCurrentOf, ledgerVars, HoldsState
  <1>4. CASE ~UNCHANGED ledgerVars
    <2>1. stateLock = p /\ accountLock[Target(p)] = p /\ Target(p) \in Account
      BY <1>4, ChangeByHolder
    <2>2. pc[q] \notin HoldsState
      BY <2>1 DEF LocksHeld
    <2>3. ASSUME pc[q] \in {"reuse", "grant"} \/ (pc[q] = "state" /\ Is(q, "login"))
          PROVE  Target(q) # Target(p) /\ Target(q) \in Account
      BY <2>1, <2>3, ActiveRequest DEF LocksHeld, OnRoute, Is
    <2>4. ASSUME NEW a \in Account \ {Target(p)}
          PROVE  roles'[a] = roles[a] /\ (a \in marked' <=> a \in marked)
      BY <1>4, ChangeByHolder
    <2> QED
      BY <1>1, <1>2, <2>2, <2>3, <2>4 DEF ViewCurrentOf, HoldsState
  <1> QED
    BY <1>3, <1>4

LEMMA NextViewCurrent ==
  ASSUME TypeOK, OnRoute, LocksHeld, ViewCurrent, [Next]_vars
  PROVE  ViewCurrent'
  <1>1. ASSUME NEW q \in Proc PROVE ViewCurrentOf(q)
    BY DEF ViewCurrent, ViewCurrentOf
  <1> SUFFICES ASSUME NEW q \in Proc PROVE ViewCurrentOf(q)'
    BY DEF ViewCurrent, ViewCurrentOf
  <1>2. ASSUME NEW p \in Proc, NEW r \in Request, Begin(p, r)
        PROVE  ViewCurrentOf(q)'
    <2>1. UNCHANGED <<status, roles, marked, initialized, revision, view>>
      BY <1>2 DEF Begin, ledgerVars
    <2>2. CASE q = p
      <3>1. pc'[p] \in {"account", "state"} /\ (pc'[p] = "state" => ~Is(p, "login")')
        BY <1>2 DEF Begin, After, TypeOK, Is, Request
      <3> QED
        BY <2>2, <3>1 DEF ViewCurrentOf, HoldsState
    <2>3. CASE q # p
      <3>1. pc'[q] = pc[q] /\ req'[q] = req[q]
        BY <1>2, <2>3 DEF Begin, TypeOK
      <3> QED
        BY <1>1, <2>1, <3>1
        DEF ViewCurrentOf, HoldsState, Target, Is, TakesLastAdmin, EnabledAdmins
    <2> QED
      BY <2>2, <2>3
  <1>3. ASSUME NEW p \in Proc, Move(p)
        PROVE  ViewCurrentOf(q)'
    <2>1. CASE q = p
      BY <1>1, <1>3, <2>1, MoveViewCurrent
    <2>2. CASE q # p
      <3>1. pc'[q] = pc[q] /\ view'[q] = view[q] /\ req'[q] = req[q]
        BY <1>3, <2>2, MoveFacts
      <3>2. UNCHANGED <<status, roles, marked, initialized, revision>>
        BY <1>3, MoveFacts DEF ledgerVars
      <3> QED
        BY <1>1, <3>1, <3>2
        DEF ViewCurrentOf, HoldsState, Target, Is, TakesLastAdmin, EnabledAdmins
    <2> QED
      BY <2>1, <2>2
  <1>4. ASSUME NEW p \in Proc, End(p)
        PROVE  ViewCurrentOf(q)'
    <2>1. CASE q = p
      BY <1>4, <2>1, EndFacts DEF ViewCurrentOf, HoldsState
    <2> QED
      BY <1>1, <1>4, <2>1, EndViewCurrent
  <1>5. CASE UNCHANGED vars
    BY <1>1, <1>5
    DEF ViewCurrentOf, vars, HoldsState, Target, Is, TakesLastAdmin, EnabledAdmins
  <1> QED
    BY <1>2, <1>3, <1>4, <1>5, NextCases

-----------------------------------------------------------------------------
(* The inductive invariant holds, and with it the lock discipline.         *)

LEMMA InitIInv == Init => IInv
  <1> SUFFICES ASSUME Init PROVE IInv
    OBVIOUS
  <1>1. TypeOK
    BY InitType
  <1>2. OnRoute
    BY DEF Init, OnRoute
  <1>3. LocksHeld
    BY ProcAssumption DEF Init, LocksHeld, HoldsState
  <1>4. ViewCurrent
    BY DEF Init, ViewCurrent, HoldsState
  <1> QED
    BY <1>1, <1>2, <1>3, <1>4 DEF IInv

LEMMA NextIInv == IInv /\ [Next]_vars => IInv'
  BY NextType, NextOnRoute, NextLocksHeld, NextViewCurrent DEF IInv

THEOREM Invariance == Spec => []IInv
  BY InitIInv, NextIInv, PTL DEF Spec

(* Every variable keeps to its type in every reachable state.              *)
THEOREM TypeCorrect == Spec => []TypeOK
  BY Invariance, PTL DEF IInv

(* What a transaction of account.go or session.go read or checked is still *)
(* true when it acts on it, for any number of concurrent transactions.     *)
THEOREM ViewsStayCurrent == Spec => []ViewCurrent
  BY Invariance, PTL DEF IInv

(* Transactions that lock the account before the state row never wait for  *)
(* one another in a circle, or for one that has ended, for any number of   *)
(* connections.                                                            *)
THEOREM NoDeadlock == Spec => []WaitsEnd
  <1>1. ASSUME OnRoute, LocksHeld
        PROVE  WaitsEnd
    <2>1. ASSUME NEW p \in Proc, NEW q \in Proc, WaitsFor(p, q)
          PROVE  \/ pc[p] = "account" /\ pc[q] \notin {"idle", "account"}
                 \/ pc[p] = "state" /\ pc[q] \in HoldsState
      <3>1. CASE pc[p] = "account" /\ accountLock[Target(p)] = q
        <4>1. req[p] \in Request
          BY <1>1, <3>1 DEF OnRoute
        <4>2. Target(p) \in Account
          BY <4>1 DEF Request, Target
        <4> QED
          BY <1>1, <3>1, <4>2 DEF LocksHeld
      <3> QED
        BY <1>1, <2>1, <3>1 DEF WaitsFor, LocksHeld
    <2>2. ASSUME NEW p \in Proc, NEW q \in Proc, WaitsFor(p, q)
          PROVE  pc[q] # "idle"
      BY <2>1, <2>2 DEF HoldsState
    <2>3. ASSUME NEW S \in (SUBSET Proc) \ {{}}
          PROVE  \E p \in S : \A q \in S : ~WaitsFor(p, q)
      <3>1. CASE \A p \in S : pc[p] = "account"
        BY <2>1, <3>1 DEF HoldsState
      <3>2. ASSUME NEW p \in S, pc[p] \in HoldsState
            PROVE  \A q \in S : ~WaitsFor(p, q)
        BY <2>1, <3>2 DEF HoldsState
      <3>3. ASSUME NEW p \in S, pc[p] # "account",
                   \A q \in S : pc[q] \notin HoldsState
            PROVE  \A q \in S : ~WaitsFor(p, q)
        BY <2>1, <3>3
      <3> QED
        BY <3>1, <3>2, <3>3
    <2> QED
      BY <2>2, <2>3 DEF WaitsEnd
  <1> QED
    BY <1>1, Invariance, PTL DEF IInv

-----------------------------------------------------------------------------
(* AccountRoles implements RoleLedger.                                     *)

LEMMA CommitReplaceRefines ==
  ASSUME NEW p \in Proc, IInv, CommitReplace(p)
  PROVE  ReplaceRoles(Target(p), req[p].roles, revision)
  <1>1. pc[p] = "commit" /\ Is(p, "replace")
    BY DEF CommitReplace
  <1>2. Target(p) \in Account
    BY <1>1, ActiveRequest DEF IInv
  <1>3. /\ view[p].revision = revision /\ view[p].roles = roles[Target(p)]
        /\ revision = req[p].expected /\ ~TakesLastAdmin(p)
        /\ status[Target(p)] # "absent"
    BY <1>1 DEF IInv, ViewCurrent, OnRoute, HoldsState
  <1>4. Target(p) \in EnabledAdmins /\ Admin \notin req[p].roles =>
          EnabledAdmins # {Target(p)}
    BY <1>2, <1>3 DEF TakesLastAdmin, EnabledAdmins
  <1>5. Change(Target(p), "roles.replace", req[p].roles)
    BY <1>3 DEF Change, CommitReplace, MarkAudience, AuditAccountRoles
  <1> QED
    BY <1>3, <1>4, <1>5 DEF ReplaceRoles, CommitReplace

LEMMA CommitBootstrapRefines ==
  ASSUME NEW p \in Proc, IInv, CommitBootstrap(p)
  PROVE  FirstAdmin(Target(p))
  <1>1. pc[p] = "commit" /\ Is(p, "bootstrap")
    BY DEF CommitBootstrap
  <1>2. /\ view[p].revision = revision /\ view[p].roles = roles[Target(p)]
        /\ ~initialized /\ \A b \in Account : Admin \notin roles[b]
        /\ status[Target(p)] = "enabled"
    BY <1>1 DEF IInv, ViewCurrent, OnRoute, HoldsState
  <1>3. Target(p) \in Account
    BY <1>1, ActiveRequest DEF IInv
  <1>4. Change(Target(p), "admin.bootstrap", roles[Target(p)] \cup {Admin})
    BY <1>2, <1>3
    DEF Change, CommitBootstrap, MarkAudience, AuditAccountRoles, IInv, TypeOK
  <1> QED
    BY <1>2, <1>4 DEF FirstAdmin, CommitBootstrap

LEMMA CommitJoinRefines ==
  ASSUME NEW p \in Proc, IInv, CommitJoin(p)
  PROVE  JoinAudience(Target(p))
  <1>1. pc[p] = "commit" /\ Is(p, "login") /\ ~Refused(p)
    BY DEF CommitJoin
  <1>2. /\ view[p].revision = revision /\ view[p].roles = roles[Target(p)]
        /\ Target(p) \notin marked
    BY <1>1 DEF IInv, ViewCurrent, HoldsState
  <1>3. Target(p) \in Account
    BY <1>1, ActiveRequest DEF IInv
  <1>4. status[Target(p)] # "disabled"
    BY <1>1 DEF Refused, AccountDisabled
  <1>5. roles' = [roles EXCEPT ![Target(p)] = InitialAudienceRoles(roles[Target(p)])]
    BY <1>2, <1>3 DEF CommitJoin, InitialAudienceRoles, IInv, TypeOK
  <1>6. Change(Target(p), "audience.join", InitialAudienceRoles(roles[Target(p)]))
    BY <1>2, <1>5 DEF Change, CommitJoin, MarkAudience, AuditAccountRoles
  <1> QED
    BY <1>2, <1>4, <1>6 DEF JoinAudience, CommitJoin, InitialAudienceRoles

LEMMA StepRefines ==
  ASSUME IInv, [Next]_vars
  PROVE  [LedgerNext]_ledgerVars
  <1>1. ASSUME NEW p \in Proc, CommitReplace(p)
        PROVE  LedgerNext
    <2>1. Target(p) \in Account /\ req[p].roles \in SUBSET Role
      BY <1>1, ActiveRequest DEF IInv, CommitReplace, Request
    <2>2. revision \in 1 .. revision
      BY DEF IInv, TypeOK
    <2> QED
      BY <1>1, <2>1, <2>2, CommitReplaceRefines DEF LedgerNext
  <1>2. ASSUME NEW p \in Proc, CommitBootstrap(p) \/ CommitJoin(p)
        PROVE  LedgerNext
    <2>1. Target(p) \in Account
      BY <1>2, ActiveRequest DEF IInv, CommitBootstrap, CommitJoin
    <2> QED
      BY <1>2, <2>1, CommitBootstrapRefines, CommitJoinRefines DEF LedgerNext
  <1>3. ASSUME NEW p \in Proc, NEW r \in Request, Begin(p, r)
        PROVE  UNCHANGED ledgerVars
    BY <1>3 DEF Begin
  <1>4. ASSUME NEW p \in Proc, CommitRead(p) \/ Reject(p) \/ Fail(p) \/ Move(p)
        PROVE  UNCHANGED ledgerVars
    BY <1>4, MoveFacts DEF CommitRead, Reject, Fail, IInv
  <1>5. CASE UNCHANGED vars
    BY <1>5 DEF vars, ledgerVars
  <1>6. TypeOK
    BY DEF IInv
  <1> QED
    BY <1>1, <1>2, <1>3, <1>4, <1>5, <1>6, NextCases DEF End, Commit

(* Interleaved, locking, failing transactions behave like indivisible      *)
(* changes of the ledger: what account.go promises (domain/account.go:53). *)
THEOREM Refinement == Spec => LedgerSpec
  <1>1. Init => LedgerInit
    BY DEF Init
  <1> QED
    BY <1>1, StepRefines, Invariance, PTL DEF Spec, LedgerSpec

(* An audience never loses its last enabled administrator (ErrLastAdmin).  *)
THEOREM LastAdminTheorem == Spec => LastAdminKept
  <1>1. ASSUME IInv, [Next]_vars, EnabledAdmins # {}
        PROVE  EnabledAdmins' # {}
    <2> SUFFICES \E c \in Account : Admin \in roles'[c] /\ status'[c] = "enabled"
      BY DEF EnabledAdmins
    <2>1. PICK b \in Account : Admin \in roles[b] /\ status[b] = "enabled"
      BY <1>1 DEF EnabledAdmins
    <2>2. roles \in [Account -> SUBSET Role] /\ status \in [Account -> Status]
      BY <1>1 DEF IInv, TypeOK
    <2>3. CASE UNCHANGED ledgerVars
      BY <2>1, <2>3 DEF ledgerVars
    <2>4. ASSUME NEW a \in Account, NEW R \in SUBSET Role, NEW e \in 1 .. revision,
                 ReplaceRoles(a, R, e)
          PROVE  \E c \in Account : Admin \in roles'[c] /\ status'[c] = "enabled"
      <3>1. roles' = [roles EXCEPT ![a] = R] /\ status' = status
        BY <2>4 DEF ReplaceRoles, Change
      <3>2. CASE a # b \/ Admin \in R
        BY <2>1, <2>2, <3>1, <3>2
      <3>3. CASE a = b /\ Admin \notin R
        <4>1. a \in EnabledAdmins
          BY <2>1, <3>3 DEF EnabledAdmins
        <4>2. PICK c \in EnabledAdmins : c # a
          BY <2>4, <3>3, <4>1 DEF ReplaceRoles
        <4>3. c \in Account /\ Admin \in roles[c] /\ status[c] = "enabled"
          BY <4>2 DEF EnabledAdmins
        <4> QED
          BY <2>2, <3>1, <4>2, <4>3
      <3> QED
        BY <3>2, <3>3
    <2>5. ASSUME NEW a \in Account, FirstAdmin(a)
          PROVE  \E c \in Account : Admin \in roles'[c] /\ status'[c] = "enabled"
      <3>1. roles' = [roles EXCEPT ![a] = roles[a] \cup {Admin}]
            /\ status' = status /\ status[a] = "enabled"
        BY <2>5 DEF FirstAdmin, Change
      <3> QED
        BY <2>2, <3>1
    <2>6. ASSUME NEW a \in Account, JoinAudience(a)
          PROVE  \E c \in Account : Admin \in roles'[c] /\ status'[c] = "enabled"
      <3>1. /\ roles' = [roles EXCEPT ![a] = IF roles[a] = {} THEN {User} ELSE roles[a]]
            /\ status' = [status EXCEPT ![a] = "enabled"]
        BY <2>6 DEF JoinAudience, Change
      <3> QED
        BY <2>1, <2>2, <3>1
    <2> QED
      BY <1>1, <2>3, <2>4, <2>5, <2>6, StepRefines DEF LedgerNext
  <1> QED
    BY <1>1, Invariance, PTL DEF Spec, LastAdminKept

-----------------------------------------------------------------------------
(* The audit log.  What every change of the ledger does to it is proved    *)
(* once, on Change, and every commit of AccountRoles is such a change.     *)

(* An account with entries has a last one, and it has been marked.         *)
LastEntryExists ==
    \A j \in DOMAIN audit :
        /\ audit[j].account \in marked
        /\ \E k \in j .. Len(audit) :
             /\ audit[k].account = audit[j].account
             /\ \A m \in k + 1 .. Len(audit) : audit[m].account # audit[j].account

AuditInv == AuditComplete /\ LastEntryExists /\ BootstrapOnce

LEMMA ChangeFacts ==
  ASSUME TypeOK, NEW a \in Account, NEW action, NEW after, Change(a, action, after)
  PROVE  /\ Len(audit) \in Nat /\ DOMAIN audit = 1 .. Len(audit)
         /\ Len(audit') = Len(audit) + 1
         /\ DOMAIN audit' = 1 .. Len(audit) + 1
         /\ \A i \in 1 .. Len(audit) : audit'[i] = audit[i]
         /\ audit'[Len(audit) + 1] =
              [revision |-> revision + 1, account |-> a, action |-> action,
               before |-> roles[a], after |-> after]
         /\ roles'[a] = after
         /\ \A b \in Account : b # a => roles'[b] = roles[b]
         /\ marked' = marked \cup {a}
         /\ revision' = revision + 1
         /\ \A i \in 1 .. Len(audit) : audit[i].account \in Account
  <1> DEFINE entry == [revision |-> revision + 1, account |-> a, action |-> action,
                       before |-> roles[a], after |-> after]
  <1>1. audit \in Seq(AuditEntry) /\ audit' = Append(audit, entry)
    BY DEF TypeOK, Change
  <1>2. /\ Len(audit) \in Nat /\ DOMAIN audit = 1 .. Len(audit)
        /\ Len(audit') = Len(audit) + 1
        /\ DOMAIN audit' = 1 .. Len(audit) + 1
        /\ \A i \in 1 .. Len(audit) : audit'[i] = audit[i]
        /\ audit'[Len(audit) + 1] = entry
    BY <1>1
  <1>3. ASSUME NEW i \in 1 .. Len(audit)
        PROVE  audit[i].account \in Account
    <2>1. audit[i] \in AuditEntry
      BY <1>1, <1>2
    <2> QED
      BY <2>1 DEF AuditEntry
  <1>4. /\ roles'[a] = after
        /\ \A b \in Account : b # a => roles'[b] = roles[b]
        /\ marked' = marked \cup {a}
        /\ revision' = revision + 1
    BY DEF TypeOK, Change
  <1> QED
    BY <1>2, <1>3, <1>4

LEMMA ChangeKeepsAudit ==
  ASSUME TypeOK, AuditComplete, NEW a \in Account, NEW action, NEW after,
         Change(a, action, after)
  PROVE  AuditComplete'
  <1> DEFINE n == Len(audit)
             Later(i) == {j \in i + 1 .. n : audit[j].account = audit[i].account}
             Later2(i) == {j \in i + 1 .. n + 1 : audit'[j].account = audit'[i].account}
  <1>1. /\ n \in Nat /\ DOMAIN audit = 1 .. n
        /\ Len(audit') = n + 1
        /\ DOMAIN audit' = 1 .. n + 1
        /\ \A i \in 1 .. n : audit'[i] = audit[i]
        /\ audit'[n + 1] = [revision |-> revision + 1, account |-> a,
                            action |-> action, before |-> roles[a], after |-> after]
        /\ roles'[a] = after
        /\ \A b \in Account : b # a => roles'[b] = roles[b]
        /\ revision' = revision + 1
        /\ \A i \in 1 .. n : audit[i].account \in Account
    BY ChangeFacts
  <1>2. revision = n + 1 /\ \A i \in 1 .. n : audit[i].revision = i + 1
    BY <1>1 DEF AuditComplete
  <1>3. \A i \in 1 .. n :
          IF Later(i) = {} THEN roles[audit[i].account] = audit[i].after
          ELSE \E j \in Later(i) : audit[j].before = audit[i].after
                                   /\ \A k \in Later(i) : j <= k
    BY <1>1 DEF AuditComplete
  <1>4. revision' = Len(audit') + 1
    BY <1>1, <1>2
  <1>5. ASSUME NEW i \in 1 .. n + 1
        PROVE  audit'[i].revision = i + 1
    <2>1. CASE i = n + 1
      BY <1>1, <1>2, <2>1
    <2>2. CASE i \in 1 .. n
      BY <1>1, <1>2, <2>2
    <2> QED
      BY <1>1, <2>1, <2>2
  <1>6. ASSUME NEW i \in 1 .. n + 1
        PROVE  IF Later2(i) = {} THEN roles'[audit'[i].account] = audit'[i].after
               ELSE \E j \in Later2(i) : audit'[j].before = audit'[i].after
                                         /\ \A k \in Later2(i) : j <= k
    <2>1. CASE i = n + 1
      <3>1. Later2(i) = {}
        BY <1>1, <2>1
      <3>2. roles'[audit'[i].account] = audit'[i].after
        BY <1>1, <2>1
      <3> QED
        BY <3>1, <3>2
    <2>2. CASE i \in 1 .. n /\ audit[i].account # a
      <3>1. Later2(i) = Later(i)
        BY <1>1, <2>2
      <3>2. audit'[i] = audit[i] /\ roles'[audit[i].account] = roles[audit[i].account]
        BY <1>1, <2>2
      <3>3. \A j \in Later(i) : audit'[j] = audit[j]
        BY <1>1, <2>2
      <3> HIDE DEF Later, Later2
      <3> QED
        BY <1>3, <2>2, <3>1, <3>2, <3>3
    <2>3. CASE i \in 1 .. n /\ audit[i].account = a /\ Later(i) = {}
      <3>1. Later2(i) = {n + 1}
        BY <1>1, <2>3
      <3>2. audit'[n + 1].before = audit'[i].after
        BY <1>1, <1>3, <2>3
      <3> HIDE DEF Later, Later2
      <3> QED
        BY <1>1, <3>1, <3>2
    <2>4. CASE i \in 1 .. n /\ audit[i].account = a /\ Later(i) # {}
      <3>1. Later2(i) = Later(i) \cup {n + 1}
        BY <1>1, <2>4
      <3>2. PICK j \in Later(i) : audit[j].before = audit[i].after
                                  /\ \A k \in Later(i) : j <= k
        BY <1>3, <2>4
      <3>3. j \in 1 .. n /\ audit'[j] = audit[j] /\ audit'[i] = audit[i] /\ j <= n + 1
        BY <1>1, <2>4, <3>2
      <3> HIDE DEF Later, Later2
      <3> QED
        BY <3>1, <3>2, <3>3
    <2>5. i = n + 1 \/ i \in 1 .. n
      BY <1>1
    <2> HIDE DEF Later, Later2
    <2> QED
      BY <2>1, <2>2, <2>3, <2>4, <2>5
  <1>7. Len(audit') = n + 1 /\ DOMAIN audit' = 1 .. n + 1
    BY <1>1
  <1> HIDE DEF n
  <1>8. \A i \in DOMAIN audit' : audit'[i].revision = i + 1
    BY <1>5, <1>7
  <1>9. \A i \in DOMAIN audit' :
          LET later == {j \in i + 1 .. Len(audit') : audit'[j].account = audit'[i].account}
          IN  IF later = {} THEN roles'[audit'[i].account] = audit'[i].after
              ELSE \E j \in later : audit'[j].before = audit'[i].after
                                    /\ \A k \in later : j <= k
    BY <1>6, <1>7, Zenon
  <1> QED
    BY <1>4, <1>8, <1>9, Zenon DEF AuditComplete

LEMMA ChangeKeepsLast ==
  ASSUME TypeOK, LastEntryExists, NEW a \in Account, NEW action, NEW after,
         Change(a, action, after)
  PROVE  LastEntryExists'
  <1> DEFINE n == Len(audit)
  <1>1. /\ n \in Nat /\ DOMAIN audit = 1 .. n
        /\ Len(audit') = n + 1
        /\ DOMAIN audit' = 1 .. n + 1
        /\ \A i \in 1 .. n : audit'[i] = audit[i]
        /\ marked' = marked \cup {a}
    BY ChangeFacts
  <1>0. audit'[n + 1].account = a
    <2>1. audit'[n + 1] = [revision |-> revision + 1, account |-> a,
                           action |-> action, before |-> roles[a], after |-> after]
      BY ChangeFacts
    <2> QED
      BY <2>1
  <1>9. DOMAIN audit' = 1 .. n + 1 /\ Len(audit') = n + 1
    BY <1>1
  <1> SUFFICES ASSUME NEW j \in 1 .. n + 1
               PROVE  /\ audit'[j].account \in marked'
                      /\ \E k \in j .. n + 1 :
                           /\ audit'[k].account = audit'[j].account
                           /\ \A m \in k + 1 .. n + 1 :
                                audit'[m].account # audit'[j].account
    BY <1>9 DEF LastEntryExists
  <1>2. CASE audit'[j].account = a
    <2>1. n + 1 \in j .. n + 1 /\ \A m \in n + 1 + 1 .. n + 1 : FALSE
      BY <1>1
    <2> QED
      BY <1>0, <1>1, <1>2, <2>1
  <1>3. CASE audit'[j].account # a
    <2>1. j \in 1 .. n /\ audit'[j] = audit[j]
      BY <1>0, <1>1, <1>3
    <2>5. j \in DOMAIN audit
      BY <1>1, <2>1
    <2>6. /\ audit[j].account \in marked
          /\ \E k \in j .. n :
               /\ audit[k].account = audit[j].account
               /\ \A m \in k + 1 .. n : audit[m].account # audit[j].account
      BY <2>5 DEF LastEntryExists
    <2>2. PICK k \in j .. n :
            /\ audit[k].account = audit[j].account
            /\ \A m \in k + 1 .. n : audit[m].account # audit[j].account
      BY <2>6
    <2>3. k \in 1 .. n /\ k \in j .. n + 1 /\ audit'[k] = audit[k]
      BY <1>1, <2>1, <2>2
    <2>4. ASSUME NEW m \in k + 1 .. n + 1
          PROVE  audit'[m].account # audit'[j].account
      <3>1. CASE m = n + 1
        BY <1>0, <1>1, <1>3, <3>1
      <3>2. CASE m \in k + 1 .. n
        BY <1>1, <2>1, <2>2, <2>3, <3>2
      <3> QED
        BY <1>1, <2>3, <3>1, <3>2
    <2>7. audit'[k].account = audit'[j].account
      BY <2>1, <2>2, <2>3
    <2>8. audit'[j].account \in marked'
      BY <1>1, <2>1, <2>6
    <2> HIDE DEF n
    <2> QED
      BY <2>3, <2>4, <2>7, <2>8
  <1> QED
    BY <1>2, <1>3

(* A change that is no bootstrap keeps BootstrapOnce.                      *)
LEMMA OtherKeepsBootstrap ==
  ASSUME TypeOK, BootstrapOnce, NEW a \in Account, NEW action, NEW after,
         action # "admin.bootstrap", Change(a, action, after),
         initialized' = initialized
  PROVE  BootstrapOnce'
  <1> DEFINE n == Len(audit)
  <1>1. /\ n \in Nat /\ DOMAIN audit = 1 .. n /\ DOMAIN audit' = 1 .. n + 1
        /\ \A i \in 1 .. n : audit'[i] = audit[i]
    BY ChangeFacts
  <1>2. audit'[n + 1].action = action
    <2>1. audit'[n + 1] = [revision |-> revision + 1, account |-> a,
                           action |-> action, before |-> roles[a], after |-> after]
      BY ChangeFacts
    <2> QED
      BY <2>1
  <1> SUFFICES ASSUME NEW i \in 1 .. n + 1, audit'[i].action = "admin.bootstrap"
               PROVE  /\ initialized'
                      /\ \A j \in 1 .. n + 1 :
                           audit'[j].action = "admin.bootstrap" => j = i
                      /\ \A j \in 1 .. i - 1 :
                           Admin \in audit'[j].after =>
                             \E k \in j + 1 .. i - 1 :
                               /\ audit'[k].account = audit'[j].account
                               /\ Admin \notin audit'[k].after
    BY <1>1 DEF BootstrapOnce
  <1>3. i \in 1 .. n /\ audit[i].action = "admin.bootstrap"
    BY <1>1, <1>2
  <1>4. /\ initialized
        /\ \A j \in 1 .. n : audit[j].action = "admin.bootstrap" => j = i
        /\ \A j \in 1 .. i - 1 :
             Admin \in audit[j].after =>
               \E k \in j + 1 .. i - 1 : audit[k].account = audit[j].account
                                         /\ Admin \notin audit[k].after
    BY <1>1, <1>3 DEF BootstrapOnce
  <1>5. ASSUME NEW j \in 1 .. n + 1, audit'[j].action = "admin.bootstrap"
        PROVE  j = i
    <2>1. j \in 1 .. n /\ audit'[j] = audit[j]
      BY <1>1, <1>2, <1>5
    <2> QED
      BY <1>4, <1>5, <2>1
  <1>6. ASSUME NEW j \in 1 .. i - 1, Admin \in audit'[j].after
        PROVE  \E k \in j + 1 .. i - 1 : /\ audit'[k].account = audit'[j].account
                                         /\ Admin \notin audit'[k].after
    <2>1. audit'[j] = audit[j]
      BY <1>1, <1>3
    <2>2. PICK k \in j + 1 .. i - 1 : audit[k].account = audit[j].account
                                     /\ Admin \notin audit[k].after
      BY <1>4, <1>6, <2>1
    <2>3. audit'[k] = audit[k]
      BY <1>1, <1>3, <2>2
    <2> QED
      BY <2>1, <2>2, <2>3
  <1> QED
    BY <1>4, <1>5, <1>6

(* The bootstrap keeps BootstrapOnce: no binding of admin exists, so the   *)
(* last entry of every account that was ever given admin took it away.     *)
LEMMA FirstAdminKeepsBootstrap ==
  ASSUME TypeOK, AuditInv, NEW a \in Account, FirstAdmin(a)
  PROVE  BootstrapOnce'
  <1> DEFINE n == Len(audit)
             after == roles[a] \cup {Admin}
  <1>0. /\ Change(a, "admin.bootstrap", after)
        /\ ~initialized /\ initialized' = TRUE
        /\ \A b \in Account : Admin \notin roles[b]
    BY DEF FirstAdmin
  <1>1. /\ n \in Nat /\ DOMAIN audit = 1 .. n /\ DOMAIN audit' = 1 .. n + 1
        /\ \A i \in 1 .. n : audit'[i] = audit[i]
        /\ \A i \in 1 .. n : audit[i].account \in Account
    BY <1>0, ChangeFacts
  <1>2. \A i \in 1 .. n : audit[i].action # "admin.bootstrap"
    BY <1>0, <1>1 DEF AuditInv, BootstrapOnce
  <1>3. ASSUME NEW j \in 1 .. n, Admin \in audit[j].after
        PROVE  \E k \in j + 1 .. n : audit[k].account = audit[j].account
                                     /\ Admin \notin audit[k].after
    <2>1. \E k \in j .. n :
            /\ audit[k].account = audit[j].account
            /\ \A m \in k + 1 .. n : audit[m].account # audit[j].account
      BY <1>1 DEF AuditInv, LastEntryExists
    <2>2. PICK k \in j .. n :
            /\ audit[k].account = audit[j].account
            /\ \A m \in k + 1 .. n : audit[m].account # audit[j].account
      BY <2>1
    <2> DEFINE later == {m \in k + 1 .. n : audit[m].account = audit[k].account}
    <2>3. k \in 1 .. n /\ later = {}
      BY <1>1, <2>2
    <2>4. IF later = {} THEN roles[audit[k].account] = audit[k].after
          ELSE \E m \in later : audit[m].before = audit[k].after
                                /\ \A l \in later : m <= l
      BY <1>1, <2>3 DEF AuditInv, AuditComplete
    <2>5. roles[audit[k].account] = audit[k].after
      BY <2>3, <2>4
    <2>6. Admin \notin audit[k].after
      BY <1>0, <1>1, <2>3, <2>5
    <2>7. k # j
      BY <1>3, <2>6
    <2>8. k \in j + 1 .. n
      BY <1>1, <2>2, <2>7
    <2> QED
      BY <2>2, <2>6, <2>8
  <1>4. ASSUME NEW i \in 1 .. n + 1, audit'[i].action = "admin.bootstrap"
        PROVE  i = n + 1
    BY <1>1, <1>2, <1>4
  <1>5. ASSUME NEW j \in 1 .. n, Admin \in audit'[j].after
        PROVE  \E k \in j + 1 .. n : audit'[k].account = audit'[j].account
                                     /\ Admin \notin audit'[k].after
    <2>1. audit'[j] = audit[j]
      BY <1>1
    <2>2. PICK k \in j + 1 .. n : audit[k].account = audit[j].account
                                 /\ Admin \notin audit[k].after
      BY <1>3, <1>5, <2>1
    <2>3. audit'[k] = audit[k]
      BY <1>1, <2>2
    <2> QED
      BY <2>1, <2>2, <2>3
  <1>6. (n + 1) - 1 = n
    BY <1>1
  <1> HIDE DEF n
  <1> QED
    BY <1>0, <1>1, <1>4, <1>5, <1>6 DEF BootstrapOnce

(* Every step of the ledger keeps AuditInv.                                *)
LEMMA LedgerKeepsAuditInv ==
  ASSUME TypeOK, AuditInv, [LedgerNext]_ledgerVars
  PROVE  AuditInv'
  <1>1. CASE UNCHANGED ledgerVars
    BY <1>1 DEF ledgerVars, AuditInv, AuditComplete, LastEntryExists, BootstrapOnce
  <1>2. ASSUME NEW a \in Account, NEW R \in SUBSET Role, NEW e \in 1 .. revision,
               ReplaceRoles(a, R, e)
        PROVE  AuditInv'
    <2>1. Change(a, "roles.replace", R) /\ initialized' = initialized
      BY <1>2 DEF ReplaceRoles
    <2> QED
      BY <2>1, ChangeKeepsAudit, ChangeKeepsLast, OtherKeepsBootstrap DEF AuditInv
  <1>3. ASSUME NEW a \in Account, FirstAdmin(a)
        PROVE  AuditInv'
    <2>1. Change(a, "admin.bootstrap", roles[a] \cup {Admin})
      BY <1>3 DEF FirstAdmin
    <2> QED
      BY <1>3, <2>1, ChangeKeepsAudit, ChangeKeepsLast, FirstAdminKeepsBootstrap
      DEF AuditInv
  <1>4. ASSUME NEW a \in Account, JoinAudience(a)
        PROVE  AuditInv'
    <2> DEFINE after == IF roles[a] = {} THEN {User} ELSE roles[a]
    <2>1. Change(a, "audience.join", after) /\ initialized' = initialized
      BY <1>4 DEF JoinAudience
    <2> HIDE DEF after
    <2> QED
      BY <2>1, ChangeKeepsAudit, ChangeKeepsLast, OtherKeepsBootstrap DEF AuditInv
  <1> QED
    BY <1>1, <1>2, <1>3, <1>4 DEF LedgerNext

(* AuditInv holds of every state account.go can reach: the facts about the *)
(* audit log that the theorems below are the parts of.                     *)
THEOREM AuditInvariance == Spec => []AuditInv
  <1>1. Init => AuditInv
    BY DEF Init, LedgerInit, AuditInv, AuditComplete, LastEntryExists, BootstrapOnce
  <1>2. IInv /\ AuditInv /\ [Next]_vars => AuditInv'
    BY StepRefines, LedgerKeepsAuditInv DEF IInv
  <1> QED
    BY <1>1, <1>2, Invariance, PTL DEF Spec

(* The audit log is the whole history of the role bindings (the audit row  *)
(* every commit of account.go writes).                                     *)
THEOREM AuditIsComplete == Spec => []AuditComplete
  BY AuditInvariance, PTL DEF AuditInv

(* The bootstrap succeeds at most once, and never after an administrator   *)
(* was assigned otherwise (BootstrapAdmin).                                *)
THEOREM BootstrapTheorem == Spec => []BootstrapOnce
  BY AuditInvariance, PTL DEF AuditInv

(* A login leaves the roles of an account that has an audit entry alone    *)
(* (ensureAndLoadRoles).                                                   *)
THEOREM ClearedTheorem == Spec => ClearedStaysCleared
  <1>1. ASSUME IInv, AuditInv, [Next]_vars, NEW a \in Account, NEW i \in DOMAIN audit,
               audit[i].account = a, roles'[a] # roles[a]
        PROVE  /\ audit' # audit
               /\ audit'[Len(audit')].account = a
               /\ audit'[Len(audit')].action # "audience.join"
    <2> DEFINE n == Len(audit)
               Goal == /\ audit' # audit
                       /\ audit'[Len(audit')].account = a
                       /\ audit'[Len(audit')].action # "audience.join"
    <2>1. TypeOK /\ a \in marked
      BY <1>1 DEF IInv, AuditInv, LastEntryExists
    <2>2. ASSUME NEW b \in Account, NEW action, NEW after,
                 action # "audience.join", Change(b, action, after)
          PROVE  Goal
      <3>1. /\ n \in Nat /\ Len(audit') = n + 1
            /\ audit'[n + 1] = [revision |-> revision + 1, account |-> b,
                                action |-> action, before |-> roles[b],
                                after |-> after]
            /\ \A c \in Account : c # b => roles'[c] = roles[c]
        BY <2>1, <2>2, ChangeFacts
      <3>2. a = b
        BY <1>1, <3>1
      <3>3. audit' # audit
        BY <3>1
      <3>4. audit'[n + 1].account = b /\ audit'[n + 1].action = action
        BY <3>1
      <3> QED
        BY <2>2, <3>1, <3>2, <3>3, <3>4
    <2>3. ASSUME UNCHANGED ledgerVars
          PROVE  Goal
      BY <1>1, <2>3 DEF ledgerVars
    <2>4. ASSUME NEW b \in Account, JoinAudience(b)
          PROVE  Goal
      <3>1. Change(b, "audience.join", IF roles[b] = {} THEN {User} ELSE roles[b])
            /\ b \notin marked
        BY <2>4 DEF JoinAudience
      <3>2. \A c \in Account : c # b => roles'[c] = roles[c]
        BY <2>1, <3>1, ChangeFacts
      <3>3. a # b
        BY <2>1, <3>1
      <3>4. roles'[a] = roles[a]
        BY <3>2, <3>3
      <3> QED
        BY <1>1, <3>4
    <2>5. ASSUME NEW b \in Account, FirstAdmin(b)
          PROVE  Goal
      BY <2>2, <2>5 DEF FirstAdmin
    <2>6. ASSUME NEW b \in Account, NEW R \in SUBSET Role, NEW e \in 1 .. revision,
                 ReplaceRoles(b, R, e)
          PROVE  Goal
      BY <2>2, <2>6 DEF ReplaceRoles
    <2> HIDE DEF Goal
    <2>7. [LedgerNext]_ledgerVars
      BY <1>1, StepRefines
    <2>8. Goal
      BY <2>3, <2>4, <2>5, <2>6, <2>7 DEF LedgerNext
    <2> QED
      BY <2>8 DEF Goal
  <1>2. IInv /\ AuditInv /\ [Next]_vars =>
          [\A a \in Account :
             (\E i \in DOMAIN audit : audit[i].account = a) /\ roles'[a] # roles[a] =>
                 /\ audit' # audit
                 /\ audit'[Len(audit')].account = a
                 /\ audit'[Len(audit')].action # "audience.join"]_vars
    BY <1>1
  <1> QED
    BY <1>2, Invariance, AuditInvariance, PTL DEF Spec, ClearedStaysCleared

=============================================================================
