------------------------ MODULE AuthPipeline_proofs -------------------------
(***************************************************************************)
(* Proofs about AuthPipeline, for any replicas, clients, sessions, roles   *)
(* and tokens.                                                             *)
(*                                                                         *)
(* RotationInv says how far replicas and tokens can be apart in a rotation *)
(* of the key; PassedInv what the checks a request has passed have         *)
(* established, in terms of what has held since it began.                  *)
(***************************************************************************)
EXTENDS AuthPipeline, TLAPS

Bearer == Token \cup {NoToken, Malformed}
Fact == {"live", "fresh", "allowed"}

TypeOK ==
    /\ clock \in Nat
    /\ stage \in Stage /\ config \in [Replica -> Stage]
    /\ tokens \subseteq Token
    /\ live \subseteq Session
    /\ allowed \in [Replica -> SUBSET Role]
    /\ pc \in [Client -> {"idle", "verify", "session", "authorize", "handler"}]
    /\ req \in [Client -> [replica : Replica, token : Bearer, access : Access]
                          \cup {NoRequest}]
    /\ answer \in [Client -> {"none", "unauthenticated", "expired", "failed",
                              "forbidden", "handled"}]
    /\ since \in [Client -> SUBSET Fact]

(* No replica is more than one stage behind the operator; the new key      *)
(* signs only when all replicas know it, and the old one is forgotten only *)
(* when its tokens are over.                                               *)
RotationInv ==
    /\ \A r \in Replica : config[r] = stage \/ config[r] + 1 = stage
    /\ \A t \in tokens : t.kid = "new" => stage >= 2
    /\ stage = 3 => \A t \in tokens : t.kid = "old" => t.exp <= clock

(* A request under way, and what has held of it.                           *)
UnderWay(c) ==
    /\ req[c] \in [replica : Replica, token : Bearer, access : Access]
    /\ req[c].token \in tokens \cup {NoToken, Malformed}
    /\ answer[c] = "none"
    /\ Holds(c, allowed[req[c].replica]) => "allowed" \in since[c]
    /\ req[c].token \in tokens =>
         /\ req[c].token.sid \in live => "live" \in since[c]
         /\ ~Over(req[c].token) => "fresh" \in since[c]

PassedInv ==
    \A c \in Client : pc[c] # "idle" =>
        /\ UnderWay(c)
        /\ pc[c] = "verify" => req[c].token # NoToken
        /\ pc[c] = "session" => req[c].token \in tokens /\ "fresh" \in since[c]
        /\ pc[c] \in {"authorize", "handler"} =>
             \/ req[c].token = NoToken
             \/ req[c].token \in tokens /\ {"live", "fresh"} \subseteq since[c]

IInv == TypeOK /\ RotationInv /\ PassedInv /\ AdmittedLawfully

-----------------------------------------------------------------------------

LEMMA InitInv == Init => IInv
  BY PipelineAssumption
  DEF Init, IInv, TypeOK, RotationInv, PassedInv, AdmittedLawfully, Stage, Fact

(* Time, sessions, policies and keys change while requests are under way.  *)
LEMMA EnvStep ==
    ASSUME IInv,
           \/ Tick
           \/ \E r \in Replica, s \in Session, roles \in SUBSET Role : Issue(r, s, roles)
           \/ \E s \in Session : End(s)
           \/ Rotate
    PROVE  IInv'
  <1> USE DEF IInv, TypeOK
  <1>1. UNCHANGED <<request, since, config, allowed>>
    BY DEF Tick, Issue, End, Rotate, request
  <1>2. /\ TypeOK' /\ RotationInv'
        /\ tokens \subseteq tokens' /\ live' \subseteq live /\ clock <= clock'
    <2>1. CASE Tick
      <3>1. \A t \in tokens : t.exp \in Nat
        BY DEF Token
      <3>2. clock' = clock + 1 /\ UNCHANGED <<stage, config, tokens, live>>
        BY <2>1 DEF Tick
      <3>3. RotationInv'
        BY <3>1, <3>2 DEF RotationInv
      <3> QED
        BY <1>1, <3>2, <3>3 DEF request
    <2>2. ASSUME NEW r \in Replica, NEW s \in Session, NEW roles \in SUBSET Role,
                 Issue(r, s, roles)
          PROVE  /\ TypeOK' /\ RotationInv'
                 /\ tokens \subseteq tokens' /\ live' \subseteq live /\ clock <= clock'
      <3> DEFINE t == [kid |-> Active(config[r]), sid |-> s, roles |-> roles,
                       exp |-> clock + TTL]
      <3>1. tokens' = tokens \cup {t} /\ clock' = clock /\ stage' = stage
            /\ config' = config /\ live' = live
        BY <2>2 DEF Issue
      <3>2. t \in Token
        BY PipelineAssumption DEF Token, Active
      <3>3. t.kid = "new" => stage >= 2
        BY DEF Active, RotationInv, Stage
      <3>4. stage = 3 => t.kid # "old"
        BY DEF Active, RotationInv, Stage
      <3> QED
        BY <1>1, <3>1, <3>2, <3>3, <3>4 DEF RotationInv, request
    <2>3. CASE \E s \in Session : End(s)
      BY <2>3 DEF End, request, RotationInv
    <2>4. CASE Rotate
      <3>1. /\ stage' = stage + 1 /\ stage' \in Stage
            /\ \A r \in Replica : config[r] = stage
            /\ UNCHANGED <<clock, config, tokens, live, allowed, request, since>>
        BY <2>4 DEF Rotate, Stage
      <3>2. stage' = 3 => \A t \in tokens : t.kid = "old" => t.exp <= clock
        BY <2>4, <3>1 DEF Rotate, Stage
      <3>3. stage \in Nat
        BY DEF Stage
      <3> QED
        <4>1. RotationInv'
          BY <3>1, <3>2, <3>3 DEF RotationInv
        <4>2. TypeOK'
          BY <3>1 DEF request
        <4> QED
          BY <3>1, <4>1, <4>2
    <2> QED
      BY <2>1, <2>2, <2>3, <2>4
  <1>3. PassedInv'
    <2> SUFFICES ASSUME NEW c \in Client, pc[c] # "idle"
                 PROVE  /\ UnderWay(c)'
                        /\ pc[c] = "verify" => req[c].token # NoToken
                        /\ pc[c] = "session" =>
                             req[c].token \in tokens' /\ "fresh" \in since[c]
                        /\ pc[c] \in {"authorize", "handler"} =>
                             \/ req[c].token = NoToken
                             \/ req[c].token \in tokens' /\ {"live", "fresh"} \subseteq since[c]
      BY <1>1 DEF PassedInv, request
    <2>1. UnderWay(c)
      BY DEF PassedInv
    <2>2. req[c].token \in tokens' => req[c].token \in tokens
      BY <1>2, <2>1, PipelineAssumption DEF UnderWay
    <2>3. req[c].token \in tokens => req[c].token.exp \in Nat
      BY DEF Token
    <2>4. UnderWay(c)'
      BY <1>1, <1>2, <2>1, <2>2, <2>3, PipelineAssumption
      DEF UnderWay, Holds, Over, request
    <2> QED
      BY <1>2, <2>4 DEF PassedInv
  <1>4. AdmittedLawfully'
    BY <1>1 DEF AdmittedLawfully, request
  <1> QED
    BY <1>2, <1>3, <1>4

LEMMA ReloadStep ==
    ASSUME IInv, NEW r \in Replica, NEW roles \in SUBSET Role, ReloadPolicy(r, roles)
    PROVE  IInv'
  <1> USE DEF IInv, TypeOK
  <1>1. /\ UNCHANGED <<clock, stage, config, tokens, live, pc, req, answer>>
        /\ allowed' = [allowed EXCEPT ![r] = roles]
    BY DEF ReloadPolicy, request
  <1>2. \A c \in Client :
          /\ since'[c] = since[c] \cup (IF At(c, r) /\ Holds(c, roles) THEN {"allowed"} ELSE {})
          /\ since[c] \subseteq since'[c]
    BY DEF ReloadPolicy
  <1>3. TypeOK' /\ RotationInv'
    <2>1. since' \in [Client -> SUBSET Fact]
      BY DEF ReloadPolicy, Fact
    <2> QED
      BY <1>1, <2>1 DEF RotationInv
  <1>4. ASSUME NEW c \in Client, pc[c] # "idle" PROVE UnderWay(c)'
    <2>1. UnderWay(c)
      BY <1>4 DEF PassedInv
    <2>2. Holds(c, allowed'[req[c].replica]) => "allowed" \in since'[c]
      <3>1. CASE req[c].replica = r
        BY <1>1, <1>2, <1>4, <3>1 DEF At
      <3>2. CASE req[c].replica # r
        BY <1>1, <1>2, <2>1, <3>2 DEF UnderWay
      <3> QED
        BY <3>1, <3>2
    <2> QED
      BY <1>1, <1>2, <2>1, <2>2 DEF UnderWay, Holds, Over
  <1>5. PassedInv'
    BY <1>1, <1>2, <1>4 DEF PassedInv
  <1>6. AdmittedLawfully'
    BY <1>1, <1>2 DEF AdmittedLawfully
  <1> QED
    BY <1>3, <1>5, <1>6

LEMMA DeployStep ==
    ASSUME IInv, NEW r \in Replica, Deploy(r) PROVE IInv'
  <1> USE DEF IInv, TypeOK
  <1>1. /\ UNCHANGED <<clock, stage, tokens, live, allowed, answer>>
        /\ config' = [config EXCEPT ![r] = stage]
    BY DEF Deploy
  <1>2. \A c \in Client :
          \/ pc'[c] = "idle"
          \/ pc'[c] = pc[c] /\ req'[c] = req[c] /\ since'[c] = since[c]
    BY DEF Deploy
  <1>3. TypeOK' /\ RotationInv'
    BY <1>1 DEF Deploy, RotationInv
  <1>4. PassedInv'
    BY <1>1, <1>2 DEF PassedInv, UnderWay, Holds, Over
  <1>5. AdmittedLawfully'
    BY <1>1, <1>2 DEF AdmittedLawfully
  <1> QED
    BY <1>3, <1>4, <1>5

(* A client sends a request.                                               *)
LEMMA BeginStep == ASSUME IInv, NEW c \in Client, Begin(c) PROVE IInv'
  <1> USE DEF IInv, TypeOK
  <1>1. PICK r \in Replica, t \in tokens \cup {NoToken, Malformed}, a \in Access :
          /\ req' = [req EXCEPT ![c] = [replica |-> r, token |-> t, access |-> a]]
          /\ since' = [since EXCEPT ![c] = Facts(t, r)]
          /\ pc' = [pc EXCEPT ![c] = IF t = NoToken THEN "authorize" ELSE "verify"]
    BY DEF Begin
  <1>2. UNCHANGED env /\ answer' = [answer EXCEPT ![c] = "none"]
    BY DEF Begin
  <1>3. TypeOK' /\ RotationInv'
    <2>1. Facts(t, r) \in SUBSET Fact
      BY DEF Facts, Fact
    <2>2. [replica |-> r, token |-> t, access |-> a]
            \in [replica : Replica, token : Bearer, access : Access]
      BY DEF Bearer
    <2> QED
      BY <1>1, <1>2, <2>1, <2>2 DEF env, RotationInv
  <1>4. UnderWay(c)'
    <2>1. /\ req'[c] = [replica |-> r, token |-> t, access |-> a]
          /\ since'[c] = Facts(t, r) /\ answer'[c] = "none"
          /\ UNCHANGED <<tokens, live, clock, allowed>>
      BY <1>1, <1>2 DEF env
    <2>2. t \in tokens =>
            /\ t.sid \in live => "live" \in Facts(t, r)
            /\ ~Over(t) => "fresh" \in Facts(t, r)
            /\ t.roles \cap allowed[r] # {} => "allowed" \in Facts(t, r)
      BY DEF Facts
    <2>3. t \in Bearer
      BY DEF Bearer
    <2> QED
      BY <2>1, <2>2, <2>3 DEF UnderWay, Holds, Over
  <1>5. PassedInv'
    <2>1. \A d \in Client \ {c} :
            /\ pc'[d] = pc[d] /\ req'[d] = req[d] /\ since'[d] = since[d]
            /\ answer'[d] = answer[d]
      BY <1>1, <1>2
    <2>2. ASSUME NEW d \in Client \ {c}, UnderWay(d) PROVE UnderWay(d)'
      BY <1>2, <2>1, <2>2 DEF UnderWay, Holds, Over, env
    <2>3. /\ pc'[c] \in {"verify", "authorize"}
          /\ pc'[c] = "verify" => req'[c].token # NoToken
          /\ pc'[c] = "authorize" => req'[c].token = NoToken
      BY <1>1
    <2>4. SUFFICES ASSUME NEW d \in Client, pc'[d] # "idle"
                   PROVE  /\ UnderWay(d)'
                          /\ pc'[d] = "verify" => req'[d].token # NoToken
                          /\ pc'[d] = "session" =>
                               req'[d].token \in tokens' /\ "fresh" \in since'[d]
                          /\ pc'[d] \in {"authorize", "handler"} =>
                               \/ req'[d].token = NoToken
                               \/ req'[d].token \in tokens' /\ {"live", "fresh"} \subseteq since'[d]
      BY DEF PassedInv
    <2>5. CASE d = c
      BY <1>4, <2>3, <2>5
    <2>6. CASE d # c
      BY <1>2, <2>1, <2>2, <2>4, <2>6 DEF PassedInv, env
    <2> QED
      BY <2>5, <2>6
  <1>6. AdmittedLawfully'
    BY <1>1, <1>2 DEF AdmittedLawfully
  <1> QED
    BY <1>3, <1>5, <1>6

(* The two ways a check can end.                                           *)
LEMMA ReplyStep ==
    ASSUME IInv, NEW c \in Client,
           NEW a \in {"unauthenticated", "expired", "failed", "forbidden", "handled"},
           Reply(c, a)
    PROVE  IInv'
  <1> USE DEF IInv, TypeOK
  <1>1. TypeOK' /\ RotationInv'
    BY DEF Reply, env, RotationInv
  <1>2. PassedInv'
    BY DEF Reply, env, PassedInv, UnderWay, Holds, Over
  <1>3. AdmittedLawfully'
    BY DEF Reply, AdmittedLawfully
  <1> QED
    BY <1>1, <1>2, <1>3

LEMMA PassStep ==
    ASSUME IInv, NEW c \in Client, pc[c] # "idle",
           NEW s \in {"session", "authorize", "handler"}, Pass(c, s),
           s = "session" => req[c].token \in tokens /\ "fresh" \in since[c],
           s \in {"authorize", "handler"} =>
             \/ req[c].token = NoToken
             \/ req[c].token \in tokens /\ {"live", "fresh"} \subseteq since[c],
           s = "handler" =>
             /\ req[c].access # "public" => req[c].token # NoToken
             /\ req[c].access = "permission" => "allowed" \in since[c]
             /\ req[c].access # "unspecified"
    PROVE  IInv'
  <1> USE DEF IInv, TypeOK
  <1>1. TypeOK' /\ RotationInv'
    BY DEF Pass, env, RotationInv
  <1>2. PassedInv'
    BY DEF Pass, env, PassedInv, UnderWay, Holds, Over
  <1>3. AdmittedLawfully'
    BY DEF Pass, AdmittedLawfully
  <1> QED
    BY <1>1, <1>2, <1>3

Step(c) == Begin(c) \/ Verify(c) \/ SessionActive(c) \/ Authorize(c) \/ Handle(c)

LEMMA ClientStep == ASSUME IInv, NEW c \in Client, Step(c) PROVE IInv'
  <1>1. CASE Begin(c)
    BY <1>1, BeginStep
  <1>2. CASE \E a \in {"unauthenticated", "expired", "failed", "forbidden", "handled"} :
                Reply(c, a)
    BY <1>2, ReplyStep
  <1>3. CASE Verify(c)
    <2>1. selectKey(req[c].token, req[c].replica) => req[c].token # Malformed
      BY DEF selectKey
    <2>2. CASE Pass(c, "session") /\ selectKey(req[c].token, req[c].replica)
               /\ ~Over(req[c].token)
      <3>1. pc[c] = "verify" /\ UnderWay(c) /\ req[c].token # NoToken
        BY <1>3 DEF Verify, IInv, PassedInv
      <3>2. req[c].token \in tokens /\ "fresh" \in since[c]
        BY <2>1, <2>2, <3>1 DEF UnderWay
      <3> QED
        BY <2>2, <3>1, <3>2, PassStep
    <2> QED
      BY <1>2, <1>3, <2>2 DEF Verify
  <1>4. CASE SessionActive(c)
    <2>1. CASE req[c].token.sid \in live /\ Pass(c, "authorize")
      <3>1. pc[c] = "session" /\ UnderWay(c) /\ req[c].token \in tokens /\ "fresh" \in since[c]
        BY <1>4 DEF SessionActive, IInv, PassedInv
      <3>2. "live" \in since[c]
        BY <2>1, <3>1 DEF UnderWay
      <3> QED
        BY <2>1, <3>1, <3>2, PassStep
    <2> QED
      BY <1>2, <1>4, <2>1 DEF SessionActive
  <1>5. CASE Authorize(c)
    <2>1. /\ pc[c] = "authorize" /\ UnderWay(c)
          /\ \/ req[c].token = NoToken
             \/ req[c].token \in tokens /\ {"live", "fresh"} \subseteq since[c]
      BY <1>5 DEF Authorize, IInv, PassedInv
    <2>2. CASE /\ Pass(c, "handler")
               /\ req[c].access # "public" => req[c].token # NoToken
               /\ req[c].access = "permission" => Holds(c, allowed[req[c].replica])
               /\ req[c].access # "unspecified"
      <3>1. req[c].access = "permission" => "allowed" \in since[c]
        BY <2>1, <2>2 DEF UnderWay
      <3> QED
        BY <2>1, <2>2, <3>1, PassStep
    <2>3. CASE ~ \E a \in {"unauthenticated", "forbidden"} : Reply(c, a)
      BY <1>5, <2>2, <2>3 DEF Authorize, Authenticated
    <2> QED
      BY <1>2, <2>3
  <1>6. CASE Handle(c)
    BY <1>2, <1>6 DEF Handle
  <1> QED
    BY <1>1, <1>3, <1>4, <1>5, <1>6 DEF Step

(* IInv holds in every state of the pipeline.                              *)
THEOREM Invariance == Spec => []IInv
  <1>1. IInv /\ [Next]_vars => IInv'
    <2> SUFFICES ASSUME IInv, [Next]_vars PROVE IInv'
      OBVIOUS
    <2>1. CASE \/ Tick
               \/ \E r \in Replica, s \in Session, roles \in SUBSET Role :
                    Issue(r, s, roles)
               \/ \E s \in Session : End(s)
               \/ Rotate
      BY <2>1, EnvStep
    <2>2. CASE \E r \in Replica, roles \in SUBSET Role : ReloadPolicy(r, roles)
      BY <2>2, ReloadStep
    <2>3. CASE \E r \in Replica : Deploy(r)
      BY <2>3, DeployStep
    <2>4. CASE \E c \in Client : Step(c)
      BY <2>4, ClientStep
    <2>5. CASE UNCHANGED vars
      BY <2>5 DEF IInv, TypeOK, RotationInv, PassedInv, UnderWay, Holds, Over,
                  AdmittedLawfully, vars, env, request
    <2> QED
      BY <2>1, <2>2, <2>3, <2>4, <2>5 DEF Next, Step
  <1> QED
    BY <1>1, InitInv, PTL DEF Spec

-----------------------------------------------------------------------------

(* Nobody reaches a handler without what the method's policy asks for,     *)
(* whatever is revoked, reloaded or restarted meanwhile (authn.go:123,     *)
(* authz.go:116).                                                          *)
THEOREM AdmittedTheorem == Spec => []AdmittedLawfully
  <1>1. IInv => AdmittedLawfully
    BY DEF IInv
  <1> QED
    BY <1>1, Invariance, PTL

(* A replica knows the key of every token that is not over, at each stage  *)
(* of a rotation (token.go:33).                                            *)
LEMMA KeyKnown ==
    ASSUME IInv, NEW t \in tokens, NEW r \in Replica, clock < t.exp
    PROVE  selectKey(t, r)
  <1>1. /\ t \in Token /\ t.kid \in {"old", "new"} /\ t.exp \in Nat
        /\ stage \in 0 .. 3 /\ config[r] \in 0 .. 3 /\ clock \in Nat
    BY DEF IInv, TypeOK, Token, Stage
  <1>2. config[r] = stage \/ config[r] + 1 = stage
    BY DEF IInv, RotationInv
  <1>3. t.kid = "old" => config[r] <= 2
    BY <1>1, <1>2 DEF IInv, RotationInv
  <1>4. t.kid = "new" => config[r] >= 1
    BY <1>1, <1>2 DEF IInv, RotationInv
  <1> QED
    BY <1>1, <1>3, <1>4, PipelineAssumption DEF selectKey, PublicKeySet, Keys

(* A token that is not over is never refused, at whichever replica and     *)
(* whichever stage of a rotation it is presented.                          *)
THEOREM TokensVerifyTheorem == Spec => TokensVerify
  <1>1. IInv /\ [Next]_vars =>
          \A c \in Client :
             pc[c] = "verify" /\ req[c].token \in tokens /\ clock < req[c].token.exp
               => answer'[c] \notin {"unauthenticated", "expired"}
    <2> SUFFICES ASSUME IInv, [Next]_vars, NEW c \in Client, pc[c] = "verify",
                        req[c].token \in tokens, clock < req[c].token.exp
                 PROVE  answer'[c] \notin {"unauthenticated", "expired"}
      OBVIOUS
    <2>1. answer[c] = "none" /\ req[c].replica \in Replica
      BY DEF IInv, PassedInv, UnderWay
    <2>2. selectKey(req[c].token, req[c].replica)
      BY <2>1, KeyKnown
    <2>3. ~Over(req[c].token)
      BY PipelineAssumption DEF Over, IInv, TypeOK, Token
    <2>4. CASE Verify(c)
      BY <2>1, <2>2, <2>3, <2>4 DEF Verify, Pass
    <2>5. CASE answer' = answer
      BY <2>1, <2>5
    <2>6. ASSUME NEW d \in Client, Step(d), d # c PROVE answer'[c] = answer[c]
      BY <2>6 DEF Step, Begin, Verify, SessionActive, Authorize, Handle, Reply, Pass,
                  IInv, TypeOK
    <2>7. ~Begin(c) /\ ~SessionActive(c) /\ ~Authorize(c) /\ ~Handle(c)
      BY DEF Begin, SessionActive, Authorize, Handle
    <2>8. answer' = answer \/ \E d \in Client : Step(d)
      BY DEF Next, Step, Tick, Issue, End, ReloadPolicy, Rotate, Deploy, vars, request
    <2> QED
      BY <2>1, <2>4, <2>5, <2>6, <2>7, <2>8 DEF Step
  <1> QED
    BY <1>1, Invariance, PTL DEF Spec, TokensVerify

=============================================================================
