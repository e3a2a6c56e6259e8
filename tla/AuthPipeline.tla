---------------------------- MODULE AuthPipeline ----------------------------
(***************************************************************************)
(* The way of a request through the middleware of a replica: authn.Server  *)
(* (Verify, sessionActive), then authz.Server (PolicyFor, the enforcer),   *)
(* then the handler.  Meanwhile sessions end, the enforcer is reloaded,    *)
(* time passes, and the operator rotates the signing key, replica after    *)
(* replica, as docs/social-login.md:25 tells him to.                       *)
(*                                                                         *)
(* A client c has one request at a time; pc[c] is the check it is before.  *)
(* One permission stands for all of them: allowed[r] are the roles that    *)
(* have it in the policy replica r has loaded.                             *)
(***************************************************************************)
EXTENDS Naturals, FiniteSets

CONSTANTS
    Replica,
    Client,
    Session,
    Role,
    NoToken,        \* a request without a bearer token
    Malformed,      \* a token that ParseSigned or the signature refuses
    TTL,            \* access_token_ttl
    Leeway,         \* of go-jose's Validate, one minute
    MaxTokens,      \* bound: tokens that are issued
    MaxTime         \* bound: how far the clock runs

(* The claims of an access token that the checks below look at.            *)
Token == [kid : {"old", "new"}, sid : Session, roles : SUBSET Role, exp : Nat]

ASSUME PipelineAssumption ==
    /\ TTL \in Nat \ {0} /\ Leeway \in Nat /\ MaxTokens \in Nat /\ MaxTime \in Nat
    /\ NoToken \notin Token /\ Malformed \notin Token /\ NoToken # Malformed

(* The key directory at each stage of a rotation, and the active key.      *)
Stage == 0 .. 3
Keys(s) == {k \in {"old", "new"} : (k = "old" => s <= 2) /\ (k = "new" => s >= 1)}
Active(s) == IF s <= 1 THEN "old" ELSE "new"

(* The access level PolicyFor finds for the method; a method that is not   *)
(* known, or declares none, has no policy.                                 *)
Access == {"unspecified", "public", "authenticated", "permission"}

VARIABLES
    clock,
    stage,          \* how far the operator is with the rotation
    config,         \* the stage each replica was started with
    tokens,         \* the access tokens issued
    live,           \* sessions that are active, of enabled accounts
    allowed,        \* for each replica, who may call the method
    pc,             \* the check each request is before
    req,            \* the request
    answer,         \* the client's latest answer
    since           \* history: what has held since the request began

env == <<clock, stage, config, tokens, live, allowed>>
request == <<pc, req, answer>>
vars == <<env, request, since>>

NoRequest == [token |-> NoToken]

Init ==
    /\ clock = 0
    /\ stage = 0 /\ config = [r \in Replica |-> 0]
    /\ tokens = {}
    /\ live = Session
    /\ allowed \in [Replica -> SUBSET Role]
    /\ pc = [c \in Client |-> "idle"]
    /\ req = [c \in Client |-> NoRequest]
    /\ answer = [c \in Client |-> "none"]
    /\ since = [c \in Client |-> {}]

-----------------------------------------------------------------------------
(* What goes on around the requests.                                       *)

Tick ==
    /\ clock < MaxTime
    /\ clock' = clock + 1
    /\ UNCHANGED <<stage, config, tokens, live, allowed, request, since>>

(* A login or a refresh at replica r; roles are those of the account.      *)
Issue(r, s, roles) ==
    /\ s \in live /\ Cardinality(tokens) < MaxTokens
    /\ tokens' = tokens \cup
          {[kid |-> Active(config[r]), sid |-> s, roles |-> roles, exp |-> clock + TTL]}
    /\ UNCHANGED <<clock, stage, config, live, allowed, request, since>>

(* A session is revoked or expires, or its account is disabled.            *)
End(s) ==
    /\ s \in live
    /\ live' = live \ {s}
    /\ UNCHANGED <<clock, stage, config, tokens, allowed, request, since>>

At(c, r) == pc[c] # "idle" /\ req[c].replica = r
Holds(c, roles) ==
    req[c].token \in tokens /\ req[c].token.roles \cap roles # {}

ReloadPolicy(r, roles) ==
    /\ allowed' = [allowed EXCEPT ![r] = roles]
    /\ since' = [c \in Client |->
          since[c] \cup IF At(c, r) /\ Holds(c, roles) THEN {"allowed"} ELSE {}]
    /\ UNCHANGED <<clock, stage, config, tokens, live, request>>

(* The operator goes on to the next stage when every replica has the       *)
(* present one, and takes the old key away only when its tokens are over.  *)
Rotate ==
    /\ stage < 3 /\ \A r \in Replica : config[r] = stage
    /\ stage = 2 => \A t \in tokens : t.kid = "old" => t.exp <= clock
    /\ stage' = stage + 1
    /\ UNCHANGED <<clock, config, tokens, live, allowed, request, since>>

(* A replica is started with the present stage; its requests are lost.     *)
Deploy(r) ==
    /\ config[r] # stage
    /\ config' = [config EXCEPT ![r] = stage]
    /\ pc' = [c \in Client |-> IF At(c, r) THEN "idle" ELSE pc[c]]
    /\ req' = [c \in Client |-> IF At(c, r) THEN NoRequest ELSE req[c]]
    /\ since' = [c \in Client |-> IF At(c, r) THEN {} ELSE since[c]]
    /\ UNCHANGED <<clock, stage, tokens, live, allowed, answer>>

-----------------------------------------------------------------------------
(* A request.                                                              *)

Over(t) == clock > t.exp + Leeway

(* What holds of token t at replica r as the request begins.               *)
Facts(t, r) ==
    {f \in {"live", "fresh", "allowed"} :
        /\ t \in tokens
        /\ f = "live" => t.sid \in live
        /\ f = "fresh" => ~Over(t)
        /\ f = "allowed" => t.roles \cap allowed[r] # {}}

Begin(c) ==
    /\ pc[c] = "idle"
    /\ \E r \in Replica, t \in tokens \cup {NoToken, Malformed}, a \in Access :
          /\ req' = [req EXCEPT ![c] = [replica |-> r, token |-> t, access |-> a]]
          /\ since' = [since EXCEPT ![c] = Facts(t, r)]
          /\ pc' = [pc EXCEPT ![c] = IF t = NoToken THEN "authorize" ELSE "verify"]
    /\ answer' = [answer EXCEPT ![c] = "none"]
    /\ UNCHANGED env

Reply(c, a) ==
    /\ pc' = [pc EXCEPT ![c] = "idle"]
    /\ req' = [req EXCEPT ![c] = NoRequest]
    /\ answer' = [answer EXCEPT ![c] = a]
    /\ since' = [since EXCEPT ![c] = {}]
    /\ UNCHANGED env

Pass(c, s) ==
    /\ pc' = [pc EXCEPT ![c] = s]
    /\ UNCHANGED <<env, req, answer, since>>

(* Mutant: only the active key is published.                               *)
PublicKeySetActive(r) == {Active(config[r])}

(* The verifier of a replica has the keys of its issuer.                   *)
PublicKeySet(r) == Keys(config[r])

(* There is a key for the token, and its signature fits.                   *)
selectKey(t, r) == t # Malformed /\ t.kid \in PublicKeySet(r)

Verify(c) ==
    /\ pc[c] = "verify"
    /\ LET t == req[c].token
           known == selectKey(t, req[c].replica)
       IN  \/ ~known /\ Reply(c, "unauthenticated")
           \/ known /\ Over(t) /\ Reply(c, "expired")
           \/ known /\ ~Over(t) /\ Pass(c, "session")

(* Mutant: a request is let through when its session cannot be looked up.  *)
SessionActiveOpen(c) ==
    /\ pc[c] = "session"
    /\ \/ Pass(c, "authorize")
       \/ req[c].token.sid \notin live /\ Reply(c, "unauthenticated")

(* sessionActive; the lookup may fail.                                     *)
SessionActive(c) ==
    /\ pc[c] = "session"
    /\ \/ req[c].token.sid \in live /\ Pass(c, "authorize")
       \/ req[c].token.sid \notin live /\ Reply(c, "unauthenticated")
       \/ Reply(c, "failed")

(* The principal is in the context.                                        *)
Authenticated(c) == req[c].token # NoToken

(* authz.Server.  The enforcer may return an error.                        *)
Authorize(c) ==
    /\ pc[c] = "authorize"
    /\ LET access == req[c].access
       IN  \/ access = "unspecified" /\ Reply(c, "forbidden")
           \/ access = "public" /\ Pass(c, "handler")
           \/ /\ access \in {"authenticated", "permission"} /\ ~Authenticated(c)
              /\ Reply(c, "unauthenticated")
           \/ access = "authenticated" /\ Authenticated(c) /\ Pass(c, "handler")
           \/ /\ access = "permission" /\ Authenticated(c)
              /\ \/ Holds(c, allowed[req[c].replica]) /\ Pass(c, "handler")
                 \/ Reply(c, "forbidden")

Handle(c) == pc[c] = "handler" /\ Reply(c, "handled")

Next ==
    \/ Tick
    \/ \E r \in Replica, s \in Session, roles \in SUBSET Role : Issue(r, s, roles)
    \/ \E s \in Session : End(s)
    \/ \E r \in Replica, roles \in SUBSET Role : ReloadPolicy(r, roles)
    \/ Rotate
    \/ \E r \in Replica : Deploy(r)
    \/ \E c \in Client :
          Begin(c) \/ Verify(c) \/ SessionActive(c) \/ Authorize(c) \/ Handle(c)

Spec == Init /\ [][Next]_vars

-----------------------------------------------------------------------------
(* Properties.                                                             *)

(* A handler runs for the bearer of a token only if, when its request      *)
(* began, the token was not over and its session not ended; and behind a   *)
(* permission, only if its replica has allowed one of its roles since.     *)
(* Lookups that fail, methods without a policy and requests that are       *)
(* overtaken by a revocation or a reload let nobody in (authn.go:123,      *)
(* authz.go:116).                                                          *)
AdmittedLawfully ==
    \A c \in Client : pc[c] = "handler" =>
        /\ req[c].token # NoToken => {"live", "fresh"} \subseteq since[c]
        /\ req[c].access # "public" => req[c].token # NoToken
        /\ req[c].access = "permission" => "allowed" \in since[c]
        /\ req[c].access # "unspecified"

(* All through a rotation, whichever replica signed it and whichever is    *)
(* asked, a token that is not over is accepted (token.go:33).              *)
TokensVerify ==
    [][\A c \in Client :
          pc[c] = "verify" /\ req[c].token \in tokens /\ clock < req[c].token.exp
             => answer'[c] \notin {"unauthenticated", "expired"}]_vars

=============================================================================
