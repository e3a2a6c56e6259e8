----------------------------- MODULE Readiness ------------------------------
(***************************************************************************)
(* policyReadiness.check of one replica: probes of /readyz that run at     *)
(* once, each with the clock it read before it waited for the mutex, while *)
(* other replicas commit versions and the reconciler reloads.              *)
(*                                                                         *)
(* pc[p] is where probe p is; probe p first waits for h.mu, then reads the *)
(* version from the database, then compares it with the enforcer's.        *)
(***************************************************************************)
EXTENDS Naturals

CONSTANTS
    Probe,          \* requests to /readyz under way at once
    NoProbe,        \* the value of the free mutex
    Grace,          \* policyLagGrace
    Timeout,        \* the time a request to /readyz has
    Never,          \* the zero time
    MaxVersion,     \* bound: versions that are committed
    MaxTime         \* bound: how far the clock runs

ASSUME ProbeAssumption == NoProbe \notin Probe

ASSUME TimeAssumption ==
    /\ Grace \in Nat \ {0} /\ Timeout \in Nat /\ MaxVersion \in Nat /\ MaxTime \in Nat
    /\ Never \notin Nat

VARIABLES
    version,        \* authz_policy_state.version
    loaded,         \* Enforcer.loadedVersion
    clock,
    mutex,          \* policyReadiness.mu
    lagSince,       \* policyReadiness.lagSince
    pc,             \* where each probe is
    now,            \* the time each probe was given
    polled,         \* the version it has read, and when
    answer,         \* its latest answer
    seen,           \* history: when the version was read that set lagSince
    behind          \* history: when a probe first answered that the replica
                    \* lags, since the last reload

replica == <<version, loaded>>
health == <<mutex, lagSince, seen, behind>>
probe == <<pc, now, polled, answer>>
vars == <<replica, clock, health, probe>>

Nothing == [version |-> 0, at |-> 0]

Init ==
    /\ version = 1 /\ loaded = 1
    /\ clock = 0
    /\ mutex = NoProbe
    /\ lagSince = Never
    /\ pc = [p \in Probe |-> "idle"]
    /\ now = [p \in Probe |-> 0]
    /\ polled = [p \in Probe |-> Nothing]
    /\ answer = [p \in Probe |-> "none"]
    /\ seen = Never /\ behind = Never

-----------------------------------------------------------------------------
(* What goes on around the probes.                                         *)

Commit ==
    /\ version < MaxVersion
    /\ version' = version + 1
    /\ UNCHANGED <<loaded, clock, health, probe>>

(* A reload publishes a version the database has held meanwhile.           *)
ReloadPolicy ==
    /\ loaded' \in loaded + 1 .. version
    /\ behind' = Never
    /\ UNCHANGED <<version, clock, mutex, lagSince, seen, probe>>

Tick ==
    /\ clock < MaxTime
    /\ clock' = clock + 1
    /\ UNCHANGED <<replica, health, probe>>

-----------------------------------------------------------------------------
(* A probe.                                                                *)

Begin(p) ==
    /\ pc[p] = "idle"
    /\ pc' = [pc EXCEPT ![p] = "lock"]
    /\ now' = [now EXCEPT ![p] = clock]
    /\ answer' = [answer EXCEPT ![p] = "none"]
    /\ UNCHANGED <<replica, clock, health, polled>>

(* Mutant: probes do not exclude one another.                              *)
LockFree(p) ==
    /\ pc[p] = "lock"
    /\ pc' = [pc EXCEPT ![p] = "poll"]
    /\ UNCHANGED <<replica, clock, health, now, polled, answer>>

Lock(p) ==
    /\ pc[p] = "lock" /\ mutex = NoProbe
    /\ mutex' = p
    /\ pc' = [pc EXCEPT ![p] = "poll"]
    /\ UNCHANGED <<replica, clock, lagSince, seen, behind, now, polled, answer>>

(* Mutant: the context of the request is not passed on.                    *)
InTimeAlways(p) == TRUE

InTime(p) == clock < now[p] + Timeout

PolicyVersion(p) ==
    /\ pc[p] = "poll" /\ InTime(p)
    /\ polled' = [polled EXCEPT ![p] = [version |-> version, at |-> clock]]
    /\ pc' = [pc EXCEPT ![p] = "compare"]
    /\ UNCHANGED <<replica, clock, health, now, answer>>

Answer(p, a) ==
    /\ answer' = [answer EXCEPT ![p] = a]
    /\ pc' = [pc EXCEPT ![p] = "idle"]
    /\ mutex' = IF mutex = p THEN NoProbe ELSE mutex
    /\ polled' = [polled EXCEPT ![p] = Nothing]
    /\ UNCHANGED <<replica, clock, now>>

(* The database is out of reach, or the request has run out of time.       *)
PolicyVersionFails(p) ==
    /\ pc[p] = "poll"
    /\ Answer(p, "error")
    /\ UNCHANGED <<lagSince, seen, behind>>

Current(p) ==
    /\ pc[p] = "compare" /\ loaded >= polled[p].version
    /\ lagSince' = Never /\ seen' = Never
    /\ Answer(p, "ready")
    /\ UNCHANGED behind

FirstSeen(p) == IF lagSince = Never THEN now[p] ELSE lagSince

Lasting(p) == now[p] >= lagSince' + Grace

Lags(p) ==
    /\ pc[p] = "compare" /\ loaded < polled[p].version
    /\ lagSince' = FirstSeen(p)
    /\ seen' = IF lagSince = Never THEN polled[p].at ELSE seen
    /\ behind' = IF behind = Never THEN clock ELSE behind
    /\ Answer(p, IF Lasting(p) THEN "stale" ELSE "ready")

Next ==
    \/ Commit \/ ReloadPolicy \/ Tick
    \/ \E p \in Probe :
          \/ Begin(p) \/ Lock(p) \/ PolicyVersion(p) \/ PolicyVersionFails(p)
          \/ Current(p) \/ Lags(p)

Spec == Init /\ [][Next]_vars

-----------------------------------------------------------------------------
(* Properties.                                                             *)

(* A replica on which a lag was seen, and which has loaded nothing since,  *)
(* is not called ready by a probe that starts after the grace: no probe    *)
(* with an older version in hand makes the others forget (lifecycle.go:40).*)
LastingLagReported ==
    [][\A p \in Probe :
          answer'[p] = "ready" /\ answer[p] # "ready" /\ behind # Never
             => now[p] < behind + Grace]_vars

(* A replica is called stale only if a lag was seen, and not forgotten,    *)
(* the whole grace ago (architecture.md:136) but for the time one request  *)
(* may have waited before it looked.                                       *)
GraceHonoured ==
    [][\A p \in Probe :
          answer'[p] = "stale" /\ answer[p] # "stale"
             => clock + Timeout >= seen + Grace]_vars

=============================================================================
