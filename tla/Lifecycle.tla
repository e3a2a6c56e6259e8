----------------------------- MODULE Lifecycle ------------------------------
(***************************************************************************)
(* One process from run to exit: what composeApp builds and in which order *)
(* it is taken down, the goroutine of the reconciler, the registry of      *)
(* health checks, and the probes of /readyz that the metrics server        *)
(* answers from before the first component is built until after the last   *)
(* one is closed.                                                          *)
(*                                                                         *)
(* stage is the statement of run, composeApp or Cleanup the main goroutine *)
(* is at.  The parts of composeApp that may fail and keep no state of      *)
(* their own are one step.                                                 *)
(***************************************************************************)
EXTENDS Naturals, FiniteSets

CONSTANTS
    Probe           \* requests to /readyz under way at once

(* The names composeApp registers checks under, in the order of Ready.     *)
Name == {"authz-policy", "database"}

VARIABLES
    stage,          \* the main goroutine
    listening,      \* the metrics server accepts connections
    pool,           \* the database pool: none, open or closed
    checks,         \* Registry.checks
    initialized,    \* Registry.initialized
    reconciler,     \* the goroutine of NewPolicyReconciler
    cancelled,      \* its context
    pc,             \* where each probe is
    todo,           \* the checks it has copied and not run yet
    ran,            \* the checks it has run
    failed          \* one of them returned an error

main == <<stage, listening, pool, checks, initialized, cancelled>>
probe == <<pc, todo, ran, failed>>
vars == <<main, reconciler, probe>>

Init ==
    /\ stage = "telemetry"
    /\ listening = FALSE
    /\ pool = "none"
    /\ checks = {}
    /\ initialized = FALSE
    /\ reconciler = "none" /\ cancelled = FALSE
    /\ pc = [p \in Probe |-> "idle"]
    /\ todo = [p \in Probe |-> {}]
    /\ ran = [p \in Probe |-> {}]
    /\ failed = [p \in Probe |-> FALSE]

-----------------------------------------------------------------------------
(* The main goroutine: run and composeApp.                                 *)

At(s, t) == stage = s /\ stage' = t

SetupObservability ==
    /\ At("telemetry", "open")
    /\ listening' = TRUE
    /\ UNCHANGED <<pool, checks, initialized, reconciler, cancelled, probe>>

(* Mutant: the process counts as initialized once it has its database.     *)
OpenPoolInitializes ==
    /\ At("open", "build")
    /\ pool' = "open" /\ checks' = checks \cup {"database"}
    /\ initialized' = TRUE
    /\ UNCHANGED <<listening, reconciler, cancelled, probe>>

OpenPool ==
    /\ At("open", "build")
    /\ pool' = "open" /\ checks' = checks \cup {"database"}
    /\ UNCHANGED <<listening, initialized, reconciler, cancelled, probe>>

(* The enforcer, the issuer, the verifier, the middleware, the services.   *)
Build ==
    /\ At("build", "health")
    /\ UNCHANGED <<listening, pool, checks, initialized, reconciler, cancelled, probe>>

RegisterPolicyHealth ==
    /\ At("health", "reconcile")
    /\ checks' = checks \cup {"authz-policy"}
    /\ UNCHANGED <<listening, pool, initialized, reconciler, cancelled, probe>>

NewPolicyReconciler ==
    /\ At("reconcile", "mark")
    /\ reconciler' = "poll"
    /\ UNCHANGED <<listening, pool, checks, initialized, cancelled, probe>>

MarkInitialized ==
    /\ At("mark", "serve")
    /\ initialized' = TRUE
    /\ UNCHANGED <<listening, pool, checks, reconciler, cancelled, probe>>

(* A failure goes back through the deferred calls registered so far.       *)
BuildFails ==
    /\ \/ At("telemetry", "exited")
       \/ At("open", "telemetry down")
       \/ At("build", "forget database")
    /\ UNCHANGED <<listening, pool, checks, initialized, reconciler, cancelled, probe>>

-----------------------------------------------------------------------------
(* The main goroutine: Cleanup, when app.Run returns, for whatever reason. *)

(* Mutant: the goroutine is waited for before its context is cancelled.    *)
CancelReconcilerLater ==
    /\ At("serve", "wait")
    /\ UNCHANGED <<listening, pool, checks, initialized, reconciler, cancelled, probe>>

CancelReconciler ==
    /\ At("serve", "wait")
    /\ cancelled' = TRUE
    /\ UNCHANGED <<listening, pool, checks, initialized, reconciler, probe>>

(* Mutant: the context is cancelled and the goroutine not waited for.      *)
AwaitReconcilerNot ==
    /\ At("wait", "forget policy")
    /\ UNCHANGED <<listening, pool, checks, initialized, reconciler, cancelled, probe>>

AwaitReconciler ==
    /\ At("wait", "forget policy") /\ reconciler = "done"
    /\ UNCHANGED <<listening, pool, checks, initialized, reconciler, cancelled, probe>>

UnregisterHealth ==
    /\ \/ At("forget policy", "forget database") /\ checks' = checks \ {"authz-policy"}
       \/ At("forget database", "close") /\ checks' = checks \ {"database"}
    /\ UNCHANGED <<listening, pool, initialized, reconciler, cancelled, probe>>

ClosePool ==
    /\ At("close", "telemetry down")
    /\ pool' = "closed"
    /\ UNCHANGED <<listening, checks, initialized, reconciler, cancelled, probe>>

(* Shutdown closes the listener and waits for the probes, or for 5 s.      *)
ShutdownOtel ==
    /\ \/ At("telemetry down", "drain") /\ listening' = FALSE
       \/ At("drain", "exited") /\ UNCHANGED listening
    /\ UNCHANGED <<pool, checks, initialized, reconciler, cancelled, probe>>

-----------------------------------------------------------------------------
(* runPolicyReconciler.  A query or a load ends, well or not; when both    *)
(* the context and the ticker are ready, select takes either.              *)

ReconcileStep(s, t) == reconciler = s /\ reconciler' = t /\ UNCHANGED <<main, probe>>

Return == cancelled /\ ReconcileStep("tick", "done")

Reconcile ==
    \/ ReconcileStep("poll", "tick") \/ ReconcileStep("poll", "load")
    \/ ReconcileStep("load", "tick")
    \/ ReconcileStep("tick", "poll")
    \/ Return

-----------------------------------------------------------------------------
(* Registry.Ready, for a request to /readyz.                               *)

BeginProbe(p) ==
    /\ pc[p] = "idle" /\ listening
    /\ pc' = [pc EXCEPT ![p] = IF initialized THEN "copy" ELSE "503"]
    /\ ran' = [ran EXCEPT ![p] = {}]
    /\ failed' = [failed EXCEPT ![p] = FALSE]
    /\ UNCHANGED <<main, reconciler, todo>>

CopyChecks(p) ==
    /\ pc[p] = "copy"
    /\ todo' = [todo EXCEPT ![p] = checks]
    /\ pc' = [pc EXCEPT ![p] = "run"]
    /\ UNCHANGED <<main, reconciler, ran, failed>>

(* Each check queries the database: it may always fail, and it does when   *)
(* the pool has been closed since the checks were copied.                  *)
RunCheck(p) ==
    /\ pc[p] = "run"
    /\ \E n \in todo[p] :
          /\ n = "database" => "authz-policy" \notin todo[p]
          /\ todo' = [todo EXCEPT ![p] = @ \ {n}]
          /\ ran' = [ran EXCEPT ![p] = @ \cup {n}]
    /\ \/ failed' = [failed EXCEPT ![p] = TRUE]
       \/ pool = "open" /\ UNCHANGED failed
    /\ UNCHANGED <<main, reconciler, pc>>

AnswerProbe(p) ==
    /\ pc[p] = "run" /\ todo[p] = {}
    /\ pc' = [pc EXCEPT ![p] = IF failed[p] THEN "503" ELSE "200"]
    /\ UNCHANGED <<main, reconciler, todo, ran, failed>>

(* The client has the answer.                                              *)
EndProbe(p) ==
    /\ pc[p] \in {"200", "503"}
    /\ pc' = [pc EXCEPT ![p] = "idle"]
    /\ UNCHANGED <<main, reconciler, todo, ran, failed>>

-----------------------------------------------------------------------------

Exited == stage = "exited" /\ UNCHANGED vars

Next ==
    \/ SetupObservability \/ OpenPool \/ Build \/ RegisterPolicyHealth
    \/ NewPolicyReconciler \/ MarkInitialized \/ BuildFails
    \/ CancelReconciler \/ AwaitReconciler \/ UnregisterHealth \/ ClosePool
    \/ ShutdownOtel
    \/ Reconcile
    \/ \E p \in Probe :
          \/ BeginProbe(p) \/ CopyChecks(p) \/ RunCheck(p) \/ AnswerProbe(p) \/ EndProbe(p)
    \/ Exited

Spec == Init /\ [][Next]_vars

(* A query or a load has 5 s, and Shutdown too, and nothing else holds up  *)
(* the goroutines.  A select between a context that is done and a ticker   *)
(* chooses at random: it does not take the ticker every time.              *)
Cleanup == AwaitReconciler \/ UnregisterHealth \/ ClosePool \/ ShutdownOtel

FairSpec == Spec /\ WF_vars(Cleanup) /\ WF_vars(Reconcile) /\ SF_vars(Return)

-----------------------------------------------------------------------------
(* Properties.                                                             *)

(* The reconciler never works on a closed pool, and when run returns, from *)
(* a failed start or after serving, nothing it built is left: no goroutine,*)
(* no check, no connection, no listener (NewPolicyReconciler, Cleanup).    *)
Orderly ==
    /\ reconciler \in {"poll", "load"} => pool = "open"
    /\ stage = "exited" =>
         /\ reconciler \in {"none", "done"} /\ checks = {}
         /\ pool # "open" /\ ~listening

(* Until the process takes itself down, only a probe that has run both     *)
(* checks is told that it is ready (otelx.go:246): no probe slips in while *)
(* the components are still being built.                                   *)
ReadyChecked ==
    \A p \in Probe :
        pc[p] = "200" /\ ran[p] # Name => cancelled /\ "authz-policy" \notin checks

(* A cleanup that has begun comes to its end: wherever the goroutine of    *)
(* the reconciler was, it returns and Cleanup is done waiting for it       *)
(* (lifecycle.go:75); a failed start gets out as well.                     *)
CleanupEnds == stage \in {"wait", "forget database"} ~> stage = "exited"

=============================================================================
