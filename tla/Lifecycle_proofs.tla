-------------------------- MODULE Lifecycle_proofs --------------------------
(***************************************************************************)
(* Proofs about Lifecycle, for any set of probes.                          *)
(*                                                                         *)
(* StageInv says what the process has built and not yet taken down at each *)
(* statement of the main goroutine; ProbeInv what a probe under way can    *)
(* rely on.  Orderly follows from the first, ReadyChecked from both.       *)
(***************************************************************************)
EXTENDS Lifecycle, TLAPS

Up == {"build", "health", "reconcile", "mark", "serve", "wait", "forget policy",
       "forget database", "close"}
Down == {"forget database", "close", "telemetry down", "drain", "exited"}

TypeOK ==
    /\ stage \in {"telemetry", "open"} \cup Up \cup Down
    /\ listening \in BOOLEAN /\ initialized \in BOOLEAN /\ cancelled \in BOOLEAN
    /\ pool \in {"none", "open", "closed"}
    /\ checks \subseteq Name
    /\ reconciler \in {"none", "poll", "load", "tick", "done"}
    /\ pc \in [Probe -> {"idle", "copy", "run", "200", "503"}]
    /\ todo \in [Probe -> SUBSET Name] /\ ran \in [Probe -> SUBSET Name]
    /\ failed \in [Probe -> BOOLEAN]

StageInv ==
    /\ pool = "open" <=> stage \in Up
    /\ stage \in {"telemetry", "open"} => checks = {}
    /\ stage \in {"build", "health", "forget database"} => checks = {"database"}
    /\ stage \in {"reconcile", "mark", "serve", "wait", "forget policy"} => checks = Name
    /\ stage \in {"close", "telemetry down", "drain", "exited"} => checks = {}
    /\ reconciler \in {"none", "done"} \/ stage \in {"mark", "serve", "wait"}
    /\ cancelled => stage \in {"wait", "forget policy"} \cup Down
    /\ initialized =>
         stage = "serve" \/ (cancelled /\ stage \in {"wait", "forget policy"} \cup Down)
    /\ stage \in {"telemetry", "drain", "exited"} => ~listening

(* The process is taking itself down, its check of the policy is gone.     *)
Leaving == cancelled /\ "authz-policy" \notin checks

ProbeInv ==
    \A p \in Probe :
        /\ pc[p] \in {"copy", "run", "200"} => initialized
        /\ pc[p] = "run" => todo[p] \cup ran[p] = Name \/ Leaving
        /\ pc[p] = "200" => ran[p] = Name \/ Leaving

IInv == TypeOK /\ StageInv /\ ProbeInv

-----------------------------------------------------------------------------

LEMMA InitInv == Init => IInv
  BY DEF Init, IInv, TypeOK, StageInv, ProbeInv, Up, Down, Name, Leaving

(* A step of the main goroutine leaves the probes alone, and what a probe  *)
(* relies on stays: nothing is initialized twice, and no check comes back. *)
LEMMA MainKeepsProbes ==
    ASSUME ProbeInv, UNCHANGED probe, initialized => initialized', Leaving => Leaving'
    PROVE  ProbeInv'
  BY DEF ProbeInv, probe

(* The main goroutine, one statement of it after another.                  *)
Main ==
    \/ SetupObservability \/ OpenPool \/ Build \/ RegisterPolicyHealth
    \/ NewPolicyReconciler \/ MarkInitialized \/ BuildFails
    \/ CancelReconciler \/ AwaitReconciler \/ UnregisterHealth \/ ClosePool
    \/ ShutdownOtel

LEMMA MainStep == IInv /\ Main => IInv'
  <1> SUFFICES ASSUME TypeOK, StageInv, ProbeInv, Main PROVE IInv'
    BY DEF IInv
  <1> USE DEF StageInv, TypeOK, Up, Down, Name, At
  <1>1. /\ TypeOK' /\ StageInv' /\ UNCHANGED probe
        /\ initialized => initialized'
        /\ Leaving => Leaving'
    <2>1. CASE SetupObservability
      BY <2>1 DEF SetupObservability, probe, Leaving
    <2>2. CASE OpenPool
      BY <2>2 DEF OpenPool, probe, Leaving
    <2>3. CASE Build
      BY <2>3 DEF Build, probe, Leaving
    <2>4. CASE RegisterPolicyHealth
      BY <2>4 DEF RegisterPolicyHealth, probe, Leaving
    <2>5. CASE NewPolicyReconciler
      BY <2>5 DEF NewPolicyReconciler, probe, Leaving
    <2>6. CASE MarkInitialized
      BY <2>6 DEF MarkInitialized, probe, Leaving
    <2>7. CASE BuildFails
      <3>1. /\ \/ stage = "telemetry" /\ stage' = "exited"
               \/ stage = "open" /\ stage' = "telemetry down"
               \/ stage = "build" /\ stage' = "forget database"
            /\ UNCHANGED <<listening, pool, checks, initialized, reconciler, cancelled, probe>>
        BY <2>7 DEF BuildFails
      <3>2. /\ UNCHANGED probe
            /\ ~initialized /\ ~cancelled
            /\ stage = "telemetry" => ~listening
        BY <3>1
      <3>3. CASE stage = "telemetry"
        BY <3>1, <3>2, <3>3 DEF probe, Leaving
      <3>4. CASE stage = "open"
        BY <3>1, <3>2, <3>4 DEF probe, Leaving
      <3>5. CASE stage = "build"
        BY <3>1, <3>2, <3>5 DEF probe, Leaving
      <3> QED
        BY <3>1, <3>3, <3>4, <3>5
    <2>8. CASE CancelReconciler
      BY <2>8 DEF CancelReconciler, probe, Leaving
    <2>9. CASE AwaitReconciler
      BY <2>9 DEF AwaitReconciler, probe, Leaving
    <2>10. CASE UnregisterHealth
      <3>1. CASE stage = "forget policy"
        BY <2>10, <3>1 DEF UnregisterHealth, probe, Leaving
      <3>2. CASE stage = "forget database"
        BY <2>10, <3>2 DEF UnregisterHealth, probe, Leaving
      <3> QED
        BY <2>10, <3>1, <3>2 DEF UnregisterHealth
    <2>11. CASE ClosePool
      BY <2>11 DEF ClosePool, probe, Leaving
    <2>12. CASE ShutdownOtel
      <3>1. CASE stage = "telemetry down"
        BY <2>12, <3>1 DEF ShutdownOtel, probe, Leaving
      <3>2. CASE stage = "drain"
        BY <2>12, <3>2 DEF ShutdownOtel, probe, Leaving
      <3> QED
        BY <2>12, <3>1, <3>2 DEF ShutdownOtel
    <2> QED
      BY <2>1, <2>2, <2>3, <2>4, <2>5, <2>6, <2>7, <2>8, <2>9, <2>10, <2>11, <2>12
      DEF Main
  <1>2. ProbeInv'
    BY <1>1, MainKeepsProbes
  <1> QED
    BY <1>1, <1>2 DEF IInv

LEMMA ReconcilerStep == IInv /\ Reconcile => IInv'
  <1> SUFFICES ASSUME TypeOK, StageInv, ProbeInv, Reconcile PROVE IInv'
    BY DEF IInv
  <1>1. /\ UNCHANGED <<main, probe>>
        /\ reconciler \in {"poll", "load", "tick"}
        /\ reconciler' \in {"poll", "load", "tick", "done"}
    BY DEF Reconcile, ReconcileStep, Return
  <1>2. TypeOK'
    BY <1>1 DEF TypeOK, main, probe
  <1>3. StageInv'
    BY <1>1 DEF StageInv, main
  <1>4. ProbeInv'
    BY <1>1, MainKeepsProbes DEF main, Leaving
  <1> QED
    BY <1>2, <1>3, <1>4 DEF IInv

LEMMA ChecksWhenInitialized ==
    ASSUME StageInv, initialized PROVE checks = Name \/ Leaving
  <1>1. CASE stage \in {"serve", "wait", "forget policy"}
    BY <1>1 DEF StageInv
  <1>2. CASE cancelled /\ stage \in Down
    <2>1. checks \subseteq {"database"}
      BY <1>2 DEF StageInv, Down
    <2> QED
      BY <1>2, <2>1 DEF Leaving
  <1> QED
    BY <1>1, <1>2 DEF StageInv

LEMMA ProbeStep ==
    ASSUME NEW p \in Probe, IInv,
           BeginProbe(p) \/ CopyChecks(p) \/ RunCheck(p) \/ AnswerProbe(p) \/ EndProbe(p)
    PROVE  IInv'
  <1>1. UNCHANGED <<main, reconciler>>
    BY DEF BeginProbe, CopyChecks, RunCheck, AnswerProbe, EndProbe
  <1>2. StageInv' /\ Leaving' = Leaving
    <2>1. StageInv'
      BY <1>1 DEF IInv, StageInv, main
    <2>2. Leaving' = Leaving
      BY <1>1 DEF main, Leaving
    <2> QED
      BY <2>1, <2>2
  <1> USE DEF IInv, TypeOK
  <1>3. TypeOK' /\ ProbeInv'
    <2>1. CASE BeginProbe(p)
      BY <2>1, <1>2 DEF BeginProbe, ProbeInv, main
    <2>2. CASE CopyChecks(p)
      <3>1. initialized
        BY <2>2 DEF CopyChecks, ProbeInv
      <3>2. checks = Name \/ Leaving
        BY <3>1, ChecksWhenInitialized
      <3> QED
        BY <2>2, <1>2, <3>2 DEF CopyChecks, ProbeInv, main
    <2>3. CASE RunCheck(p)
      <3>1. /\ pc' = pc /\ initialized' = initialized
            /\ \E n \in todo[p] : /\ todo' = [todo EXCEPT ![p] = @ \ {n}]
                                  /\ ran' = [ran EXCEPT ![p] = @ \cup {n}]
        BY <2>3 DEF RunCheck, main
      <3>2. \A q \in Probe : todo'[q] \cup ran'[q] = todo[q] \cup ran[q]
        BY <3>1
      <3>3. \A q \in Probe : pc[q] = "200" => ran'[q] = ran[q]
        BY <3>1, <2>3 DEF RunCheck
      <3>4. ProbeInv'
        BY <1>2, <3>1, <3>2, <3>3 DEF ProbeInv
      <3>5. todo' \in [Probe -> SUBSET Name] /\ ran' \in [Probe -> SUBSET Name]
        BY <3>1
      <3>6. failed' \in [Probe -> BOOLEAN]
        BY <2>3 DEF RunCheck
      <3>7. TypeOK'
        BY <2>3, <3>1, <3>5, <3>6 DEF RunCheck, main
      <3> QED
        BY <3>4, <3>7
    <2>4. CASE AnswerProbe(p)
      BY <2>4, <1>2 DEF AnswerProbe, ProbeInv, main
    <2>5. CASE EndProbe(p)
      BY <2>5, <1>2 DEF EndProbe, ProbeInv, main
    <2> QED
      BY <2>1, <2>2, <2>3, <2>4, <2>5
  <1> QED
    BY <1>2, <1>3

(* IInv holds in every state the process can reach.                        *)
THEOREM Invariance == Spec => []IInv
  <1>1. IInv /\ [Next]_vars => IInv'
    <2> SUFFICES ASSUME IInv, [Next]_vars PROVE IInv'
      OBVIOUS
    <2>1. CASE Main
      BY <2>1, MainStep
    <2>2. CASE Reconcile
      BY <2>2, ReconcilerStep
    <2>3. CASE \E p \in Probe : \/ BeginProbe(p) \/ CopyChecks(p) \/ RunCheck(p)
                                \/ AnswerProbe(p) \/ EndProbe(p)
      BY <2>3, ProbeStep
    <2>4. CASE UNCHANGED vars
      <3>1. TypeOK' /\ StageInv' /\ ProbeInv'
        <4>1. UNCHANGED <<main, reconciler>> /\ UNCHANGED probe
          BY <2>4 DEF vars
        <4>2. TypeOK'
          BY <4>1 DEF IInv, TypeOK, main, probe
        <4>3. StageInv'
          BY <4>1 DEF IInv, StageInv, main
        <4>4. ProbeInv'
          BY <4>1, MainKeepsProbes DEF IInv, Leaving, main
        <4> QED
          BY <4>2, <4>3, <4>4
      <3> QED
        BY <3>1 DEF IInv
    <2> QED
      BY <2>1, <2>2, <2>3, <2>4 DEF Next, Main, Exited
  <1> QED
    BY <1>1, InitInv, PTL DEF Spec

-----------------------------------------------------------------------------

(* The reconciler works on an open pool only, and a process that has       *)
(* exited has left nothing behind (Cleanup).                               *)
THEOREM OrderlyTheorem == Spec => []Orderly
  <1>1. IInv => Orderly
    BY DEF IInv, TypeOK, StageInv, Orderly, Up, Down
  <1> QED
    BY <1>1, Invariance, PTL

(* No probe is told that the process is ready before all its checks exist  *)
(* and have run (Registry.Ready).                                          *)
THEOREM ReadyTheorem == Spec => []ReadyChecked
  <1>1. IInv => ReadyChecked
    BY DEF IInv, ProbeInv, ReadyChecked, Leaving
  <1> QED
    BY <1>1, Invariance, PTL

=============================================================================
