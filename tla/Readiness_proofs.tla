-------------------------- MODULE Readiness_proofs --------------------------
(***************************************************************************)
(* Proofs about Readiness, for any number of probes, any grace and any     *)
(* timeout.                                                                *)
(*                                                                         *)
(* LagInv is what makes the two properties inductive: the memory of a lag  *)
(* is no younger than the first answer that saw it, and no older, but for  *)
(* a request's time, than the read that saw it; and a probe that holds the *)
(* mutex after such an answer has read a version the replica lacks, so     *)
(* that none can make the others forget.                                   *)
(***************************************************************************)
EXTENDS Readiness, TLAPS

TypeOK ==
    /\ version \in Nat /\ loaded \in Nat /\ clock \in Nat
    /\ mutex \in Probe \cup {NoProbe}
    /\ lagSince \in Nat \cup {Never}
    /\ seen \in Nat \cup {Never} /\ behind \in Nat \cup {Never}
    /\ pc \in [Probe -> {"idle", "lock", "poll", "compare"}]
    /\ now \in [Probe -> Nat]
    /\ polled \in [Probe -> [version : Nat, at : Nat]]
    /\ answer \in [Probe -> {"none", "error", "ready", "stale"}]

MutexInv == \A p \in Probe : pc[p] \in {"poll", "compare"} => mutex = p

ProbeInv ==
    \A p \in Probe :
        /\ now[p] <= clock
        /\ pc[p] = "compare" => /\ polled[p].version <= version
                                /\ polled[p].at < now[p] + Timeout

LagInv ==
    /\ lagSince # Never =>
         lagSince <= clock /\ seen # Never /\ seen < lagSince + Timeout
    /\ behind # Never =>
         /\ lagSince # Never /\ lagSince <= behind
         /\ loaded < version
         /\ \A p \in Probe : pc[p] = "compare" => loaded < polled[p].version

IInv == TypeOK /\ MutexInv /\ ProbeInv /\ LagInv

-----------------------------------------------------------------------------

LEMMA InitInv == Init => IInv
  BY TimeAssumption
  DEF Init, IInv, TypeOK, MutexInv, ProbeInv, LagInv, Nothing

LEMMA AroundStep == IInv /\ (Commit \/ ReloadPolicy \/ Tick) => IInv'
  <1> SUFFICES ASSUME IInv, Commit \/ ReloadPolicy \/ Tick PROVE IInv'
    OBVIOUS
  <1> USE TimeAssumption DEF IInv, TypeOK, MutexInv, ProbeInv, LagInv
  <1>1. CASE Commit
    BY <1>1 DEF Commit, health, probe
  <1>2. CASE ReloadPolicy
    BY <1>2 DEF ReloadPolicy, probe
  <1>3. CASE Tick
    BY <1>3 DEF Tick, replica, health, probe
  <1> QED
    BY <1>1, <1>2, <1>3

Step(p) ==
    \/ Begin(p) \/ Lock(p) \/ PolicyVersion(p) \/ PolicyVersionFails(p)
    \/ Current(p) \/ Lags(p)

(* Once a replica was found behind, no probe finds it current.             *)
LEMMA NoneForgets ==
    ASSUME NEW p \in Probe, IInv, Current(p) PROVE behind = Never
  BY DEF IInv, TypeOK, LagInv, Current

LEMMA ProbeStep == ASSUME NEW p \in Probe, IInv, Step(p) PROVE IInv'
  <1> USE TimeAssumption, ProbeAssumption DEF IInv, TypeOK, MutexInv, ProbeInv, LagInv
  <1>1. CASE Begin(p)
    BY <1>1 DEF Begin, replica, health
  <1>2. CASE Lock(p)
    BY <1>2 DEF Lock, replica
  <1>3. CASE PolicyVersion(p)
    BY <1>3 DEF PolicyVersion, InTime, replica, health
  <1>4. CASE PolicyVersionFails(p)
    BY <1>4 DEF PolicyVersionFails, Answer, replica, Nothing
  <1>5. CASE Current(p)
    BY <1>5, NoneForgets DEF Current, Answer, replica, Nothing
  <1>6. CASE Lags(p)
    <2>1. \A q \in Probe : pc'[q] # "compare"
      BY <1>6 DEF Lags, Answer
    <2> QED
      BY <1>6, <2>1 DEF Lags, FirstSeen, Answer, replica, Nothing
  <1> QED
    BY <1>1, <1>2, <1>3, <1>4, <1>5, <1>6 DEF Step

(* IInv holds in every state the probes can reach.                         *)
THEOREM Invariance == Spec => []IInv
  <1>1. IInv /\ [Next]_vars => IInv'
    <2> SUFFICES ASSUME IInv, [Next]_vars PROVE IInv'
      OBVIOUS
    <2>1. CASE Commit \/ ReloadPolicy \/ Tick
      BY <2>1, AroundStep
    <2>2. CASE \E p \in Probe : Step(p)
      BY <2>2, ProbeStep
    <2>3. CASE UNCHANGED vars
      BY <2>3 DEF IInv, TypeOK, MutexInv, ProbeInv, LagInv, vars, replica, health, probe
    <2> QED
      BY <2>1, <2>2, <2>3 DEF Next, Step
  <1> QED
    BY <1>1, InitInv, PTL DEF Spec

-----------------------------------------------------------------------------

(* Only the comparison of a probe tells it that the replica is ready.      *)
LEMMA ReadyFromLag ==
    ASSUME IInv, NEW p \in Probe, [Next]_vars,
           answer'[p] \in {"ready", "stale"}, answer'[p] # answer[p]
    PROVE  Current(p) \/ Lags(p)
  <1> USE DEF IInv, TypeOK
  <1>1. ~UNCHANGED answer
    OBVIOUS
  <1>2. \E q \in Probe : Step(q)
    BY <1>1 DEF Next, Commit, ReloadPolicy, Tick, probe, vars, Step
  <1>3. PICK q \in Probe : Step(q)
    BY <1>2
  <1>4. ~(Begin(q) \/ Lock(q) \/ PolicyVersion(q) \/ PolicyVersionFails(q))
    BY <1>1 DEF Begin, Lock, PolicyVersion, PolicyVersionFails, Answer
  <1>5. p = q
    BY <1>3, <1>4 DEF Step, Current, Lags, Answer
  <1> QED
    BY <1>3, <1>4, <1>5 DEF Step

(* A lag that lasts is reported, however the probes overlap                *)
(* (policyReadiness.check).                                                *)
THEOREM LastingTheorem == Spec => LastingLagReported
  <1>1. IInv /\ [Next]_vars =>
          \A p \in Probe : answer'[p] = "ready" /\ answer[p] # "ready" /\ behind # Never
             => now[p] < behind + Grace
    <2> SUFFICES ASSUME IInv, [Next]_vars, NEW p \in Probe,
                        answer'[p] = "ready", answer[p] # "ready", behind # Never
                 PROVE  now[p] < behind + Grace
      OBVIOUS
    <2>1. Lags(p)
      BY ReadyFromLag, NoneForgets
    <2>2. lagSince' = lagSince /\ lagSince \in Nat /\ lagSince <= behind
      BY <2>1 DEF Lags, FirstSeen, IInv, LagInv, TypeOK
    <2>3. ~(now[p] >= lagSince' + Grace)
      BY <2>1 DEF Lags, Answer, Lasting, IInv, TypeOK
    <2> QED
      BY <2>2, <2>3, TimeAssumption DEF IInv, TypeOK
  <1> QED
    BY <1>1, Invariance, PTL DEF Spec, LastingLagReported

(* A short lag is not: the whole grace is granted, but for the time one    *)
(* request may have waited before it looked (policyReadiness.check).       *)
THEOREM GraceTheorem == Spec => GraceHonoured
  <1>1. IInv /\ [Next]_vars =>
          \A p \in Probe : answer'[p] = "stale" /\ answer[p] # "stale"
             => clock + Timeout >= seen + Grace
    <2> SUFFICES ASSUME IInv, [Next]_vars, NEW p \in Probe,
                        answer'[p] = "stale", answer[p] # "stale"
                 PROVE  clock + Timeout >= seen + Grace
      OBVIOUS
    <2>1. Lags(p)
      <3>1. ~Current(p)
        BY DEF Current, Answer, IInv, TypeOK
      <3> QED
        BY <3>1, ReadyFromLag
    <2>2. now[p] >= lagSince' + Grace /\ lagSince' = FirstSeen(p)
      BY <2>1 DEF Lags, Answer, Lasting, IInv, TypeOK
    <2>3. lagSince # Never
      BY <2>2, TimeAssumption DEF FirstSeen, IInv, TypeOK
    <2> QED
      BY <2>2, <2>3, TimeAssumption DEF FirstSeen, IInv, TypeOK, ProbeInv, LagInv
  <1> QED
    BY <1>1, Invariance, PTL DEF Spec, GraceHonoured

=============================================================================
