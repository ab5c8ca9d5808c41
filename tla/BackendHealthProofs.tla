------------------------- MODULE BackendHealthProofs -------------------------
(***************************************************************************)
(* Proofs about BackendHealth: the stored health record is coherent, and   *)
(* holds no time of the future, for any number of callers, any delays and  *)
(* any number of restarts.                                                 *)
(***************************************************************************)
EXTENDS BackendHealth, TLAPS

\* Coherence of the stored record and of every copy on its way back to it;
\* the clock has left Go's zero time, which stands for "not down".
IInv ==
    /\ TypeOK
    /\ now # 0
    /\ CoherentHealth(health)
    /\ \A t \in Tasks : CoherentHealth(mine[t])

LEMMA UnknownCoherent ==
  /\ Unknown \in Record /\ CoherentHealth(Unknown)
  /\ now \in Nat => Timely(Unknown)
  /\ now' \in Nat => Timely(Unknown)'
  BY DEF Unknown, Record, Time, CoherentHealth, Timely, Down

\* What backendFailure computes is coherent if what it read was.
LEMMA FailedCoherent ==
  ASSUME NEW h \in Record, CoherentHealth(h), NEW kind \in Down,
         now \in Nat, now # 0
  PROVE  /\ Failed(h, kind) \in Record /\ CoherentHealth(Failed(h, kind))
         /\ Timely(h) => Timely(Failed(h, kind))
  BY DEF Failed, Record, Time, CoherentHealth, Timely, Down

\* What backendSuccess computes is coherent whatever it read.
LEMMA RecoveredCoherent ==
  ASSUME NEW h \in Record, now \in Nat
  PROVE  /\ Recovered(h) \in Record /\ CoherentHealth(Recovered(h))
         /\ Timely(Recovered(h))
  BY DEF Recovered, Record, Time, CoherentHealth, Timely, Down

\* A stamp set by maybeNotifyOutage is NotifyAfter later than the outage.
LEMMA StampedCoherent ==
  ASSUME NEW h \in Record, CoherentHealth(h), Due(h), now \in Nat, now # 0
  PROVE  /\ Stamped(h) \in Record /\ CoherentHealth(Stamped(h))
         /\ Timely(h) => Timely(Stamped(h))
  <1> USE DurationAssumption
      DEF Record, Time, CoherentHealth, Timely, Due, Stamped
  <1>1. Stamped(h) \in Record
    OBVIOUS
  <1>2. h.down \in Nat /\ now >= h.down + NotifyAfter
    OBVIOUS
  <1> QED BY <1>1, <1>2

LEMMA InitInv == Init => IInv
  <1> SUFFICES ASSUME Init PROVE IInv
    OBVIOUS
  <1> USE UnknownCoherent
  <1>1. TypeOK
    BY DEF Init, TypeOK, Labels, Time
  <1> QED BY <1>1 DEF Init, IInv

\* The record changes only to a task's copy, and a copy only to a coherent
\* record: this is all a step can do to IInv beside its types.
LEMMA StepInv ==
  ASSUME IInv, TypeOK', now' # 0,
         health' = health \/ \E t \in Tasks : health' = mine[t],
         \A t \in Tasks : mine'[t] = mine[t] \/ CoherentHealth(mine'[t])
  PROVE  IInv'
  BY DEF IInv, CoherentHealth

LEMMA FailureGetInv ==
  ASSUME IInv, NEW t \in Tasks, NEW kind \in Down, FailureGet(t, kind)
  PROVE  IInv'
  <1>1. /\ Failed(health, kind) \in Record
        /\ CoherentHealth(Failed(health, kind))
        /\ Timely(Failed(health, kind))
    BY FailedCoherent DEF IInv, TypeOK, Time
  <1>2. TypeOK'
    BY <1>1 DEF IInv, TypeOK, Timely, FailureGet, Step, Labels, Time
  <1>3. \A u \in Tasks : mine'[u] = mine[u] \/ CoherentHealth(mine'[u])
    BY <1>1 DEF IInv, TypeOK, FailureGet
  <1> QED BY <1>2, <1>3, StepInv DEF IInv, FailureGet

LEMMA SuccessGetInv ==
  ASSUME IInv, NEW t \in Tasks, SuccessGet(t)
  PROVE  IInv'
  <1>1. /\ Recovered(health) \in Record /\ CoherentHealth(Recovered(health))
        /\ Timely(Recovered(health))
    BY RecoveredCoherent DEF IInv, TypeOK, Time
  <1>2. TypeOK'
    BY <1>1 DEF IInv, TypeOK, Timely, SuccessGet, Step, Labels, Time
  <1>3. \A u \in Tasks : mine'[u] = mine[u] \/ CoherentHealth(mine'[u])
    BY <1>1 DEF IInv, TypeOK, SuccessGet
  <1> QED BY <1>2, <1>3, StepInv DEF IInv, SuccessGet

\* The steps that store a copy, and the one that throws it away.
LEMMA PutInv ==
  ASSUME IInv, NEW t \in Tasks,
         FailurePut(t) \/ StampPut(t) \/ SuccessPut(t) \/ ConsiderQuiet(t)
  PROVE  IInv'
  <1> USE UnknownCoherent
  <1>1. TypeOK'
    BY DEF IInv, TypeOK, Timely, FailurePut, StampPut, SuccessPut,
           ConsiderQuiet, PutHealth, Drop, Step, Labels, Time
  <1>2. \A u \in Tasks : mine'[u] = mine[u] \/ CoherentHealth(mine'[u])
    BY DEF IInv, TypeOK, FailurePut, StampPut, SuccessPut, ConsiderQuiet, Drop
  <1>3. health' = health \/ health' = mine[t]
    BY DEF FailurePut, StampPut, SuccessPut, ConsiderQuiet, PutHealth
  <1>4. now' = now
    BY DEF FailurePut, StampPut, SuccessPut, ConsiderQuiet
  <1> QED BY <1>1, <1>2, <1>3, <1>4, StepInv DEF IInv

LEMMA ConsiderDueInv ==
  ASSUME IInv, NEW t \in Tasks, ConsiderDue(t)
  PROVE  IInv'
  <1>1. /\ Stamped(mine[t]) \in Record /\ CoherentHealth(Stamped(mine[t]))
        /\ Timely(Stamped(mine[t]))
    BY StampedCoherent DEF IInv, TypeOK, Time, ConsiderDue
  <1>2. mine' = [mine EXCEPT ![t] = Stamped(mine[t])]
    BY DEF IInv, TypeOK, ConsiderDue
  <1>3. TypeOK'
    BY <1>1, <1>2 DEF IInv, TypeOK, Timely, ConsiderDue, Step, Labels, Time
  <1>4. \A u \in Tasks : mine'[u] = mine[u] \/ CoherentHealth(mine'[u])
    BY <1>1, <1>2 DEF IInv, TypeOK
  <1> QED BY <1>3, <1>4, StepInv DEF IInv, ConsiderDue

\* Starting a goroutine of notify.
LEMMA AlertInv ==
  ASSUME IInv, NEW t \in Tasks, AlertOutage(t) \/ AlertRecovery(t)
  PROVE  IInv'
  <1> USE UnknownCoherent
  <1>1. outbox' \in [Alerts -> Nat]
    BY DEF IInv, TypeOK, AlertOutage, AlertRecovery, Notify, More
  <1>2. TypeOK'
    BY <1>1 DEF IInv, TypeOK, Timely, AlertOutage, AlertRecovery, Drop, Step,
                Labels, Time, Record
  <1>3. \A u \in Tasks : mine'[u] = mine[u] \/ CoherentHealth(mine'[u])
    BY DEF IInv, TypeOK, AlertOutage, AlertRecovery, Drop
  <1> QED BY <1>2, <1>3, StepInv DEF IInv, AlertOutage, AlertRecovery

LEMMA LoopCheckInv ==
  ASSUME IInv, LoopCheck
  PROVE  IInv'
  <1>1. Loop \in Tasks
    BY DEF Tasks
  <1>2. TypeOK'
    BY <1>1 DEF IInv, TypeOK, Timely, LoopCheck, Step, Labels, Time
  <1>3. \A u \in Tasks : mine'[u] = mine[u] \/ CoherentHealth(mine'[u])
    BY <1>1 DEF IInv, TypeOK, LoopCheck
  <1> QED BY <1>2, <1>3, StepInv DEF IInv, LoopCheck

\* Delivery of alerts and the clock leave records alone; a crash keeps the
\* stored one.
LEMMA WorldInv ==
  ASSUME IInv,
         (\E kind \in Alerts : Deliver(kind) \/ Lose(kind)) \/ Pass \/ Crash
  PROVE  IInv'
  <1> USE UnknownCoherent
  <1>1. TypeOK'
    <2>1. ASSUME NEW kind \in Alerts, Deliver(kind) \/ Lose(kind)
          PROVE  TypeOK'
      BY <2>1 DEF IInv, TypeOK, Timely, Deliver, Lose, More, Time
    <2>2. CASE Pass
      BY <2>2 DEF IInv, TypeOK, Timely, Record, Pass, Time
    <2>3. CASE Crash
      BY <2>3 DEF IInv, TypeOK, Timely, Crash, Labels, Time
    <2> QED BY <2>1, <2>2, <2>3
  <1>2. now' # 0
    BY DEF IInv, TypeOK, Time, Deliver, Lose, Pass, Crash
  <1>3. health' = health
    BY DEF Deliver, Lose, Pass, Crash
  <1>4. \A u \in Tasks : mine'[u] = mine[u] \/ CoherentHealth(mine'[u])
    BY DEF Deliver, Lose, Pass, Crash
  <1> QED BY <1>1, <1>2, <1>3, <1>4, StepInv

LEMMA StutterInv ==
  ASSUME IInv, UNCHANGED vars
  PROVE  IInv'
  BY DEF IInv, TypeOK, Timely, CoherentHealth, vars

\* Types and coherence of the health record and of all its copies, for any
\* number of goroutines in backendFailure, backendSuccess and
\* maybeNotifyOutage at once.
THEOREM HealthInvariant == Spec => []IInv
  <1>1. IInv /\ [Next]_vars => IInv'
    BY FailureGetInv, SuccessGetInv, PutInv, ConsiderDueInv, AlertInv,
       LoopCheckInv, WorldInv, StutterInv DEF Next, TaskStep
  <1> QED BY InitInv, <1>1, PTL DEF Spec

\* TypeOK holds of every instance.
THEOREM HealthTyped == Spec => []TypeOK
  <1>1. IInv => TypeOK
    BY DEF IInv
  <1> QED BY HealthInvariant, <1>1, PTL

\* The record the dashboard shows is one a single call could have written.
THEOREM HealthIsCoherent == Spec => []HealthCoherent
  <1>1. IInv => HealthCoherent
    BY DEF IInv, HealthCoherent
  <1> QED BY HealthInvariant, <1>1, PTL

=============================================================================
