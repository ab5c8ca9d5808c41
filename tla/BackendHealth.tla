---------------------------- MODULE BackendHealth ----------------------------
(***************************************************************************)
(* The backend health record of state.json and the alerts it leads to      *)
(* (backendFailure, maybeNotifyOutage, backendSuccess and the check of     *)
(* reconcileLoop in app.go; notify in notification.go).                    *)
(*                                                                         *)
(* Every push and pull ends in backendFailure or backendSuccess, in the    *)
(* goroutine that made it.  Both read the record under the store's mutex,  *)
(* compute a new one and store it whole in a later step; maybeNotifyOutage *)
(* decides on the caller's copy and stores the record a second time.  An   *)
(* alert is sent by a goroutine of its own, so alerts may be delivered in  *)
(* any order, late or never.                                               *)
(*                                                                         *)
(* Time is a counter; 0 is Go's zero time.  LastSuccess, LastFailure and   *)
(* LastMessage are shown to the user and decide nothing.                   *)
(***************************************************************************)
EXTENDS Naturals

CONSTANTS
    Callers,       \* goroutines that push or pull
    Loop,          \* the goroutine of reconcileLoop
    NotifyAfter,   \* MOONDAV_NOTIFY_AFTER
    NotifyRepeat,  \* MOONDAV_NOTIFY_REPEAT
    MaxTime,       \* the clock stops here
    LastCall,      \* no push, pull or restart after this time
    MaxCrashes,    \* bounds the restarts
    MaxAlerts      \* alerts of a kind that are counted, on their way or sent

Tasks == Callers \union {Loop}

ASSUME DurationAssumption == NotifyAfter \in Nat /\ NotifyRepeat \in Nat
ASSUME BoundAssumption == /\ MaxTime \in Nat /\ LastCall \in Nat
                          /\ MaxCrashes \in Nat /\ MaxAlerts \in Nat

VARIABLES
    health,    \* BackendHealth, in memory and in state.json
    pc,        \* where each task is
    mine,      \* the copy of the record a task computes with
    outbox,    \* goroutines running notify: how many of each kind
    sent,      \* history: alerts that reached the user, by kind
    told,      \* history: stamp of the last outage alert of this outage
    now,       \* the clock
    crashes    \* how often the process was restarted

vars == <<health, pc, mine, outbox, sent, told, now, crashes>>

Down == {"offline", "error"}
Time == Nat
Record == [state: {"new", "online"} \union Down, down: Time, notified: Time]
Unknown == [state |-> "new", down |-> 0, notified |-> 0]
Alerts == {"outage", "recovered"}

Labels == {"idle", "putFailure", "consider", "putStamp", "alert",
           "putSuccess", "putRecovery", "tell"}

\* No time of a record lies in the future.
Timely(h) == h.down <= now /\ h.notified <= now

\* Types, and times that have passed: maybeNotifyOutage waits for the time
\* since a stamp, so a stamp in the future would silence an outage.
TypeOK ==
    /\ health \in Record /\ Timely(health)
    /\ pc \in [Tasks -> Labels]
    /\ mine \in [Tasks -> Record] /\ \A t \in Tasks : Timely(mine[t])
    /\ outbox \in [Alerts -> Nat]
    /\ sent \in [Alerts -> Nat]
    /\ told \in Time
    /\ now \in Time
    /\ crashes \in Nat

Init ==
    /\ health = Unknown
    /\ pc = [t \in Tasks |-> "idle"]
    /\ mine = [t \in Tasks |-> Unknown]
    /\ outbox = [a \in Alerts |-> 0]
    /\ sent = [a \in Alerts |-> 0]
    /\ told = 0
    /\ now = 1
    /\ crashes = 0

----------------------------------------------------------------------------
Step(t, from, to) == pc[t] = from /\ pc' = [pc EXCEPT ![t] = to]

PutHealth(t) == health' = mine[t]

\* The copy is of no further use.
Drop(t) == mine' = [mine EXCEPT ![t] = Unknown]

\* A failure begins an outage or belongs to the one there is.
Failed(h, kind) ==
    IF h.state \in Down
    THEN [h EXCEPT !.state = kind]
    ELSE [state |-> kind, down |-> now, notified |-> 0]

\* Fault: forgets to end the outage.
RecoveredKeepingOutage(h) == [h EXCEPT !.state = "online"]

Recovered(h) == [state |-> "online", down |-> 0, notified |-> 0]

\* A call ended with an error: kind is "offline" for a temporary one.
FailureGet(t, kind) ==
    /\ Step(t, "idle", "putFailure")
    /\ now <= LastCall
    /\ mine' = [mine EXCEPT ![t] = Failed(health, kind)]
    /\ UNCHANGED <<health, outbox, sent, told, now, crashes>>

FailurePut(t) ==
    /\ Step(t, "putFailure", "consider")
    /\ PutHealth(t)
    /\ UNCHANGED <<mine, outbox, sent, told, now, crashes>>

\* The outage has lasted and the last alert is long ago.
Due(h) ==
    /\ h.down # 0 /\ now - h.down >= NotifyAfter
    /\ h.notified = 0 \/ now - h.notified >= NotifyRepeat

ConsiderQuiet(t) ==
    /\ Step(t, "consider", "idle")
    /\ ~Due(mine[t])
    /\ Drop(t)
    /\ UNCHANGED <<health, outbox, sent, told, now, crashes>>

\* Fault: stores when the next alert is due, not when this one was.
StampedNext(h) == [h EXCEPT !.notified = now + NotifyRepeat]

Stamped(h) == [h EXCEPT !.notified = now]

ConsiderDue(t) ==
    /\ Step(t, "consider", "putStamp")
    /\ Due(mine[t])
    /\ mine' = [mine EXCEPT ![t] = Stamped(@)]
    /\ UNCHANGED <<health, outbox, sent, told, now, crashes>>

StampPut(t) ==
    /\ Step(t, "putStamp", "alert")
    /\ PutHealth(t)
    /\ UNCHANGED <<mine, outbox, sent, told, now, crashes>>

\* One more, counted up to MaxAlerts.
More(n) == IF n < MaxAlerts THEN n + 1 ELSE n

Notify(kind) == outbox' = [outbox EXCEPT ![kind] = More(@)]

\* Fault: stamps the record and starts no goroutine.
AlertNobody(t) ==
    /\ Step(t, "alert", "idle")
    /\ told' = mine[t].notified
    /\ Drop(t)
    /\ UNCHANGED <<health, outbox, sent, now, crashes>>

\* go a.notify("backend_offline" or "backend_error", ...)
AlertOutage(t) ==
    /\ Step(t, "alert", "idle")
    /\ Notify("outage")
    /\ told' = mine[t].notified
    /\ Drop(t)
    /\ UNCHANGED <<health, sent, now, crashes>>

\* A call succeeded; if an outage was alerted, its end will be.
SuccessGet(t) ==
    /\ Step(t, "idle", IF health.state \in Down /\ health.notified # 0
                       THEN "putRecovery" ELSE "putSuccess")
    /\ now <= LastCall
    /\ mine' = [mine EXCEPT ![t] = Recovered(health)]
    /\ UNCHANGED <<health, outbox, sent, told, now, crashes>>

SuccessPut(t) ==
    /\ \/ Step(t, "putSuccess", "idle") /\ told' = 0
       \/ Step(t, "putRecovery", "tell") /\ UNCHANGED told
    /\ PutHealth(t)
    /\ Drop(t)
    /\ UNCHANGED <<outbox, sent, now, crashes>>

\* go a.notify("backend_recovered", ...)
AlertRecovery(t) ==
    /\ Step(t, "tell", "idle")
    /\ Notify("recovered")
    /\ told' = 0
    /\ UNCHANGED <<health, mine, sent, now, crashes>>

\* After each tick's pass the loop looks at the stored record.
LoopCheck ==
    /\ health.state \in Down
    /\ Step(Loop, "idle", "consider")
    /\ mine' = [mine EXCEPT ![Loop] = health]
    /\ UNCHANGED <<health, outbox, sent, told, now, crashes>>

----------------------------------------------------------------------------
\* notify reaches the user, or fails and is only logged.
Deliver(kind) ==
    /\ outbox[kind] > 0
    /\ outbox' = [outbox EXCEPT ![kind] = @ - 1]
    /\ sent' = [sent EXCEPT ![kind] = More(@)]
    /\ UNCHANGED <<health, pc, mine, told, now, crashes>>

Lose(kind) ==
    /\ outbox[kind] > 0
    /\ outbox' = [outbox EXCEPT ![kind] = @ - 1]
    /\ UNCHANGED <<health, pc, mine, sent, told, now, crashes>>

Pass ==
    /\ now < MaxTime
    /\ now' = now + 1
    /\ UNCHANGED <<health, pc, mine, outbox, sent, told, crashes>>

\* The record survives a restart, goroutines do not.
Crash ==
    /\ crashes < MaxCrashes /\ now <= LastCall
    /\ crashes' = crashes + 1
    /\ pc' = [t \in Tasks |-> "idle"]
    /\ mine' = [t \in Tasks |-> Unknown]
    /\ outbox' = [a \in Alerts |-> 0]
    /\ UNCHANGED <<health, sent, told, now>>

TaskStep(t) ==
    \/ FailurePut(t) \/ ConsiderQuiet(t) \/ ConsiderDue(t) \/ StampPut(t)
    \/ AlertOutage(t) \/ SuccessPut(t) \/ AlertRecovery(t)

Next ==
    \/ \E t \in Tasks :
          \/ \E kind \in Down : FailureGet(t, kind)
          \/ SuccessGet(t)
          \/ TaskStep(t)
    \/ LoopCheck
    \/ \E kind \in Alerts : Deliver(kind) \/ Lose(kind)
    \/ Pass
    \/ Crash

Spec == Init /\ [][Next]_vars

\* Goroutines go on, the ticker ticks and time passes; calls need not happen.
Fairness ==
    /\ \A t \in Tasks : WF_vars(TaskStep(t))
    /\ WF_vars(LoopCheck)
    /\ WF_vars(Pass)

FairSpec == Spec /\ Fairness

----------------------------------------------------------------------------
\* A record says since when the backend is down exactly if it is down, and an
\* alert stamp belongs to the outage of the same record.
CoherentHealth(h) ==
    /\ h.state \in Down <=> h.down # 0
    /\ h.notified # 0 => h.down # 0 /\ h.notified >= h.down + NotifyAfter

\* However calls overlap, the stored record is one a single call could have
\* written: the dashboard never shows an online backend with an outage, nor
\* an alert that came before its time.
HealthCoherent == CoherentHealth(health)

\* An outage whose alert is due and that no call ends leads to a goroutine of
\* notify: also when the process died between the stamp and the alert, or
\* another goroutine stored a stale record, reconcileLoop keeps looking and
\* alerts again.
OutageAlerted ==
    Due(health) ~> (health.state \notin Down \/ outbox["outage"] > 0)

----------------------------------------------------------------------------
(* What the documentation promises and the code does not keep. *)

\* t starts the alert of an outage in this step.
Alerting(t) == pc[t] = "alert" /\ pc'[t] = "idle" /\ crashes' = crashes

\* README.md:568, "Minimum repeat interval for persistent outage": two alerts
\* of one outage are NotifyRepeat apart.
AlertsSpaced ==
    [][\A t \in Tasks : Alerting(t)
          => told = 0 \/ mine[t].notified - told >= NotifyRepeat]_vars

\* README.md:366, "A recovery notification is sent only when an outage
\* notification was previously emitted".
RecoveryAfterOutage == sent["recovered"] <= sent["outage"]
=============================================================================
