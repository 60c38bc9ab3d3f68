------------------------- MODULE WorkerDaemonProofs --------------------------
(***************************************************************************)
(* Proofs about WorkerDaemon, for every batch limit, every threshold of    *)
(* the alerts and every cooldown.                                          *)
(***************************************************************************)
EXTENDS WorkerDaemon, Integers, TLAPS

-----------------------------------------------------------------------------
(* The inductive invariant.                                                *)

\* What has been confirmed under the key of the current period was built in it, so
\* that its cooldown cannot end before the period does.
ConfirmedIsCooling == \A a \in confirmed : since[a] <= offset

\* The alert in hand: under a key of the current period it is younger than the
\* period, and nothing of its kind has been confirmed meanwhile.
InHand ==
  sending => /\ key = "current" => age <= offset
             /\ stage \notin confirmed

DaemonInv == TypeOK /\ ConfirmedIsCooling /\ InHand

-----------------------------------------------------------------------------
(* Cooldown periods.                                                       *)

\* A tick either goes on in the period or begins the next.
LEMMA NextOffset ==
  ASSUME NEW o \in 0..(Cooldown - 1)
  PROVE  /\ (o + 1) % Cooldown \in 0..(Cooldown - 1)
         /\ (o + 1) % Cooldown = IF o = Cooldown - 1 THEN 0 ELSE o + 1
BY MonitorAssumption

LEMMA UpToCap ==
  ASSUME NEW n \in Nat, NEW cap \in Nat
  PROVE  UpTo(n, cap) \in 0..cap /\ UpTo(n, cap) <= n
BY DEF UpTo

\* The kinds of alerts are considered one after the other.
LEMMA AfterAlertStage ==
  ASSUME NEW a \in Alerts
  PROVE  AfterAlert(a) \in {"sleeping", "stopped"} \cup Alerts
BY DEF AfterAlert, AfterIteration, Alerts

-----------------------------------------------------------------------------
(* DaemonInv is inductive.                                                 *)

LEMMA DaemonInit == Init => DaemonInv
<1> SUFFICES ASSUME Init PROVE DaemonInv
  OBVIOUS
<1>1. batch \in Batches
  BY MonitorAssumption DEF Init, NoBatch, Batches
<1>2. TypeOK
  <2>1. 0 \in 0..Cooldown /\ Cooldown \in 0..Cooldown /\ 0 \in 0..StalledLimit /\ 0 \in 0..CrashLimit
    BY MonitorAssumption
  <2>2. since \in [Alerts -> 0..Cooldown] /\ age \in 0..Cooldown /\ confirmed \in SUBSET Alerts
    BY <2>1 DEF Init
  <2>3. stalled \in 0..StalledLimit /\ crashes \in 0..CrashLimit
    BY <2>1 DEF Init
  <2> QED BY <1>1, <2>2, <2>3 DEF Init, TypeOK
<1>3. ConfirmedIsCooling /\ InHand
  BY DEF Init, ConfirmedIsCooling, InHand
<1> QED BY <1>2, <1>3 DEF DaemonInv

LEMMA TickDaemon == ASSUME DaemonInv, Tick PROVE DaemonInv'
<1> USE MonitorAssumption DEF DaemonInv
<1>1. /\ offset' \in 0..(Cooldown - 1)
      /\ offset' = IF offset = Cooldown - 1 THEN 0 ELSE offset + 1
  BY NextOffset DEF Tick, TypeOK
<1>2. \A a \in Alerts : since'[a] \in 0..Cooldown /\ since'[a] <= since[a] + 1
  BY UpToCap DEF Tick, TypeOK
<1>3. /\ age' \in 0..Cooldown
      /\ sending => age' <= age + 1
  BY UpToCap DEF Tick, TypeOK
<1>4. since' \in [Alerts -> 0..Cooldown]
  BY <1>2 DEF Tick
<1>5. TypeOK'
  BY <1>1, <1>3, <1>4 DEF Tick, TypeOK
<1>6. ConfirmedIsCooling'
  BY <1>1, <1>2 DEF Tick, TypeOK, ConfirmedIsCooling
<1>7. InHand'
  BY <1>1, <1>3 DEF Tick, TypeOK, InHand
<1> QED BY <1>5, <1>6, <1>7

LEMMA RestartDaemon == ASSUME DaemonInv, Restart PROVE DaemonInv'
<1>1. batch' \in Batches
  BY MonitorAssumption DEF Restart, NoBatch, Batches
<1>2. TypeOK'
  <2>1. 0 \in 0..Cooldown /\ Cooldown \in 0..Cooldown /\ 0 \in 0..StalledLimit /\ 0 \in 0..CrashLimit
    BY MonitorAssumption
  <2>2. since' \in [Alerts -> 0..Cooldown] /\ age' \in 0..Cooldown /\ confirmed' \in SUBSET Alerts
    BY <2>1 DEF Restart
  <2>3. stalled' \in 0..StalledLimit /\ crashes' \in 0..CrashLimit
    BY <2>1 DEF Restart
  <2>4. runOnce' \in BOOLEAN /\ offset' \in 0..(Cooldown - 1)
    BY DEF Restart, DaemonInv, TypeOK
  <2> QED BY <1>1, <2>2, <2>3, <2>4 DEF Restart, TypeOK
<1>3. ConfirmedIsCooling' /\ InHand'
  BY DEF Restart, ConfirmedIsCooling, InHand
<1> QED BY <1>2, <1>3 DEF DaemonInv

\* A step of the loop that sends nothing.
LEMMA PlainStep ==
  ASSUME DaemonInv, ~sending, UNCHANGED <<runOnce, shutdown, routing>>,
         stage' \in {"loop", "batch", "metrics", "sleeping", "stopped"} \cup Alerts,
         batch' \in Batches \cup {CrashedBatch}, pending' \in {"none", "some", "unknown"},
         stalled' \in 0..StalledLimit, crashes' \in 0..CrashLimit
  PROVE  DaemonInv'
BY DEF DaemonInv, TypeOK, ConfirmedIsCooling, InHand, routing

LEMMA SentStep ==
  ASSUME NEW a \in Alerts, Sent(a)
  PROVE  /\ sending' \in BOOLEAN /\ ~sending'
         /\ age' \in 0..Cooldown
         /\ stage' \in {"loop", "batch", "metrics", "sleeping", "stopped"} \cup Alerts
<1>1. AfterAlert(a) \in {"sleeping", "stopped"} \cup Alerts
  BY AfterAlertStage
<1>2. 0 \in 0..Cooldown
  BY MonitorAssumption
<1>3. stage' \in {"loop", "batch", "metrics", "sleeping", "stopped"} \cup Alerts
  BY <1>1 DEF Sent
<1> QED BY <1>2, <1>3 DEF Sent

LEMMA AlertStep ==
  ASSUME DaemonInv, NEW a \in Alerts, Skip(a) \/ Send(a) \/ Deliver(a) \/ DeliveryFails(a)
  PROVE  DaemonInv'
<1> USE MonitorAssumption DEF DaemonInv
<1>1. AfterAlert(a) \in {"sleeping", "stopped"} \cup Alerts
  BY AfterAlertStage
<1>2. CASE Skip(a)
  BY <1>1, <1>2, PlainStep DEF Skip, monitor, TypeOK
<1>3. CASE Send(a)
  <2>1. TypeOK'
    <3>1. age' \in 0..Cooldown /\ key' \in {"current", "past"} /\ sending' \in BOOLEAN
          /\ stage' \in Alerts
      BY <1>3 DEF Send
    <3> QED BY <1>3, <3>1 DEF Send, TypeOK
  <2>2. a \notin confirmed
    BY <1>3 DEF Send, Suppressed, TypeOK, ConfirmedIsCooling
  <2> QED BY <1>3, <2>1, <2>2 DEF Send, ConfirmedIsCooling, InHand, TypeOK
<1>4. CASE Deliver(a)
  <2>1. TypeOK'
    <3>1. age \in 0..Cooldown
      BY DEF TypeOK
    <3>2. since' \in [Alerts -> 0..Cooldown]
      BY <1>4, <3>1 DEF Deliver, TypeOK
    <3>3. confirmed' \in SUBSET Alerts
      BY <1>4 DEF Deliver, TypeOK
    <3> QED BY <1>4, <3>2, <3>3, SentStep DEF Deliver, TypeOK
  <2>2. ConfirmedIsCooling'
    BY <1>4 DEF Deliver, TypeOK, ConfirmedIsCooling, InHand
  <2> QED BY <1>4, <2>1, <2>2 DEF Deliver, Sent, InHand
<1>5. CASE DeliveryFails(a)
  <2>1. TypeOK'
    BY <1>5, SentStep DEF DeliveryFails, TypeOK
  <2> QED BY <1>5, <2>1 DEF DeliveryFails, Sent, ConfirmedIsCooling, InHand
<1> QED BY <1>2, <1>3, <1>4, <1>5

LEMMA DaemonNext == DaemonInv /\ [Next]_vars => DaemonInv'
<1> SUFFICES ASSUME DaemonInv, [Next]_vars PROVE DaemonInv'
  OBVIOUS
<1> USE MonitorAssumption DEF DaemonInv
<1>1. CASE Tick
  BY <1>1, TickDaemon
<1>2. CASE Restart
  BY <1>2, RestartDaemon
<1>3. CASE RequestShutdown
  BY <1>3 DEF RequestShutdown, TypeOK, ConfirmedIsCooling, InHand
<1>4. stage \notin Alerts => ~sending
  BY DEF TypeOK
<1>5. CASE StartIteration
  BY <1>4, <1>5, PlainStep DEF StartIteration, monitor, TypeOK, Alerts
<1>6. CASE RunBatch
  BY <1>4, <1>6, PlainStep DEF RunBatch, monitor, TypeOK, Alerts
<1>7. CASE Observe
  <2>1. stalled' \in 0..StalledLimit /\ crashes' \in 0..CrashLimit
    BY <1>7, UpToCap DEF Observe, TypeOK
  <2> QED BY <1>4, <1>7, <2>1, PlainStep DEF Observe, TypeOK, Alerts
<1>8. CASE Wake
  BY <1>4, <1>8, PlainStep DEF Wake, monitor, TypeOK, Alerts
<1>9. ASSUME NEW a \in Alerts, Skip(a) \/ Send(a) \/ Deliver(a) \/ DeliveryFails(a)
      PROVE  DaemonInv'
  BY <1>9, AlertStep
<1>10. CASE UNCHANGED vars
  BY <1>10 DEF vars, TypeOK, ConfirmedIsCooling, InHand
<1> QED BY <1>1, <1>2, <1>3, <1>5, <1>6, <1>7, <1>8, <1>9, <1>10 DEF Next, Loop

LEMMA DaemonInvariant == Spec => []DaemonInv
BY DaemonInit, DaemonNext, PTL DEF Spec

-----------------------------------------------------------------------------
(* The theorems.                                                           *)

\* The daemon's variables keep their types; an alert is only in hand while its kind
\* is considered.
THEOREM DaemonTypeCorrect == Spec => []TypeOK
<1>1. DaemonInv => TypeOK
  BY DEF DaemonInv
<1> QED BY <1>1, DaemonInvariant, PTL

\* No new incident is built under a key that the destination has confirmed, however
\* long deliveries take and wherever in a period the cooldown begins.
THEOREM IncidentKeysAlwaysFresh == Spec => IncidentKeysFresh
<1> DEFINE Fresh == \A a \in Alerts : ~sending /\ sending' /\ stage = a => a \notin confirmed
<1>1. DaemonInv /\ [Next]_vars => [Fresh]_vars
  <2> SUFFICES ASSUME DaemonInv, [Next]_vars, ~sending, sending'
               PROVE  stage \notin confirmed
    OBVIOUS
  <2>1. PICK a \in Alerts : Send(a)
    BY DEF Next, Loop, vars, Tick, RequestShutdown, Restart, StartIteration, RunBatch,
           Observe, Wake, Skip, Deliver, DeliveryFails, Sent, monitor, routing
  <2> QED BY <2>1, MonitorAssumption DEF Send, Suppressed, DaemonInv, TypeOK, ConfirmedIsCooling
<1> QED BY <1>1, DaemonInvariant, PTL DEF Spec, IncidentKeysFresh

\* Once a shutdown is requested no batch and no sleep begins, and a batch that runs
\* is not cut off.  (That the loop then ends is liveness.)
THEOREM ShutdownAlwaysStartsNothing == Spec => ShutdownStartsNothing
<1> DEFINE Nothing == /\ shutdown /\ shutdown' /\ stage # stage' => stage' \notin {"batch", "sleeping"}
                      /\ stage = "batch" /\ shutdown' => stage' # "stopped"
<1>1. [Next]_vars => [Nothing]_vars
  <2> SUFFICES ASSUME Next PROVE Nothing
    BY DEF vars
  <2>1. CASE Tick \/ RequestShutdown \/ Restart
    BY <2>1 DEF Tick, RequestShutdown, Restart
  <2>2. CASE StartIteration \/ RunBatch \/ Observe \/ Wake
    BY <2>2 DEF StartIteration, RunBatch, Observe, Wake
  <2>3. ASSUME NEW a \in Alerts, Skip(a) \/ Send(a) \/ Deliver(a) \/ DeliveryFails(a)
        PROVE  Nothing
    <3>1. shutdown => AfterAlert(a) \in Alerts \cup {"stopped"}
      BY DEF AfterAlert, AfterIteration, Alerts
    <3> QED BY <2>3, <3>1 DEF Skip, Send, Deliver, DeliveryFails, Sent, Alerts
  <2> QED BY <2>1, <2>2, <2>3 DEF Next, Loop
<1> QED BY <1>1, PTL DEF Spec, ShutdownStartsNothing
=============================================================================
