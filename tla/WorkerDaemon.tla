---------------------------- MODULE WorkerDaemon -----------------------------
(***************************************************************************)
(* The loop of a worker daemon and its alert monitor: run a batch, read    *)
(* the queue metrics, observe the iteration, route the alerts it calls     *)
(* for, stop or sleep.  The classification and the CRM retry daemon share  *)
(* it; a batch is whatever ClassificationQueue and CrmSync do in one, and  *)
(* is known here by its counts only.  A signal may ask for the shutdown    *)
(* at any time, and a supervisor restarts a process that has died.         *)
(*                                                                         *)
(* Time is relative: since[a] is the time since the last delivered alert   *)
(* of a kind, and stops at the cooldown.  Incident keys carry the number   *)
(* of the cooldown period they were built in; all that matters is whether  *)
(* it is the current one.                                                  *)
(***************************************************************************)
EXTENDS Naturals

CONSTANTS
  BatchLimit,      \* the daemon's --limit
  StalledLimit,    \* alert_stalled_queue_iterations
  CrashLimit,      \* alert_repeated_crash_count
  MinSample,       \* alert_min_error_sample_size
  ErrorPercent,    \* alert_high_error_rate_threshold, in percent
  Cooldown         \* alert_cooldown_seconds, in ticks

ASSUME MonitorAssumption ==
  /\ BatchLimit \in Nat \ {0} /\ StalledLimit \in Nat \ {0} /\ CrashLimit \in Nat \ {0}
  /\ MinSample \in Nat \ {0} /\ ErrorPercent \in 1..100 /\ Cooldown \in Nat \ {0}

VARIABLES
  runOnce,    \* --run-once
  shutdown,   \* ShutdownFlag
  stage,      \* where run_daemon stands; an alert kind while it is considered
  batch,      \* fetched, completed, errors of the last batch, and whether it crashed
  pending,    \* the queue metrics of the iteration: "none", "some" or "unknown"
  stalled,    \* stalled_iterations, counted no further than needed
  crashes,    \* consecutive_crashes, counted no further than needed
  since,      \* time since last_delivered_at, Cooldown when there is none
  sending,    \* the alert in hand has been built and is on its way
  age,        \* time since it was built
  offset,     \* how far the current cooldown period has come
  key,        \* whether the alert in hand was built in the current period
  confirmed   \* history: kinds confirmed under the current period's key

vars == <<runOnce, shutdown, stage, batch, pending, stalled, crashes, since,
          sending, age, offset, key, confirmed>>

Alerts == {"queue_stalled", "high_error_rate", "repeated_crashes"}
Batches ==
  {b \in [fetched : 0..BatchLimit, completed : 0..BatchLimit, errors : 0..BatchLimit,
          crashed : {FALSE}] : b.completed + b.errors <= b.fetched}
CrashedBatch == [fetched |-> 0, completed |-> 0, errors |-> 1, crashed |-> TRUE]

TypeOK ==
  /\ runOnce \in BOOLEAN /\ shutdown \in BOOLEAN
  /\ stage \in {"loop", "batch", "metrics", "sleeping", "stopped"} \cup Alerts
  /\ batch \in Batches \cup {CrashedBatch}
  /\ pending \in {"none", "some", "unknown"}
  /\ stalled \in 0..StalledLimit /\ crashes \in 0..CrashLimit
  /\ since \in [Alerts -> 0..Cooldown]
  /\ sending \in BOOLEAN /\ age \in 0..Cooldown /\ offset \in 0..(Cooldown - 1)
  /\ key \in {"current", "past"} /\ confirmed \in SUBSET Alerts
  /\ sending => stage \in Alerts

NoBatch == [fetched |-> 0, completed |-> 0, errors |-> 0, crashed |-> FALSE]

Init ==
  /\ runOnce \in BOOLEAN /\ shutdown = FALSE
  /\ stage = "loop"
  /\ batch = NoBatch
  /\ pending = "unknown"
  /\ stalled = 0 /\ crashes = 0
  /\ since = [a \in Alerts |-> Cooldown]
  /\ sending = FALSE /\ age = 0 /\ key = "current" /\ confirmed = {}
  /\ offset \in 0..(Cooldown - 1)

-----------------------------------------------------------------------------

UpTo(n, cap) == IF n < cap THEN n ELSE cap

Tick ==
  /\ since' = [a \in Alerts |-> UpTo(since[a] + 1, Cooldown)]
  /\ age' = IF sending THEN UpTo(age + 1, Cooldown) ELSE 0
  /\ offset' = (offset + 1) % Cooldown
  /\ key' = IF offset' = 0 /\ sending THEN "past" ELSE key
  /\ confirmed' = IF offset' = 0 THEN {} ELSE confirmed
  /\ UNCHANGED <<runOnce, shutdown, stage, batch, pending, stalled, crashes, sending>>

RequestShutdown ==
  /\ stage # "stopped"
  /\ ~shutdown
  /\ shutdown' = TRUE
  /\ UNCHANGED <<runOnce, stage, batch, pending, stalled, crashes, since, sending,
                 age, offset, key, confirmed>>

\* The monitor's memory dies with the process.
Restart ==
  /\ shutdown' = FALSE
  /\ stage' = "loop"
  /\ batch' = NoBatch
  /\ pending' = "unknown"
  /\ stalled' = 0 /\ crashes' = 0
  /\ since' = [a \in Alerts |-> Cooldown]
  /\ sending' = FALSE /\ age' = 0 /\ key' = "current" /\ confirmed' = {}
  /\ UNCHANGED <<runOnce, offset>>

-----------------------------------------------------------------------------
(* run_daemon.                                                             *)

routing == <<since, sending, age, offset, key, confirmed>>
monitor == <<stalled, crashes, routing>>

\* Mutated form: the flag is looked at after an iteration only.
StartRegardless ==
  /\ stage = "loop"
  /\ stage' = "batch"
  /\ UNCHANGED <<runOnce, shutdown, batch, pending, monitor>>

StartIteration ==
  /\ stage = "loop"
  /\ stage' = IF shutdown THEN "stopped" ELSE "batch"
  /\ UNCHANGED <<runOnce, shutdown, batch, pending, monitor>>

RunBatch ==
  /\ stage = "batch"
  /\ batch' \in Batches \cup {CrashedBatch}   \* it returns, or raises
  /\ stage' = "metrics"
  /\ UNCHANGED <<runOnce, shutdown, pending, monitor>>

\* Mutated form: an iteration that fetched nothing does not count as stalled.
NoProgressFetched(seen, b) == seen = "some" /\ b.fetched > 0 /\ b.completed = 0

NoProgress(seen, b) == seen = "some" /\ b.completed = 0

\* fetch_queue_metrics fails or not; observe_iteration counts.  (The code counts
\* the crash after it has routed the other alerts; nothing reads it before.)
Observe ==
  /\ stage = "metrics"
  /\ pending' \in {"none", "some", "unknown"}
  /\ stalled' = IF NoProgress(pending', batch) THEN UpTo(stalled + 1, StalledLimit) ELSE 0
  /\ crashes' = IF batch.crashed THEN UpTo(crashes + 1, CrashLimit) ELSE 0
  /\ stage' = "queue_stalled"
  /\ UNCHANGED <<runOnce, shutdown, batch, routing>>

\* Once the alerts are through, the loop ends or sleeps.
AfterIteration == IF runOnce \/ shutdown THEN "stopped" ELSE "sleeping"

AfterAlert(a) ==
  CASE a = "queue_stalled" -> "high_error_rate"
    [] a = "high_error_rate" -> "repeated_crashes"
    [] OTHER -> AfterIteration

-----------------------------------------------------------------------------
(* _route.                                                                 *)

CalledFor(a) ==
  CASE a = "queue_stalled" -> stalled >= StalledLimit
    [] a = "high_error_rate" ->
         batch.fetched >= MinSample /\ batch.errors * 100 >= ErrorPercent * batch.fetched
    [] OTHER -> crashes >= CrashLimit

\* Mutated form: there is no cooldown.
SuppressedNever(a) == since[a] > Cooldown

Suppressed(a) == since[a] < Cooldown

Skip(a) ==
  /\ stage = a /\ ~sending
  /\ ~CalledFor(a) \/ Suppressed(a)
  /\ stage' = AfterAlert(a)
  /\ UNCHANGED <<runOnce, shutdown, batch, pending, monitor>>

Send(a) ==
  /\ stage = a /\ ~sending
  /\ CalledFor(a) /\ ~Suppressed(a)
  /\ sending' = TRUE /\ age' = 0 /\ key' = "current"
  /\ UNCHANGED <<runOnce, shutdown, stage, batch, pending, stalled, crashes, since,
                 offset, confirmed>>

\* Mutated form: the alert stays in hand.
SentUncleared(a) == sending' = TRUE /\ age' = 0 /\ stage' = AfterAlert(a)

Sent(a) == sending' = FALSE /\ age' = 0 /\ stage' = AfterAlert(a)

\* The cooldown counts from when the alert was built.
Deliver(a) ==
  /\ stage = a /\ sending
  /\ Sent(a)
  /\ since' = [since EXCEPT ![a] = age]
  /\ confirmed' = IF key = "current" THEN confirmed \cup {a} ELSE confirmed
  /\ UNCHANGED <<runOnce, shutdown, batch, pending, stalled, crashes, offset, key>>

\* Mutated form: a failed delivery is not contained.
DeliveryRaises(a) ==
  /\ stage = a /\ sending
  /\ sending' = FALSE /\ age' = 0 /\ stage' = "stopped"
  /\ UNCHANGED <<runOnce, shutdown, batch, pending, stalled, crashes, since, offset,
                 key, confirmed>>

\* Rejected, timed out, or accepted with the answer lost: nothing is remembered.
DeliveryFails(a) ==
  /\ stage = a /\ sending
  /\ Sent(a)
  /\ UNCHANGED <<runOnce, shutdown, batch, pending, stalled, crashes, since, offset,
                 key, confirmed>>

\* The sleep is not interrupted by the signal.
Wake ==
  /\ stage = "sleeping"
  /\ stage' = "loop"
  /\ UNCHANGED <<runOnce, shutdown, batch, pending, monitor>>

Loop ==
  \/ StartIteration \/ RunBatch \/ Observe
  \/ \E a \in Alerts : Skip(a) \/ Send(a) \/ Deliver(a) \/ DeliveryFails(a)
  \/ Wake

Next == Tick \/ RequestShutdown \/ Restart \/ Loop

Spec == Init /\ [][Next]_vars

(***************************************************************************)
(* Time passes and every await of the loop ends: the database and alert    *)
(* clients time out, the sleep is finite.  A destination that is asked     *)
(* about one kind of incident again and again confirms it now and then.    *)
(***************************************************************************)
Fairness == WF_vars(Tick) /\ WF_vars(Loop) /\ \A a \in Alerts : SF_vars(Deliver(a))

FairSpec == Spec /\ Fairness

-----------------------------------------------------------------------------
(* Properties.                                                             *)

\* A new incident is never built under the key of one that the destination has
\* confirmed, which it would drop as a repetition: the cooldown, counted from
\* the last delivery, and the fixed periods of the keys do not disagree.
IncidentKeysFresh ==
  [][\A a \in Alerts : ~sending /\ sending' /\ stage = a => a \notin confirmed]_vars

\* "An active batch is allowed to finish before the process exits" (README): once
\* shutdown is requested no other batch and no sleep begins, the batch is not cut
\* off, and the process ends, whatever the alerts of the iteration meet.
ShutdownStartsNothing ==
  [][/\ shutdown /\ shutdown' /\ stage # stage' => stage' \notin {"batch", "sleeping"}
     /\ stage = "batch" /\ shutdown' => stage' # "stopped"]_vars
ShutdownTakesEffect ==
  /\ ShutdownStartsNothing
  /\ shutdown ~> stage = "stopped" \/ ~shutdown

\* A queue that stays stuck is reported, and again whenever the cooldown is over,
\* however often its alerts get lost and whatever else is reported.
StuckQueueReported ==
  <>[](pending = "some" /\ batch.completed = 0) /\ <>[](stage # "stopped") =>
    []<><<Deliver("queue_stalled")>>_vars

\* "Alert delivery failures are sanitized and do not stop lead processing"
\* (README): without a shutdown the daemon starts batches for ever.
ProcessingGoesOn == ~runOnce => []<>(stage = "batch" \/ shutdown)
=============================================================================
