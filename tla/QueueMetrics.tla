---------------------------- MODULE QueueMetrics -----------------------------
(***************************************************************************)
(* GET /health/queue and the daemon's metrics: pending, backoff and        *)
(* exhausted are counted by three requests, one after the other, while the *)
(* leads of the queue move.                                                *)
(***************************************************************************)
EXTENDS Naturals, FiniteSets

CONSTANTS
  QueueLeads,     \* rows
  CountAttempts,  \* max_attempts of the metrics
  ClaimAttempts,  \* max_attempts of the workers, which is a setting of its own
  BackoffTime,    \* retry_after_seconds
  LastTick        \* bound of the clock

ASSUME MetricsAssumption ==
  /\ IsFiniteSet(QueueLeads)
  /\ CountAttempts \in Nat \ {0} /\ ClaimAttempts \in Nat \ {0}
  /\ BackoffTime \in Nat \ {0} /\ LastTick \in Nat

VARIABLES
  countClock,   \* the time
  countRow,     \* the queue's columns of the leads
  countStep,    \* what the endpoint counts next
  countNow,     \* current_time, read once
  counts,       \* the three numbers
  newcomers,    \* history: leads stored since the first count
  lastClaimed   \* history: leads claimed since the second count

countVars == <<countClock, countRow, countStep, countNow, counts, newcomers, lastClaimed>>
moved == <<newcomers, lastClaimed>>

Absent == [status |-> "absent", tries |-> 0, next |-> 0]
Rows == [status : {"absent", "pending", "settled"}, tries : 0..ClaimAttempts,
         next : 0..(LastTick + BackoffTime)]
NoCounts == [pending |-> 0, backoff |-> 0, exhausted |-> 0]

MetricsTypeOK ==
  /\ countClock \in 0..LastTick
  /\ countRow \in [QueueLeads -> Rows]
  /\ countStep \in {"none", "backoff", "exhausted", "done", "failed"}
  /\ countNow \in 0..LastTick
  /\ \A c \in DOMAIN NoCounts : counts[c] \in 0..Cardinality(QueueLeads)
  /\ newcomers \in SUBSET QueueLeads /\ lastClaimed \in SUBSET QueueLeads

MetricsInit ==
  /\ countClock = 0
  /\ countRow = [l \in QueueLeads |-> Absent]
  /\ countStep = "none" /\ countNow = 0 /\ counts = NoCounts
  /\ newcomers = {} /\ lastClaimed = {}

-----------------------------------------------------------------------------
(* The queue, as far as it is counted; who claims is in ClassificationQueue. *)

CountTick ==
  /\ countClock < LastTick
  /\ countClock' = countClock + 1
  /\ UNCHANGED <<countRow, countStep, countNow, counts, moved>>

RowBecomes(l, row) ==
  /\ countRow' = [countRow EXCEPT ![l] = row]
  /\ UNCHANGED <<countClock, countStep, countNow, counts>>

RowArrives(l) ==
  /\ countRow[l].status = "absent"
  /\ RowBecomes(l, [Absent EXCEPT !.status = "pending"])
  /\ newcomers' = IF countStep = "none" THEN newcomers ELSE newcomers \cup {l}
  /\ UNCHANGED lastClaimed

\* A claim counts an attempt and leaves the retry time as it was.
RowClaimed(l) ==
  /\ countRow[l].status = "pending"
  /\ countRow[l].next <= countClock
  /\ countRow[l].tries < ClaimAttempts
  /\ RowBecomes(l, [countRow[l] EXCEPT !.tries = @ + 1])
  /\ lastClaimed' = IF countStep = "exhausted" THEN lastClaimed \cup {l} ELSE lastClaimed
  /\ UNCHANGED newcomers

RowReleased(l) ==
  /\ countRow[l].status = "pending" /\ countRow[l].tries > 0
  /\ RowBecomes(l, [countRow[l] EXCEPT !.next = countClock + BackoffTime])
  /\ UNCHANGED moved

RowSettled(l) ==
  /\ countRow[l].status = "pending" /\ countRow[l].tries > 0
  /\ RowBecomes(l, [countRow[l] EXCEPT !.status = "settled", !.next = 0])
  /\ UNCHANGED moved

-----------------------------------------------------------------------------
(* fetch_classification_queue_metrics.                                     *)

CountedPending(row) == row.status = "pending"

\* Mutated form: the filter on the attempts is missing.
CountedWaiting(row) == CountedPending(row) /\ row.next > countNow

\* below_max_attempts and backoff_after
CountedBackoff(row) ==
  CountedPending(row) /\ row.tries < CountAttempts /\ row.next > countNow

CountedExhausted(row) == CountedPending(row) /\ row.tries >= CountAttempts

Count(counted(_)) == Cardinality({l \in QueueLeads : counted(countRow[l])})

CountPending ==
  /\ countStep = "none"
  /\ countStep' = "backoff"
  /\ \E read \in 0..countClock : countNow' = read
  /\ counts' = [counts EXCEPT !.pending = Count(CountedPending)]
  /\ UNCHANGED <<countClock, countRow, moved>>

CountBackoff ==
  /\ countStep = "backoff"
  /\ countStep' = "exhausted"
  /\ counts' = [counts EXCEPT !.backoff = Count(CountedBackoff)]
  /\ UNCHANGED <<countClock, countRow, countNow, moved>>

CountExhausted ==
  /\ countStep = "exhausted"
  /\ countStep' = "done"
  /\ counts' = [counts EXCEPT !.exhausted = Count(CountedExhausted)]
  /\ UNCHANGED <<countClock, countRow, countNow, moved>>

\* LeadRepositoryLookupError: nothing is reported.
CountFails ==
  /\ countStep \in {"none", "backoff", "exhausted"}
  /\ countStep' = "failed"
  /\ UNCHANGED <<countClock, countRow, countNow, counts, moved>>

MetricsNext ==
  \/ CountTick
  \/ \E l \in QueueLeads :
       RowArrives(l) \/ RowClaimed(l) \/ RowReleased(l) \/ RowSettled(l)
  \/ CountPending \/ CountBackoff \/ CountExhausted \/ CountFails

MetricsSpec == MetricsInit /\ [][MetricsNext]_countVars

-----------------------------------------------------------------------------
(* Properties.                                                             *)

\* Leads in backoff and exhausted ones are different leads, and pending ones, as far
\* as three counts at three moments can tell: the report exceeds its own pending_count
\* by no more than the leads stored after the first count and those whose last
\* attempt began between the last two.
MetricsOffByMovers ==
  countStep = "done" =>
    counts.backoff + counts.exhausted
      <= counts.pending + Cardinality(newcomers) + Cardinality(lastClaimed)
=============================================================================
