------------------------------- MODULE CrmSync -------------------------------
(***************************************************************************)
(* Delivery of classified leads to the CRM: the integration columns of the *)
(* leads table, the retry-claim RPC, the retry worker's batches, and the   *)
(* API's manual sync, which writes the same columns without looking at     *)
(* claims.  As in ClassificationQueue, time is relative, requests to the   *)
(* database get lost or executed late, and workers crash and come back     *)
(* under the same id.                                                      *)
(***************************************************************************)
EXTENDS Integers, FiniteSets, RetryBackoff

CONSTANTS
  Leads,         \* rows of the leads table
  Workers,       \* retry worker ids
  Admins,        \* slots for concurrent POST /leads/{id}/sync requests
  NoWorker,      \* NULL in integration_claimed_by, and "no claim owner filter"
  NoLead,        \* no lead in hand
  NoRequest,     \* no write in hand
  BatchLimit,    \* p_batch_limit
  ClaimTimeout,  \* p_claim_timeout_seconds, in ticks
  RetryBase,     \* retry_base_seconds, in ticks
  RetryMax,      \* retry_max_seconds, in ticks
  MaxAttempts,   \* p_max_attempts
  ReturnedColumns,  \* what the installed claim RPC returns; migration 007: {"lead"}
  MaxLate,       \* bound: writes in flight that nobody waits for
  MaxManual      \* bound: manual syncs over a behaviour

ASSUME NamesAssumption ==
  /\ NoLead \notin Leads
  /\ NoWorker \notin Workers
  /\ IsFiniteSet(Workers)
  /\ Workers \cap Admins = {}
ASSUME LimitsAssumption ==
  /\ BatchLimit \in 1..100
  /\ ClaimTimeout \in Nat \ {0}
  /\ RetryBase \in Nat \ {0}
  /\ RetryMax \in Nat /\ RetryMax >= RetryBase
  /\ MaxAttempts \in Nat \ {0}
  /\ MaxLate \in Nat /\ MaxManual \in Nat

VARIABLES
  \* the leads table
  classified,  \* leads whose classification_status is 'classified'
  sync,        \* integration status, a failed one split as crm_retry_state does
  owner,       \* integration_claimed_by
  claimAge,    \* NOW() - integration_claimed_at
  count,       \* integration_retry_attempt_count
  wait,        \* integration_next_attempt_at - NOW(), 0 when due or NULL
  \* the retry workers and the API
  phase,       \* where the worker's batch or the manual sync stands
  cur,         \* the lead in hand
  todo,        \* workers: claimed leads that are not finished
  seen,        \* workers: the attempt count a lead was claimed with
  request,     \* the write being sent
  \* the network
  late,        \* writes nobody waits for any more that may still be executed
  \* history and bounds
  leaseAge,    \* time since the worker's batch was claimed
  disowned,    \* leads whose claim a manual sync or a late write has ended
  credit,      \* automatic deliveries the manual syncs have paid for, not yet made
  manual       \* manual syncs so far

table == <<classified, sync, owner, claimAge, count, wait>>
procs == <<phase, cur, todo, seen, request>>
history == <<leaseAge, disowned, credit, manual>>
vars == <<classified, sync, owner, claimAge, count, wait, phase, cur, todo, seen,
          request, late, leaseAge, disowned, credit, manual>>

\* 'failed' with a next attempt is "scheduled"; without one it is "exhausted"
\* or "manual", by its error.
Results == {"synced", "scheduled", "manual", "exhausted"}
Procs == Workers \cup Admins
Requests == [from : Workers \cup {NoWorker}, lead : Leads, result : Results, wait : 0..RetryMax]

TypeOK ==
  /\ classified \in SUBSET Leads
  /\ sync \in [Leads -> Results \cup {"pending"}]
  /\ owner \in [Leads -> Workers \cup {NoWorker}]
  /\ claimAge \in [Leads -> 0..(ClaimTimeout + 1)]
  /\ count \in [Leads -> 0..MaxAttempts]
  /\ wait \in [Leads -> 0..RetryMax]
  /\ phase \in [Procs -> {"idle", "claiming", "between", "sending", "writing"}]
  /\ cur \in [Procs -> Leads \cup {NoLead}]
  /\ todo \in [Workers -> SUBSET Leads]
  /\ seen \in [Workers -> [Leads -> 0..MaxAttempts]]
  /\ request \in [Procs -> Requests \cup {NoRequest}]
  /\ late \in SUBSET Requests
  /\ leaseAge \in [Workers -> 0..(ClaimTimeout + 1)]
  /\ disowned \in [Workers -> SUBSET Leads]
  /\ credit \in [Leads -> Int]
  /\ manual \in 0..MaxManual

Init ==
  /\ classified = {}
  /\ sync = [l \in Leads |-> "pending"]
  /\ owner = [l \in Leads |-> NoWorker]
  /\ claimAge = [l \in Leads |-> 0]
  /\ count = [l \in Leads |-> 0]
  /\ wait = [l \in Leads |-> 0]
  /\ phase = [p \in Procs |-> "idle"]
  /\ cur = [p \in Procs |-> NoLead]
  /\ todo = [w \in Workers |-> {}]
  /\ seen = [w \in Workers |-> [l \in Leads |-> 0]]
  /\ request = [p \in Procs |-> NoRequest]
  /\ late = {}
  /\ leaseAge = [w \in Workers |-> 0]
  /\ disowned = [w \in Workers |-> {}]
  /\ credit = [l \in Leads |-> 0]
  /\ manual = 0

-----------------------------------------------------------------------------
(* Time, and the classification worker's side of the row.                  *)

Older(age, cap) == IF age < cap THEN age + 1 ELSE cap
Sooner(left) == IF left > 0 THEN left - 1 ELSE 0
Aged(r) == [r EXCEPT !.wait = Sooner(r.wait)]

Tick ==
  /\ claimAge' = [l \in Leads |-> IF owner[l] = NoWorker THEN 0
                                  ELSE Older(claimAge[l], ClaimTimeout + 1)]
  /\ wait' = [l \in Leads |-> Sooner(wait[l])]
  /\ leaseAge' = [w \in Workers |-> IF todo[w] = {} THEN 0
                                    ELSE Older(leaseAge[w], ClaimTimeout + 1)]
  /\ request' = [p \in Procs |-> IF request[p] = NoRequest THEN NoRequest
                                 ELSE Aged(request[p])]
  /\ late' = {Aged(r) : r \in late}
  /\ UNCHANGED <<classified, sync, owner, count, phase, cur, todo, seen,
                 disowned, credit, manual>>

Classify(l) ==
  /\ l \notin classified
  /\ classified' = classified \cup {l}
  /\ UNCHANGED <<sync, owner, claimAge, count, wait, procs, late, history>>

-----------------------------------------------------------------------------
(* update_lead_integration_status.                                         *)

\* Mutated form: the worker's writes are filtered by the status, not by the owner.
AppliesByStatus(r) == r.from = NoWorker \/ sync[r.lead] # "pending"

\* A worker's write is filtered by its id, the API's is not.
Applies(r) == r.from = NoWorker \/ owner[r.lead] = r.from

\* Mutated form: a failure keeps the claim on the row.
ExecuteKeepingClaim(r) ==
  IF Applies(r)
  THEN /\ sync' = [sync EXCEPT ![r.lead] = r.result]
       /\ owner' = [owner EXCEPT ![r.lead] = IF r.result = "manual" THEN @ ELSE NoWorker]
       /\ claimAge' = [claimAge EXCEPT ![r.lead] = IF r.result = "manual" THEN @ ELSE 0]
       /\ wait' = [wait EXCEPT ![r.lead] = r.wait]
       /\ count' = [count EXCEPT ![r.lead] = IF r.from = NoWorker THEN 0 ELSE @]
       /\ UNCHANGED classified
  ELSE UNCHANGED table

\* Every write clears the claim; the API's also resets the attempt count.
Execute(r) ==
  IF Applies(r)
  THEN /\ sync' = [sync EXCEPT ![r.lead] = r.result]
       /\ owner' = [owner EXCEPT ![r.lead] = NoWorker]
       /\ claimAge' = [claimAge EXCEPT ![r.lead] = 0]
       /\ wait' = [wait EXCEPT ![r.lead] = r.wait]
       /\ count' = [count EXCEPT ![r.lead] = IF r.from = NoWorker THEN 0 ELSE @]
       /\ UNCHANGED classified
  ELSE UNCHANGED table

\* What a write that its claim's owner did not send in this batch leaves behind.
Remember(r) ==
  /\ disowned' = [w \in Workers |->
                    IF Applies(r) THEN disowned[w] \cup ({r.lead} \cap todo[w])
                    ELSE disowned[w]]
  /\ credit' = [credit EXCEPT ![r.lead] =
                  IF r.from = NoWorker /\ r.result = "scheduled" THEN @ + MaxAttempts ELSE @]

-----------------------------------------------------------------------------
(* claim_due_leads_for_crm_sync.                                           *)

Stale(l) == claimAge[l] > ClaimTimeout
Due(l) == sync[l] = "scheduled" /\ wait[l] = 0 /\ (owner[l] = NoWorker \/ Stale(l))

\* Rows whose last permitted attempt never came back.
Swept(l) == Due(l) /\ count[l] >= MaxAttempts

\* Mutated forms: a claim is not respected, the attempt limit is off by one.
CandidateClaimed(l) ==
  l \in classified /\ sync[l] = "scheduled" /\ wait[l] = 0 /\ count[l] < MaxAttempts
CandidateExhausted(l) == l \in classified /\ Due(l) /\ count[l] <= MaxAttempts

Candidate(l) == l \in classified /\ Due(l) /\ count[l] < MaxAttempts

\* Rows another transaction may be holding a lock on at this moment.
RowsInFlight ==
  {cur[p] : p \in {q \in Procs : phase[q] = "writing"}} \cup {r.lead : r \in late}

\* FOR UPDATE SKIP LOCKED and LIMIT.  Due rows are told apart by their due
\* time, which the model does not keep: any of them may come first.
Claimable(batch) ==
  \E skipped \in SUBSET RowsInFlight :
    LET available == {l \in Leads : Candidate(l)} \ skipped IN
    /\ batch \subseteq available
    /\ batch = available \/ Cardinality(batch) = BatchLimit
    /\ Cardinality(batch) <= BatchLimit

\* Mutated form: taking over a stale claim is not counted as an attempt.
TakeClaimsUncounted(w, batch) ==
  LET touched == batch \cup {l \in Leads : Swept(l)} IN
  /\ sync' = [l \in Leads |-> IF Swept(l) THEN "exhausted" ELSE sync[l]]
  /\ owner' = [l \in Leads |-> IF l \in batch THEN w ELSE IF Swept(l) THEN NoWorker
                               ELSE owner[l]]
  /\ claimAge' = [l \in Leads |-> IF l \in touched THEN 0 ELSE claimAge[l]]
  /\ count' = [l \in Leads |-> IF l \in batch /\ owner[l] = NoWorker THEN count[l] + 1
                               ELSE count[l]]
  /\ UNCHANGED <<classified, wait>>

\* The sweep and the claim are one transaction.
TakeClaims(w, batch) ==
  LET touched == batch \cup {l \in Leads : Swept(l)} IN
  /\ sync' = [l \in Leads |-> IF Swept(l) THEN "exhausted" ELSE sync[l]]
  /\ owner' = [l \in Leads |-> IF l \in batch THEN w ELSE IF Swept(l) THEN NoWorker
                               ELSE owner[l]]
  /\ claimAge' = [l \in Leads |-> IF l \in touched THEN 0 ELSE claimAge[l]]
  /\ count' = [l \in Leads |-> IF l \in batch THEN count[l] + 1 ELSE count[l]]
  /\ UNCHANGED <<classified, wait>>

-----------------------------------------------------------------------------
(* process_due_crm_sync_batch.                                             *)

\* A worker with nothing left to do has finished its batch.
Continue(w, rest) ==
  /\ phase' = [phase EXCEPT ![w] = IF rest = {} THEN "idle" ELSE "between"]
  /\ cur' = [cur EXCEPT ![w] = NoLead]
  /\ request' = [request EXCEPT ![w] = NoRequest]
  /\ todo' = [todo EXCEPT ![w] = rest]

\* The lease's history follows.
Forget(w, rest) ==
  /\ leaseAge' = [leaseAge EXCEPT ![w] = IF rest = {} THEN 0 ELSE @]
  /\ disowned' = [disowned EXCEPT ![w] = @ \cap rest]

Unseen(w, rest) ==
  seen' = [seen EXCEPT ![w] = [l \in Leads |-> IF l \in rest THEN @[l] ELSE 0]]

StartBatch(w) ==
  /\ phase[w] = "idle"
  /\ phase' = [phase EXCEPT ![w] = "claiming"]
  /\ UNCHANGED <<table, cur, todo, seen, request, late, history>>

\* CLAIMED_CRM_LEAD_SELECT_FIELDS, with the columns that migration 007 returns taken
\* together, and the one that it does not.
SelectedColumns == {"lead", "integration_error"}

\* PostgREST refuses to select a column the RPC does not return; nothing is executed.
Answerable == SelectedColumns \subseteq ReturnedColumns

Claim(w) ==
  /\ phase[w] = "claiming"
  /\ Answerable
  /\ \E batch \in SUBSET Leads :
       /\ Claimable(batch)
       /\ TakeClaims(w, batch)
       /\ Continue(w, batch)
       /\ Forget(w, batch)
       /\ seen' = [seen EXCEPT ![w] = [l \in Leads |-> IF l \in batch THEN count[l] + 1 ELSE 0]]
  /\ UNCHANGED <<late, credit, manual>>

\* The RPC commits but its answer is lost, or it fails: CrmSyncBatchFetchFailed.
ClaimFails(w) ==
  /\ phase[w] = "claiming"
  /\ \/ Answerable /\ \E batch \in SUBSET Leads : Claimable(batch) /\ TakeClaims(w, batch)
     \/ UNCHANGED table
  /\ Continue(w, {})
  /\ Forget(w, {})
  /\ Unseen(w, {})
  /\ UNCHANGED <<late, credit, manual>>

\* The claim is not looked at again before the lead is sent.
Send(w, l) ==
  /\ phase[w] = "between"
  /\ l \in todo[w]
  /\ phase' = [phase EXCEPT ![w] = "sending"]
  /\ cur' = [cur EXCEPT ![w] = l]
  /\ credit' = [credit EXCEPT ![l] = @ - 1]
  /\ UNCHANGED <<table, todo, seen, request, late, leaseAge, disowned, manual>>

WriteOf(w, l, result) ==
  [from |-> w, lead |-> l, result |-> result,
   wait |-> IF result = "scheduled" THEN RetryDelay(seen[w][l], RetryBase, RetryMax) ELSE 0]

\* A row that cannot be turned into a lead is not sent: crm_invalid_payload.
RejectRow(w, l) ==
  /\ phase[w] = "between"
  /\ l \in todo[w]
  /\ phase' = [phase EXCEPT ![w] = "writing"]
  /\ cur' = [cur EXCEPT ![w] = l]
  /\ request' = [request EXCEPT ![w] = WriteOf(w, l, "manual")]
  /\ UNCHANGED <<table, todo, seen, late, history>>

\* Mutated form: the attempt limit is off by one.
AfterRetryableEarly(w, l) == IF seen[w][l] + 1 >= MaxAttempts THEN "exhausted" ELSE "scheduled"

\* What becomes of a lead whose delivery may succeed later.
AfterRetryable(w, l) == IF seen[w][l] >= MaxAttempts THEN "exhausted" ELSE "scheduled"

\* The CRM accepts and says so; or it rejects the lead for good; or the outcome
\* is a timeout, a 429 or a 5xx, and nobody knows whether the CRM accepted it.
SendEnds(w) ==
  LET l == cur[w] IN
  /\ phase[w] = "sending"
  /\ \E result \in {"synced", "manual", AfterRetryable(w, l)} :
       /\ request' = [request EXCEPT ![w] = WriteOf(w, l, result)]
  /\ phase' = [phase EXCEPT ![w] = "writing"]
  /\ UNCHANGED <<table, cur, todo, seen, late, history>>

Done(w) ==
  LET rest == todo[w] \ {cur[w]} IN
  Continue(w, rest) /\ Forget(w, rest) /\ Unseen(w, rest)

\* Executed and answered, or executed and the answer lost: the batch goes on.
Write(w) ==
  /\ phase[w] = "writing"
  /\ Execute(request[w])
  /\ Done(w)
  /\ UNCHANGED <<late, credit, manual>>

\* Not executed, or not yet: an error is reported and the claim stays.
WriteFails(w) ==
  /\ phase[w] = "writing"
  /\ \/ late' = late
     \/ Cardinality(late) < MaxLate /\ late' = late \cup {request[w]}
  /\ Done(w)
  /\ UNCHANGED <<table, credit, manual>>

Crash(w) ==
  /\ phase[w] # "idle"
  /\ \/ late' = late
     \/ /\ phase[w] = "writing"
        /\ Cardinality(late) < MaxLate
        /\ late' = late \cup {request[w]}
  /\ Continue(w, {}) /\ Forget(w, {}) /\ Unseen(w, {})
  /\ UNCHANGED <<table, credit, manual>>

-----------------------------------------------------------------------------
(* sync_lead_to_crm: look up, dispatch, record.                            *)

ApiIdle(a) ==
  /\ phase' = [phase EXCEPT ![a] = "idle"]
  /\ cur' = [cur EXCEPT ![a] = NoLead]
  /\ request' = [request EXCEPT ![a] = NoRequest]

\* A lead that is not classified is answered with 409 and changes nothing.
ApiSync(a, l) ==
  /\ phase[a] = "idle"
  /\ l \in classified
  /\ manual < MaxManual
  /\ manual' = manual + 1
  /\ phase' = [phase EXCEPT ![a] = "sending"]
  /\ cur' = [cur EXCEPT ![a] = l]
  /\ UNCHANGED <<table, todo, seen, request, late, leaseAge, disowned, credit>>

\* No destination is configured: 503, and nothing is recorded.
ApiNotConfigured(a) ==
  /\ phase[a] = "sending"
  /\ ApiIdle(a)
  /\ UNCHANGED <<table, todo, seen, late, history>>

ApiSendEnds(a) ==
  LET l == cur[a] IN
  /\ phase[a] = "sending"
  /\ \E result \in {"synced", "scheduled", "manual"} :
       /\ request' = [request EXCEPT ![a] =
                        [from |-> NoWorker, lead |-> l, result |-> result,
                         wait |-> IF result = "scheduled" THEN RetryBase ELSE 0]]
  /\ phase' = [phase EXCEPT ![a] = "writing"]
  /\ UNCHANGED <<table, cur, todo, seen, late, history>>

ApiWrite(a) ==
  /\ phase[a] = "writing"
  /\ Execute(request[a])
  /\ Remember(request[a])
  /\ ApiIdle(a)
  /\ UNCHANGED <<todo, seen, late, leaseAge, manual>>

\* The record fails (503) or the API process dies with it on the way.
ApiFails(a) ==
  /\ phase[a] \in {"sending", "writing"}
  /\ \/ late' = late
     \/ /\ phase[a] = "writing"
        /\ Cardinality(late) < MaxLate
        /\ late' = late \cup {request[a]}
  /\ ApiIdle(a)
  /\ UNCHANGED <<table, todo, seen, history>>

-----------------------------------------------------------------------------

LateWrite(r) ==
  /\ r \in late
  /\ late' = late \ {r}
  /\ Execute(r)
  /\ Remember(r)
  /\ UNCHANGED <<procs, leaseAge, manual>>

LateDropped(r) ==
  /\ r \in late
  /\ late' = late \ {r}
  /\ UNCHANGED <<table, procs, history>>

WorkerStep(w) ==
  \/ StartBatch(w) \/ Claim(w) \/ ClaimFails(w)
  \/ \E l \in Leads : Send(w, l) \/ RejectRow(w, l)
  \/ SendEnds(w)
  \/ Write(w) \/ WriteFails(w)
  \/ Crash(w)

ApiStep(a) ==
  \/ \E l \in Leads : ApiSync(a, l)
  \/ ApiNotConfigured(a) \/ ApiSendEnds(a)
  \/ ApiWrite(a) \/ ApiFails(a)

Next ==
  \/ Tick
  \/ \E l \in Leads : Classify(l)
  \/ \E w \in Workers : WorkerStep(w)
  \/ \E a \in Admins : ApiStep(a)
  \/ \E r \in late : LateWrite(r) \/ LateDropped(r)

Spec == Init /\ [][Next]_vars

(***************************************************************************)
(* As in ClassificationQueue: time passes, the daemon loops, awaits end,   *)
(* and a worker that keeps being restarted keeps completing claims.        *)
(***************************************************************************)
Fairness ==
  /\ WF_vars(Tick)
  /\ WF_vars(\E r \in late : LateWrite(r) \/ LateDropped(r))
  /\ \A a \in Admins :
       /\ WF_vars(ApiSendEnds(a) \/ ApiNotConfigured(a) \/ ApiWrite(a) \/ ApiFails(a))
  /\ \A w \in Workers :
       /\ WF_vars(StartBatch(w))
       /\ SF_vars(Claim(w))
       /\ WF_vars(Claim(w) \/ ClaimFails(w))
       /\ WF_vars(\E l \in Leads : Send(w, l) \/ RejectRow(w, l))
       /\ WF_vars(SendEnds(w) \/ Write(w) \/ WriteFails(w))

FairSpec == Spec /\ Fairness

-----------------------------------------------------------------------------
(* Properties.                                                             *)

WithinLease(w, l) ==
  l \in todo[w] /\ leaseAge[w] <= ClaimTimeout /\ l \notin disowned[w]

\* A worker within its claim timeout owns every lead of its batch, unless a
\* manual sync, or a late write of its own id, has ended the claim.
LeaseHonoured ==
  \A w \in Workers, l \in Leads :
    WithinLease(w, l) => sync[l] = "scheduled" /\ owner[l] = w /\ ~Stale(l)

\* Every manual sync that fails retryably buys MaxAttempts automatic
\* deliveries and no more, whatever is lost, reclaimed or restarted.
RetriesAreBought == \A l \in Leads : credit[l] >= 0

\* A claim belongs to a row that is scheduled (migrations 007 and 008 demand at
\* least a failed one): no write leaves a claim behind on a row that the sweep
\* and the claim query will never look at again.
ClaimsOnlyScheduled == \A l \in Leads : owner[l] # NoWorker => sync[l] = "scheduled"

\* A worker's stale result never undoes a success: a synced row changes only by
\* a write of the API.
ApiWrites ==
  \/ \E a \in Admins : phase[a] = "writing" /\ phase'[a] = "idle"
  \/ \E r \in late : r.from = NoWorker /\ r \notin late'
SyncedUnlessManual ==
  [][\A l \in Leads : sync[l] = "synced" => sync'[l] = "synced" \/ ApiWrites]_vars

\* A lead is given up only when its attempts are spent: a worker that was
\* overtaken by a manual sync, which starts the count again, cannot exhaust it.
\* A delayed write of an earlier life of the claim's owner still can.
ExhaustedIsSpent ==
  [][\A l \in Leads : sync'[l] = "exhausted" /\ sync[l] # "exhausted" =>
       \/ count[l] = MaxAttempts
       \/ \E r \in late : r.lead = l /\ r \notin late']_vars

\* "The CRM retry daemon atomically claims classified leads whose
\* integration_next_attempt_at is due" (README): a lead that is due and has attempts
\* left does not wait for ever while workers keep asking for work.
DueIsClaimed ==
  \A l \in Leads : Candidate(l) ~> owner[l] # NoWorker \/ sync[l] # "scheduled"
=============================================================================
