------------------------ MODULE ClassificationQueue -------------------------
(***************************************************************************)
(* The classification queue: the classification columns of the leads       *)
(* table, the claim RPC, and the worker batches that claim leads, call the *)
(* model for each of them and write the outcome back under a claim-owner   *)
(* filter.  The model's client repeats a failed request by itself.         *)
(* Requests to the database can be lost, answered too late or executed     *)
(* after the worker gave up on them; a worker can crash anywhere and comes *)
(* back under the same worker id.                                          *)
(*                                                                         *)
(* Time is relative.  A claim has an age, a retry has a remaining wait,    *)
(* and Tick moves all of them; ages stop at the first value at which no    *)
(* comparison of the code can tell them from a greater one, so time needs  *)
(* no bound.                                                               *)
(***************************************************************************)
EXTENDS Naturals, FiniteSets

CONSTANTS
  Leads,         \* rows of the table; the number is the rank of created_at
  Workers,       \* worker ids
  NoWorker,      \* NULL in classification_claimed_by
  NoLead,        \* a worker that is between two leads
  BatchLimit,    \* p_batch_limit
  ClaimTimeout,  \* p_claim_timeout_seconds, in ticks
  RetryAfter,    \* retry_after_seconds, in ticks
  MaxAttempts,   \* p_max_attempts
  ModelRetries,  \* max_retries of the OpenAI client, which the code leaves at its default
  MaxLate        \* bound: requests in flight that no worker waits for

ASSUME LeadsAssumption == Leads \subseteq Nat /\ NoLead \notin Leads
ASSUME WorkersAssumption == NoWorker \notin Workers /\ IsFiniteSet(Workers)
ASSUME LimitsAssumption ==
  /\ BatchLimit \in 1..100
  /\ ClaimTimeout \in Nat \ {0}
  /\ RetryAfter \in Nat
  /\ MaxAttempts \in Nat \ {0}
  /\ ModelRetries \in Nat
  /\ MaxLate \in Nat

VARIABLES
  \* the leads table
  status,    \* classification_status, "absent" before the insert
  owner,     \* classification_claimed_by
  claimAge,  \* NOW() - classification_claimed_at
  attempts,  \* classification_attempt_count
  wait,      \* next_classification_attempt_at - NOW(), 0 when due or NULL
  \* the workers
  phase,     \* where process_pending_leads_batch stands
  todo,      \* the claimed leads of the batch that are not finished
  cur,       \* the lead being worked on
  sends,     \* requests sent in the call to the model that is going on
  batchAge,  \* time since the batch read the clock (completed_at)
  \* the network
  late,      \* writes nobody waits for any more that may still be executed
  \* history, read by no action of the system
  leaseAge,  \* time since the worker's batch was claimed
  disowned,  \* leads of the batch whose claim a late write has ended
  calls,     \* requests sent to the model, per lead
  saved      \* results reported as SAVED, per lead

table == <<status, owner, claimAge, attempts, wait>>
worker == <<phase, todo, cur, sends, batchAge>>
history == <<leaseAge, disowned, calls, saved>>
vars == <<status, owner, claimAge, attempts, wait, phase, todo, cur, sends, batchAge,
          late, leaseAge, disowned, calls, saved>>

Outcomes == {"classified", "failed"}
Writes == Outcomes \cup {"release"}
Phases == {"idle", "claiming", "between", "calling"} \cup Writes
Requests == [worker : Workers, lead : Leads, kind : Writes, wait : 0..RetryAfter]

TypeOK ==
  /\ status \in [Leads -> {"absent", "pending"} \cup Outcomes]
  /\ owner \in [Leads -> Workers \cup {NoWorker}]
  /\ claimAge \in [Leads -> 0..(ClaimTimeout + 1)]
  /\ attempts \in [Leads -> 0..MaxAttempts]
  /\ wait \in [Leads -> 0..RetryAfter]
  /\ phase \in [Workers -> Phases]
  /\ todo \in [Workers -> SUBSET Leads]
  /\ cur \in [Workers -> Leads \cup {NoLead}]
  /\ sends \in [Workers -> 0..(ModelRetries + 1)]
  /\ batchAge \in [Workers -> 0..RetryAfter]
  /\ late \in SUBSET Requests
  /\ leaseAge \in [Workers -> 0..(ClaimTimeout + 1)]
  /\ disowned \in [Workers -> SUBSET Leads]
  /\ calls \in [Leads -> Nat]
  /\ saved \in [Leads -> Nat]

Init ==
  /\ status = [l \in Leads |-> "absent"]
  /\ owner = [l \in Leads |-> NoWorker]
  /\ claimAge = [l \in Leads |-> 0]
  /\ attempts = [l \in Leads |-> 0]
  /\ wait = [l \in Leads |-> 0]
  /\ phase = [w \in Workers |-> "idle"]
  /\ todo = [w \in Workers |-> {}]
  /\ cur = [w \in Workers |-> NoLead]
  /\ sends = [w \in Workers |-> 0]
  /\ batchAge = [w \in Workers |-> 0]
  /\ late = {}
  /\ leaseAge = [w \in Workers |-> 0]
  /\ disowned = [w \in Workers |-> {}]
  /\ calls = [l \in Leads |-> 0]
  /\ saved = [l \in Leads |-> 0]

-----------------------------------------------------------------------------
(* Time and intake.                                                        *)

Older(age, cap) == IF age < cap THEN age + 1 ELSE cap
Sooner(left) == IF left > 0 THEN left - 1 ELSE 0

\* Ages of things that are not there stay 0.
Tick ==
  /\ claimAge' = [l \in Leads |-> IF owner[l] = NoWorker THEN 0
                                  ELSE Older(claimAge[l], ClaimTimeout + 1)]
  /\ wait' = [l \in Leads |-> Sooner(wait[l])]
  /\ batchAge' = [w \in Workers |-> IF phase[w] = "idle" THEN 0
                                    ELSE Older(batchAge[w], RetryAfter)]
  /\ leaseAge' = [w \in Workers |-> IF todo[w] = {} THEN 0
                                    ELSE Older(leaseAge[w], ClaimTimeout + 1)]
  /\ late' = {[r EXCEPT !.wait = Sooner(r.wait)] : r \in late}
  /\ UNCHANGED <<status, owner, attempts, phase, todo, cur, sends, disowned, calls,
                 saved>>

\* insert_lead: the schema's defaults make the row claimable at once.
Arrive(l) ==
  /\ status[l] = "absent"
  /\ status' = [status EXCEPT ![l] = "pending"]
  /\ UNCHANGED <<owner, claimAge, attempts, wait, worker, late, history>>

-----------------------------------------------------------------------------
(* The claim RPC.                                                          *)

Stale(l) == claimAge[l] > ClaimTimeout

\* Mutated forms of the candidate query: no staleness, no claim condition, no
\* attempt limit, no status condition.
CandidateNeverStale(l) ==
  status[l] = "pending" /\ attempts[l] < MaxAttempts /\ wait[l] = 0 /\ owner[l] = NoWorker
CandidateClaimed(l) ==
  status[l] = "pending" /\ attempts[l] < MaxAttempts /\ wait[l] = 0
CandidateExhausted(l) ==
  status[l] = "pending" /\ wait[l] = 0 /\ (owner[l] = NoWorker \/ Stale(l))
CandidateSettled(l) ==
  /\ status[l] # "absent"
  /\ attempts[l] < MaxAttempts
  /\ wait[l] = 0
  /\ owner[l] = NoWorker \/ Stale(l)

Candidate(l) ==
  /\ status[l] = "pending"
  /\ attempts[l] < MaxAttempts
  /\ wait[l] = 0
  /\ owner[l] = NoWorker \/ Stale(l)

\* The request a worker in a writing phase has sent.  The retry time of a
\* release counts from the start of the batch.
Request(w) ==
  [worker |-> w, lead |-> cur[w], kind |-> phase[w],
   wait |-> IF phase[w] = "release" THEN RetryAfter - batchAge[w] ELSE 0]

\* Rows another transaction may be holding a lock on at this moment.
RowsInFlight ==
  {cur[w] : w \in {v \in Workers : phase[v] \in Writes}} \cup {r.lead : r \in late}

\* ORDER BY created_at LIMIT p_batch_limit over the rows that are available.
OldestFirst(batch, available) ==
  /\ batch \subseteq available
  /\ \A l \in batch, m \in available \ batch : l < m
  /\ \/ batch = available
     \/ Cardinality(batch) = BatchLimit
  /\ Cardinality(batch) <= BatchLimit

\* FOR UPDATE SKIP LOCKED: the claim passes over some of the rows in flight.
Claimable(batch) ==
  \E skipped \in SUBSET RowsInFlight :
    OldestFirst(batch, {l \in Leads : Candidate(l)} \ skipped)

\* Mutated form: taking over a stale claim is not counted as an attempt.
TakeClaimsUncounted(w, batch) ==
  /\ owner' = [l \in Leads |-> IF l \in batch THEN w ELSE owner[l]]
  /\ claimAge' = [l \in Leads |-> IF l \in batch THEN 0 ELSE claimAge[l]]
  /\ attempts' = [l \in Leads |-> IF l \in batch /\ owner[l] = NoWorker
                                  THEN attempts[l] + 1 ELSE attempts[l]]
  /\ UNCHANGED <<status, wait>>

TakeClaims(w, batch) ==
  /\ owner' = [l \in Leads |-> IF l \in batch THEN w ELSE owner[l]]
  /\ claimAge' = [l \in Leads |-> IF l \in batch THEN 0 ELSE claimAge[l]]
  /\ attempts' = [l \in Leads |-> IF l \in batch THEN attempts[l] + 1 ELSE attempts[l]]
  /\ UNCHANGED <<status, wait>>

-----------------------------------------------------------------------------
(* The two writes a worker makes, as the table sees them.                  *)

\* Mutated forms: the WHERE clause without the claim owner, and with the id only.
PendingOnly(r) == status[r.lead] = "pending"
AnyRow(r) == status[r.lead] # "absent"

\* The WHERE clause of update_lead_classification and of
\* release_lead_classification_claim.
OwnedAndPending(r) == status[r.lead] = "pending" /\ owner[r.lead] = r.worker

\* Mutated form: a terminal write that leaves the claim on the row.
ExecuteKeepingClaim(r) ==
  IF OwnedAndPending(r)
  THEN /\ status' = [status EXCEPT ![r.lead] = IF r.kind = "release" THEN @ ELSE r.kind]
       /\ owner' = [owner EXCEPT ![r.lead] = IF r.kind = "release" THEN NoWorker ELSE @]
       /\ claimAge' = [claimAge EXCEPT ![r.lead] = IF r.kind = "release" THEN 0 ELSE @]
       /\ wait' = [wait EXCEPT ![r.lead] = r.wait]
       /\ UNCHANGED attempts
  ELSE UNCHANGED table

\* Both writes clear the claim; a terminal one also clears the retry time.
Execute(r) ==
  IF OwnedAndPending(r)
  THEN /\ status' = [status EXCEPT ![r.lead] = IF r.kind = "release" THEN @ ELSE r.kind]
       /\ owner' = [owner EXCEPT ![r.lead] = NoWorker]
       /\ claimAge' = [claimAge EXCEPT ![r.lead] = 0]
       /\ wait' = [wait EXCEPT ![r.lead] = r.wait]
       /\ UNCHANGED attempts
  ELSE UNCHANGED table

-----------------------------------------------------------------------------
(* process_pending_leads_batch.                                            *)

\* completed_at is read here, before the claim.
StartBatch(w) ==
  /\ phase[w] = "idle"
  /\ phase' = [phase EXCEPT ![w] = "claiming"]
  /\ batchAge' = [batchAge EXCEPT ![w] = 0]
  /\ UNCHANGED <<table, todo, cur, sends, late, history>>

\* A worker with nothing left to do has finished its batch.
Continue(w, rest) ==
  /\ phase' = [phase EXCEPT ![w] = IF rest = {} THEN "idle" ELSE "between"]
  /\ batchAge' = [batchAge EXCEPT ![w] = IF rest = {} THEN 0 ELSE @]
  /\ leaseAge' = [leaseAge EXCEPT ![w] = IF rest = {} THEN 0 ELSE @]
  /\ disowned' = [disowned EXCEPT ![w] = @ \cap rest]
  /\ todo' = [todo EXCEPT ![w] = rest]
  /\ cur' = [cur EXCEPT ![w] = NoLead]
  /\ sends' = [sends EXCEPT ![w] = 0]

Claim(w) ==
  /\ phase[w] = "claiming"
  /\ \E batch \in SUBSET Leads :
       /\ Claimable(batch)
       /\ TakeClaims(w, batch)
       /\ Continue(w, batch)
  /\ UNCHANGED <<late, calls, saved>>

\* The RPC commits but its answer does not arrive: LeadClassificationBatchFetchFailed.
ClaimReplyLost(w) ==
  /\ phase[w] = "claiming"
  /\ \E batch \in SUBSET Leads : Claimable(batch) /\ TakeClaims(w, batch)
  /\ Continue(w, {})
  /\ UNCHANGED <<late, calls, saved>>

ClaimFails(w) ==
  /\ phase[w] = "claiming"
  /\ Continue(w, {})
  /\ UNCHANGED <<table, late, calls, saved>>

\* The claim is not looked at again before the model is called.
CallModel(w, l) ==
  /\ phase[w] = "between"
  /\ l \in todo[w]
  /\ phase' = [phase EXCEPT ![w] = "calling"]
  /\ cur' = [cur EXCEPT ![w] = l]
  /\ sends' = [sends EXCEPT ![w] = 1]
  /\ calls' = [calls EXCEPT ![l] = @ + 1]
  /\ UNCHANGED <<table, todo, batchAge, late, leaseAge, disowned, saved>>

\* The client sends its request again after a timeout, a connection error, a 429 or
\* a 5xx.  The worker does not see it, and nothing is counted in the table.
Resend(w) ==
  /\ phase[w] = "calling"
  /\ sends[w] <= ModelRetries
  /\ sends' = [sends EXCEPT ![w] = @ + 1]
  /\ calls' = [calls EXCEPT ![cur[w]] = @ + 1]
  /\ UNCHANGED <<table, phase, todo, cur, batchAge, late, leaseAge, disowned, saved>>

\* A blank raw_message fails without a call.
RejectBlank(w, l) ==
  /\ phase[w] = "between"
  /\ l \in todo[w]
  /\ phase' = [phase EXCEPT ![w] = "failed"]
  /\ cur' = [cur EXCEPT ![w] = l]
  /\ UNCHANGED <<table, todo, sends, batchAge, late, history>>

\* The answer parses to a classification, or not: "failed" is terminal too.
ModelAnswers(w) ==
  /\ phase[w] = "calling"
  /\ \E outcome \in Outcomes : phase' = [phase EXCEPT ![w] = outcome]
  /\ sends' = [sends EXCEPT ![w] = 0]
  /\ UNCHANGED <<table, todo, cur, batchAge, late, history>>

ModelRaises(w) ==
  /\ phase[w] = "calling"
  /\ phase' = [phase EXCEPT ![w] = "release"]
  /\ sends' = [sends EXCEPT ![w] = 0]
  /\ UNCHANGED <<table, todo, cur, batchAge, late, history>>

\* The write is executed and answered: SAVED, SKIPPED on a conflict, or the
\* retry is scheduled.
Write(w) ==
  /\ phase[w] \in Writes
  /\ Execute(Request(w))
  /\ saved' = [saved EXCEPT ![cur[w]] =
                 IF phase[w] \in Outcomes /\ OwnedAndPending(Request(w)) THEN @ + 1 ELSE @]
  /\ Continue(w, todo[w] \ {cur[w]})
  /\ UNCHANGED <<late, calls>>

\* The three ways to end up in LeadClassificationUpdateFailed.  The worker
\* reports an error and goes on; it does not release the claim.
WriteReplyLost(w) ==
  /\ phase[w] \in Writes
  /\ Execute(Request(w))
  /\ Continue(w, todo[w] \ {cur[w]})
  /\ UNCHANGED <<late, calls, saved>>

WriteDropped(w) ==
  /\ phase[w] \in Writes
  /\ Continue(w, todo[w] \ {cur[w]})
  /\ UNCHANGED <<table, late, calls, saved>>

WriteDelayed(w) ==
  /\ phase[w] \in Writes
  /\ Cardinality(late) < MaxLate
  /\ late' = late \cup {Request(w)}
  /\ Continue(w, todo[w] \ {cur[w]})
  /\ UNCHANGED <<table, calls, saved>>

-----------------------------------------------------------------------------
(* Crashes, and writes that outlive the worker that sent them.             *)

\* The claims stay in the table; a write on its way may still be executed.
Crash(w) ==
  /\ phase[w] # "idle"
  /\ Continue(w, {})
  /\ \/ late' = late
     \/ /\ phase[w] \in Writes
        /\ Cardinality(late) < MaxLate
        /\ late' = late \cup {Request(w)}
  /\ UNCHANGED <<table, calls, saved>>

LateWrite(r) ==
  /\ r \in late
  /\ late' = late \ {r}
  /\ Execute(r)
  /\ disowned' = [disowned EXCEPT ![r.worker] =
                    IF OwnedAndPending(r) THEN @ \cup ({r.lead} \cap todo[r.worker]) ELSE @]
  /\ UNCHANGED <<worker, leaseAge, calls, saved>>

LateDropped(r) ==
  /\ r \in late
  /\ late' = late \ {r}
  /\ UNCHANGED <<table, worker, history>>

WorkerStep(w) ==
  \/ StartBatch(w)
  \/ Claim(w) \/ ClaimReplyLost(w) \/ ClaimFails(w)
  \/ \E l \in Leads : CallModel(w, l) \/ RejectBlank(w, l)
  \/ Resend(w) \/ ModelAnswers(w) \/ ModelRaises(w)
  \/ Write(w) \/ WriteReplyLost(w) \/ WriteDropped(w) \/ WriteDelayed(w)
  \/ Crash(w)

Next ==
  \/ Tick
  \/ \E l \in Leads : Arrive(l)
  \/ \E w \in Workers : WorkerStep(w)
  \/ \E r \in late : LateWrite(r) \/ LateDropped(r)

Spec == Init /\ [][Next]_vars

(***************************************************************************)
(* Time passes; a daemon loops forever; the await on the model and on the  *)
(* database ends, one way or the other (both clients time out); a process  *)
(* that is restarted again and again does complete a claim again and       *)
(* again (strong fairness).  Nothing is assumed of intake, of crashes, of  *)
(* a write's success or of the model's answer.                             *)
(***************************************************************************)
Fairness ==
  /\ WF_vars(Tick)
  /\ WF_vars(\E r \in late : LateWrite(r) \/ LateDropped(r))
  /\ \A w \in Workers :
       /\ WF_vars(StartBatch(w))
       /\ SF_vars(Claim(w))
       /\ WF_vars(\E l \in Leads : CallModel(w, l) \/ RejectBlank(w, l))
       /\ WF_vars(ModelAnswers(w) \/ ModelRaises(w))
       /\ WF_vars(Write(w) \/ WriteReplyLost(w) \/ WriteDropped(w))

FairSpec == Spec /\ Fairness

-----------------------------------------------------------------------------
(* Properties.                                                             *)

WithinLease(w, l) ==
  l \in todo[w] /\ leaseAge[w] <= ClaimTimeout /\ l \notin disowned[w]

\* A worker that has not outlived its claim timeout still owns every lead of
\* its batch: no other worker's claim, write or crash can take one away.  The
\* one exception the code leaves open is a delayed write of the same worker
\* id, sent before a restart or a timeout (disowned).
LeaseHonoured ==
  \A w \in Workers, l \in Leads :
    WithinLease(w, l) => status[l] = "pending" /\ owner[l] = w /\ ~Stale(l)

\* Two workers never both work on a lead within their claim timeouts.
LeaseExclusion ==
  \A v, w \in Workers, l \in Leads : WithinLease(v, l) /\ WithinLease(w, l) => v = w

\* The retry budget is spent before the money is: every request sent to the model,
\* the client's own repetitions included, is covered by an attempt already counted in
\* the table, whatever is lost or crashes in between.  A lead is never sent to the
\* model more than (1 + ModelRetries) * MaxAttempts times; MaxAttempts alone, which the
\* daemon's option names, is no bound on the requests.
CallsArePaidFor == \A l \in Leads : calls[l] <= (1 + ModelRetries) * attempts[l]

\* At most one worker, once, reports a lead as SAVED, and only if it is settled.
SavedOnce ==
  \A l \in Leads : saved[l] <= 1 /\ (saved[l] = 1 => status[l] \in Outcomes)

\* A claim belongs to a pending row: no write leaves a settled row claimed or
\* scheduled for a retry (what the check constraints of migration 005 demand).
ClaimsOnlyPending ==
  \A l \in Leads : owner[l] # NoWorker \/ wait[l] > 0 => status[l] = "pending"

\* A settled lead is never touched again, not by a stale worker, a reclaiming
\* worker or a delayed write.
KeepsSettled ==
  \A l \in Leads : status[l] \in Outcomes =>
    /\ status'[l] = status[l]
    /\ attempts'[l] = attempts[l]
    /\ owner'[l] = NoWorker
SettledIsFinal == [][KeepsSettled]_vars

\* The queue implements the abstract lease.
Lease == INSTANCE LeadLease WITH
  holder <- owner,
  expired <- {l \in Leads : Stale(l)}
LeaseSpec == Lease!LeaseSpec

\* Every lead is settled or has used up its attempts: no crash, lost reply or
\* abandoned claim leaves it waiting for ever with attempts to spare.
EveryLeadResolved ==
  \A l \in Leads :
    status[l] = "pending" ~> (status[l] \in Outcomes \/ attempts[l] = MaxAttempts)

\* "Seconds before retrying after a client/OpenAI failure" (the daemon's help for
\* --retry-after-seconds): a lead that its worker gives back after a failed call
\* waits RetryAfter from then on.
RetryWaitsFromFailure ==
  [][\A w \in Workers :
       /\ phase[w] = "release"
       /\ phase'[w] # "release"
       /\ owner[cur[w]] = w
       /\ owner'[cur[w]] = NoWorker
       => wait'[cur[w]] = RetryAfter]_vars
=============================================================================
