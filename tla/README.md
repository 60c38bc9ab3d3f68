# Lead triage in TLA+

TLA+ models of the lead-triage service, the TLC runs that check them, and TLAPS
proofs of their invariants, their action properties and their refinements. Source paths below are relative to `src/`.

## 1. The system

A lead arrives at the API, is stored once, is classified by a language model in a
worker process, and may be delivered to a CRM. Everything the parts share is one
Postgres table, `leads`, reached through Supabase; the processes know each other
by the columns of its rows only.

    client -> API (rate limit, intake) -> leads table <- classification daemon -> model
                                            ^    ^
              admin page -> API (read, -----+    +---- CRM retry daemon -> CRM
                            export, sync) ------------------------------> CRM

| Part | Code | State it keeps | Operations |
|---|---|---|---|
| Intake | `app/api/routes/leads.py`, `app/services/lead_persistence.py` | rows, unique per (idempotency key, bucket) | find, insert, find again |
| Rate limiter | `app/services/rate_limiter.py` | timestamps per client key, in the API process | check |
| Classification queue | `app/db/migrations/005_*.sql`, `app/repositories/lead_repository.py` | status, claim owner and time, attempts, next attempt | claim, persist, release |
| Classification worker | `app/services/lead_classification_worker.py` | the batch it has claimed | claim, call the model, write |
| CRM retry queue and worker | `app/db/migrations/007_*.sql`, `app/services/crm_sync_worker.py` | integration status, claim, retry count, next attempt | sweep and claim, send, write |
| Manual sync | `sync_lead_to_crm` in `app/api/routes/leads.py` | none; it writes the integration columns | look up, send, write |
| CRM dispatchers | `app/services/crm_sync.py`, `app/services/signed_webhook.py` | none; HubSpot keeps the contacts | sync_lead |
| Daemons, alert monitor | `app/jobs/*_daemon.py`, `app/services/alert_routing.py` | counters, last delivery per alert, the shutdown flag | iterate, observe, route, stop |
| Admin page | the script in `app/routes/admin.py` | credentials, filters, table, dialog, abort controllers | refresh, filter, view, sync, export, save credentials |
| Client address | `TrustedProxyClientIpResolver` in `app/services/rate_limiter.py` | none | resolve |
| Body limit | `app/middleware.py` | the messages of one request's body | buffer, refuse, replay |
| Read and export API | `app/api/routes/leads.py`, `list_leads` | none; the reader keeps its offset | read a page |
| Queue metrics | `app/routes/health.py`, `fetch_classification_queue_metrics` | none | three counts |
| Answer parser | `app/services/lead_classification.py`, `app/services/openai_client.py` | none | strip, extract, validate |
| Settings and start | `app/config.py`, `app/main.py`, the parsers of `app/jobs/` | the settings, the arguments | load, start |

What is hard about it, and what makes each part correct:

- **Claims are leases.** A worker may be overtaken while it works through its batch:
  its claim times out, another worker takes the lead, and the first one's write comes
  afterwards. Correct: nobody interferes with a worker within its timeout, a stale
  worker changes nothing, a settled lead is never touched again, and no lead is lost.
- **Requests are lost or late.** A claim may commit without its answer; a write may be
  executed after its worker has given up, crashed and come back under the same
  `--worker-id`. Correct: attempts bound the calls to the model, and the deliveries.
- **Two writers of one row.** The API's manual sync writes the integration columns
  without looking at claims. Correct: what a retry worker may still do afterwards.
- **Check, then act.** Intake finds nothing and then inserts; the HubSpot dispatcher
  finds no contact and then creates one. Correct: one row, one lead's data on the contact,
  and races that end in success or in a retry.
- **Reads that take several requests.** Pages and counts are read one after the other from
  a table that moves. Correct: a reader misses nothing that was there, and counts are
  off only by what moved.
- **Answers, headers and bodies of others.** The model's text, `X-Forwarded-For` and the
  chunks of a body come in any shape. Correct: what is accepted is what was meant.
- **Sliding windows with a bounded table**, cooldowns against fixed periods, and a
  browser page whose requests overlap, are aborted, and end after the page moved on.

`PROJECT.json` lists the hazards one by one, each with its line and its properties.

## 2. Modules

| Module | Models | Run | Proofs |
|---|---|---|---|
| `LeadLease` | what the classification queue promises (abstract) | by `queue` | by `ClassificationQueueProofs` |
| `ClassificationQueue` | claim RPC, worker batches, network, crashes, clock | `queue`, `queue_calls`, `queue_live`, `queue_backoff` | `ClassificationQueueProofs` |
| `CrmSync` | retry-claim RPC, retry worker, manual sync | `crm`, `crm_columns` | `CrmSyncProofs` |
| `RetryBackoff` | `exponential_retry_delay` | by `crm`, `crm_columns`, `service_parts` | in `CrmSyncProofs` and `ServicePartsProofs` |
| `LeadStore` | what intake promises (abstract) | by `service_parts` | by `LeadIntakeProofs` |
| `LeadIntake` | `persist_lead`, the duplicate window | `service_parts` | `LeadIntakeProofs` |
| `BodyLimit` | `RequestBodySizeLimitMiddleware` | `service_parts` | `LeadIntakeProofs` |
| `ClientAddress` | `TrustedProxyClientIpResolver`, behind chains of proxies | `service_parts` | `LeadIntakeProofs` |
| `LeadPages` | `read_leads`, `export_leads_csv`, `list_leads` | `service_parts` | `ServicePartsProofs` |
| `QueueMetrics` | `fetch_classification_queue_metrics` | `service_parts` | `ServicePartsProofs` |
| `ResponseParser` | `parse_classification_response` | `service_parts` | `ServicePartsProofs` |
| `Startup` | `Settings`, the command lines, what a process requires to run | `service_parts` | `ServicePartsProofs` |
| `RateLimiter` | `LeadIntakeRateLimiter.check` | `service_parts`, `limiter_client` | `RateLimiterProofs` |
| `WorkerDaemon` | `run_daemon` and `WorkerAlertMonitor` | `daemon` | `WorkerDaemonProofs` |
| `HubSpotUpsert` | `HubSpotCrmDispatcher.sync_lead` | `hubspot` | `HubSpotUpsertProofs` |
| `AdminDashboard` | the admin page's script | `dashboard`, `dashboard_sync` | `AdminDashboardProofs` |

The `MC...` modules only add the symmetries and, for HubSpot, the leads' addresses.
`MCServiceParts` also puts eight modules into one instance. They share no state, so it is
a sum and not a product: the part that moves first is the only one that moves (`active`),
and every invariant is checked in every state of its own part. `ServiceImplementsParts`
proves that the composition implements each part's own specification, so that what is proved of a part
holds in it.
`CrmSync` and `Startup` both extend `RetryBackoff`: the delay that a retry is scheduled
with is the one whose arguments the command line has let through.
Definitions whose comment begins "Mutated form" are not part of the model: each is a
plausible bug in the definition that follows it, and each property of a passing run
is violated when the definition is replaced by one of them.

**Correspondence.** An action is what the code does between two points at which
another process can see or change something: one request to the database, to the model
or to a CRM, with the code before it and the handling of its answer. `Claim`
of `ClassificationQueue` is one execution of the SQL function, with the candidate
query, the order, the limit and the update; `Write` is one filtered `UPDATE` and the
step to the next lead. `check()` of the rate limiter holds a lock and never awaits, so
it is one action. On the page an action is one task of the browser's event loop with
the microtasks it causes: the continuation of an aborted request runs after the
handler that aborted it. What HubSpot does for a PATCH or a POST (`Updates`, `Creates`) and the arrival
of its answer (`Delivered`, `AnswerLost`) are two actions, since another delivery or a deletion may come in
between. One call of the model's client may send several requests (`CallModel`, `Resend`): it is built without
`max_retries` (`app/services/openai_client.py:30`), so the library repeats a failed request twice. How requests fail is part of the model: the answer is lost
after the request was executed, the request is never executed, or it is executed later
(`late`).

**Time** is relative: a claim has an age, a retry a remaining wait, and `Tick` moves
them all. Ages stop at the first value that no comparison of the code can tell from a
greater one, so behaviours are not bounded in time. The clocks of the database and of
the workers are taken to be the same.

**History variables** (`leaseAge`, `disowned`, `calls`, `saved`, `credit`, `admitted`,
`promise`, `confirmed`, `outcome`, `excused`, `wrote`, `bereft`) record what has happened; the guards and
the effects of the other variables do not depend on them.

## 3. Runs

| Run | Bounds | What it shows |
|---|---|---|
| `queue` | 2 leads, 2 workers, batch 2, timeout 1, retry 1, 2 attempts, 1 late write; 615 thousand states | a worker within its timeout owns its leads (`LeaseHonoured`); a result is reported as saved once (`SavedOnce`); claims are on pending rows (`ClaimsOnlyPending`); settled leads stay settled (`SettledIsFinal`); the queue implements `LeadLease` (`LeaseSpec`) |
| `queue_calls` | 2 repetitions by the model's client, no late writes, otherwise as `queue`; 715 thousand states | the requests sent to the model stay within three times the attempts counted (`CallsArePaidFor`) |
| `queue_live` | batch 1, no late writes | every pending lead is settled or uses up its attempts |
| `queue_backoff` | batch 2, timeout and retry 2 | a violation, see section 6 |
| `crm` | 2 leads, 2 workers, 1 manual-sync slot used up to twice, 2 attempts, 1 late write; 418 thousand states | leases as above; a manual sync that fails retryably buys `MaxAttempts` deliveries and no more (`RetriesAreBought`); claims are on scheduled rows; only the API undoes a success (`SyncedUnlessManual`); a lead is given up only with its attempts spent (`ExhaustedIsSpent`) |
| `crm_columns` | 1 lead, the columns that migration 007 returns, under fairness | a violation, see section 6 |
| `service_parts` | the sum of the parts below; 647 thousand states | |
| ... intake | 3 submissions, 2 messages, 3 days, windows of 2, 2 late inserts | all who are accepted are told of the one row in the table, submitted less than a window away (`AnswersAgree`); intake implements `LeadStore` (`StoreSpec`) |
| ... body | bodies of 2 bytes, 3 messages | nothing over the limit is held or passed on, the application reads the whole body once and in order, no request is refused without cause (`BodyPassedOn`) |
| ... address | 2 proxies, 2 clients, up to 2 entries of the client's own, up to 2 proxies on the way, 3 hops | no header makes a client pass for another (`KeyIsTheClients`) |
| ... pages | 3 rows, 2 times, pages of 1 and 2 | a finished walk has met every lead that matched when it began (`WalkMissesNothing`), with the two exceptions of section 6 |
| ... metrics | 2 rows, 2 attempts counted, 3 permitted, clock to 2 | the report is off by at most the leads that moved between the counts (`MetricsOffByMovers`) |
| ... parser | texts of up to 6 pieces | an object is understood whatever stands around it, and nothing else is (`AnswersAreUnderstood`) |
| ... setup | 2 variables changed from one of 4 deployments, arguments from 0 to the limit + 1 | what is accepted meets the preconditions of the parts it is for, the delay is the doubling it stands for, and the two pairs of secrets that `Settings` compares differ (`AcceptedMeansUsable`) |
| ... limiter | 3 clients, 1 tracked key, 2 per minute of 2 ticks, 3 per hour of 4, cleanup every 3 | limits per key in every window (`KeyLimits`); Retry-After is exact (`RetryAfterIsExact`) |
| `limiter_client` | 2 tracked keys, 1 per minute | a violation, see section 6 |
| `daemon` | batches of 1, limits of 2 iterations, cooldown of 3 ticks | incident keys and cooldown agree; a shutdown starts nothing new and ends the loop (`ShutdownTakesEffect`); a stuck queue is reported again and again; failing alerts never stop the loop |
| `hubspot` | 3 leads (2 of one customer, 1 without address), 3 calls, 4 contact ids, 1 late request | racing deliveries end well or retryably (`RacesAreRetryable`); only a call that wrote reports it, and a contact is missing only where somebody deleted it (`RacesAreDelivered`); no contact goes back to "lead" (`LifecycleKept`) |
| `dashboard` | 2 leads (1 classified), 2 filters, 2 credentials, 2 controller names; 799 thousand states | requests in flight and the selected detail carry the credential that is held, and nothing is shown without one (`CredentialsRespected`); the table is that of the filter and the credential in force, the dialog that of the selected lead (`ShownIsCurrent`); one request of a kind, and nothing stays busy (`NothingStuck`) |
| `dashboard_sync` | 1 filter, 1 credential | a violation, see section 6 |

Why the bounds are enough for the cases that matter: two workers and two leads are the
least with which one worker can be overtaken while another lead of its batch is still
to come; a timeout of one tick lets a claim go stale at any point of a batch; two attempts have
a first, a last and a retaken one; one late write can meet the row in every later
state. Three days in windows of two and three submissions give a race, a repetition, and a
window that ends between two submissions or during one. Of the parsers and checks, the bounds
are past the longest case the code distinguishes: a fence with its label around an object is
six pieces, a chain of four entries is over the three hops, and a setting may be below, at
and above each limit. In the limiter the minute, the hour and the cleanup differ from each
other and the table is smaller than the set of clients. Two controller names are enough
because an aborted request is gone when its handler has ended (`NothingStuck`).

`queue`, `queue_live` and `queue_backoff` differ in the repetitions of the model's client: 0, 0 and 2. A repetition
changes nothing but `sends` and `calls`, and it prolongs the call, which `Tick` may do anyway; so 0 loses
no behaviour of the table and keeps the runs short. `queue_calls`, which counts requests, has the library's 2.

`ReturnedColumns` says what the installed claim RPC returns. As committed, it lacks `integration_error`,
every claim is refused (section 6), and no row is ever claimed. `crm` checks the system with the column
added, which is the one its authors describe: with fewer claims its properties hold all the more. The proofs
are for any `ReturnedColumns`.

Only `service_parts` switches the deadlock check off: its parts end when all submissions are
answered, the body is read, the walk is finished, or the process runs.

Bounds that are not in the code: `MaxLate`, `MaxManual`, `LastDay`, `MaxMessages`,
`MaxClaimed`, `MaxProxies`, `MaxTime`, `LastTick`, `MaxPieces`, `MaxSet`, `MaxDelays`, and the saturation
of counters and ages described above. The number of HubSpot ids is one: an id is used
again only when no call and no late request can remember it.

## 4. Fairness

Safety properties assume no fairness. For liveness:

- `Tick`: time passes.
- A daemon loops for ever (`StartBatch`), goes through its batch, and every await on
  the model, the CRM or the database ends, because those clients have timeouts. Which way
  it ends is not assumed: an update may fail for ever, and a worker may crash again
  and again.
- `SF(Claim)`: a worker whose process is restarted by its supervisor again and again does
  complete a claim now and then. Without it the system may crash before every claim.
- In `CrmSync` the same is assumed, with `SF(Claim)` where a claim can be answered at all, and that a request
  to claim ends. It serves to state that workers do ask again and again; `DueIsClaimed` fails all the same.
- In `WorkerDaemon`, `SF(Deliver(a))`: a destination that is asked about an alert again and
  again confirms it now and then.
- `ShutdownTakesEffect` needs no more than the loop's own steps and `Tick`: the batch, the
  alerts and the sleep that were under way end, and then the loop does.
- Nothing is assumed of arrivals, manual syncs, crashes, shutdowns or the model's answers.

## 5. Proofs

Every invariant, action property and refinement of the passing runs is a theorem: a run shows it
on a small instance, the theorem for every value of the constants that the module's
`ASSUME`s allow. Each paragraph names the inductive invariant and why it is needed.

**The classification queue.** `ClassificationQueueProofs` proves, for every set of leads and workers, every batch
limit, timeout, retry wait, number of attempts, of repetitions and of late writes, all
properties of the runs `queue` and `queue_calls`, and that two workers never both hold a lead within their
timeouts (`LeaseExclusion`, which follows from `LeaseHonoured` and is not a run's property). The assumptions are the three `ASSUME`s of
`ClassificationQueue`: leads are numbers, workers are a finite set without
`NoWorker`, and the parameters have the ranges that the SQL function and the settings
enforce.

The argument:

1. `ShapeInv` (types, and what a worker's phase says about `todo` and `cur`) is
   inductive; `TypeCorrect`.
2. `LeaseInv` adds `LeaseHonoured` in a strengthened form, `LeaseMatches`: a lead of a
   batch within its lease is pending, owned by its worker, and its claim is exactly as old as
   the lease. The age makes it inductive: a claim takes a row over only when its age is
   beyond the timeout, and then the lease's is too. `LeaseExclusion` follows, since a row has
   one owner.
3. Every step of the system is, for the table, one of five kinds (`TableStep`: nothing,
   time, an insert, a claim, an executed write). `ClaimsOnlyPending` and `SettledIsFinal` need
   nothing else.
4. `SavedInv`: a lead reported as saved is settled, so that no other write to it applies.
5. `BudgetInv`: requests sent, plus requests that may still be sent by workers that hold the lead in a
   batch, are at most `1 + ModelRetries` times the attempts counted. `CallsArePaidFor` alone is not inductive: a
   worker that has claimed a lead may call at any time, and another may have claimed it since.
   What is owed is a set of tickets, one for each worker and each try (`Owed`): a claim issues them, a
   request spends one, and whatever ends the work on a lead drops the rest. The lemmas on their number
   use the library's theorems on finite sets.
6. `RefineInv` and `StepRefines`: an unclaimed row has age 0, so the mapped initial states
   and steps are those of `LeadLease`, or stutter.

**The CRM queue.** `CrmSyncProofs` proves, for every set of leads, finite set of workers, set of
API slots, batch limit, claim timeout, number of attempts, manual syncs and late writes,
all properties of the run `crm`, for every base and cap of the backoff. It assumes the two `ASSUME`s
of `CrmSync`: workers are not API slots, and the limits are those of the settings.

1. `ShapeInv`: types, and what a phase says about the lead and the write in hand. A
   worker that is about to write "exhausted" has claimed the lead with its last attempt.
2. Every step is, for the claims, of one of five kinds (`Steps`): time, `Quiet`, a claim, a
   send, an executed write. What the other workers hold goes on unchanged (`Keeps`), so each
   invariant needs five cases and not twenty actions.
3. `SyncInv` joins four invariants that need each other: `ClaimsOnlyScheduled`;
   `LeaseMatches`, as above; `CountSeen`, that a worker which still owns a row remembers the
   attempt count that the row has; and `CreditCovers`, that what the manual syncs have paid for
   covers the attempts the row still allows and the workers that hold the lead unsent. The
   last one is why `RetriesAreBought` holds even though an overtaken worker still sends:
   its claim was counted when it was made.
4. `SyncedUnlessManual` follows because a synced row has no owner for a worker's write to
   match; `ExhaustedIsSpent` follows from `CountSeen`.
5. `SyncTypeCorrect` adds the range of the waits (`Waits`), of which the claims are independent. It rests
   on `RetryDelayBounds`: whatever the number of attempts, a delay lies between the base and the cap.

**The way of POST /leads.** `LeadIntakeProofs` is about three modules.

- *Body limit*, for any limit and any messages. `BodyInv`: while the middleware buffers, its
  buffer is all that has arrived, its counter is the size of that, and no message has ended the
  body; afterwards what the application has read, followed by the buffer, is what has arrived. The size of
  a sequence of messages is a recursive sum, so the lemmas on it (`SizeOfAppend`, `SizeOfTail`)
  go by induction over partial sums.
- *Client address*, for any addresses and any header. `AddressInv`: the header is the
  client's own entries, then its address, then trusted proxies, and the peer is the last of
  these. The resolver reads from the right, so the first untrusted entry it meets is the client's
  address (`NearestIs`), unless the chain is too long or an entry is no address.
- *Intake*, for every set of submissions and messages and every window of at least a day: `AnswersAgree`
  and the refinement of `LeadStore`. `IntakeInv` says that a row is the
  lead of its own inserter, whose insert is over, and that an accepted submission is told of the
  row of its lead; that the days are less than a window apart follows from the bucket
  (`SameBucket`).

**The rate limiter.** `RateLimiterProofs` proves `KeyLimits` and `RetryAfterIsExact` for any
clients, any limits and windows (the hour longer than the minute, as in the code), any cleanup interval and
any size of the table. The limiter forgets on purpose, so `KeyLimits` needs that
nothing is forgotten too early: `Remembered` says that in every window up to an hour as many requests
are remembered under a key as were admitted under it. Its sides are cardinalities of sets of indices of two
sequences that shrink and shift differently; `Ordered`, ages in the order of admission, makes both
of them segments that can be counted. `MinuteKept` and `SharedHasRoom` bound the windows and the
table, and `PromiseKept` says that an outstanding Retry-After is what the fuller
window still takes, which survives pruning, cleanups and requests that are refused meanwhile.

**HubSpot.** `HubSpotUpsertProofs` proves the four properties of the run `hubspot` for any leads, addresses,
calls, contacts and late requests. It assumes that the names for "nothing" are not leads, contacts or
addresses. `UpsertInv` joins to the types and `RacesAreRetryable`: whoever asks HubSpot has an
address (`Addressed`), only contacts that exist have been moved on (`CustomersExist`), and a
call whose contact is gone has seen it deleted (`GoneIsExcused`). The last one is what makes a 404
in the middle of a delivery somebody else's doing and never the effect of a race.
`RacesAreDelivered` has an invariant of its own on top of that, `RaceInv`: the contact that a call or a late request
is about has the address of its customer, or is gone (`TargetMatches`); a call that has been told of a conflict, or waits
for the answer to its write, has a contact with its address, or was bereft of it (`ContactIsThere`); and
`wrote` and `bereft` say what they are for (`WroteAndBereft`). The two history variables are needed because a
write and its answer are separate steps: what HubSpot holds when the answer arrives is only what nobody has changed
meanwhile. It may be another lead's data of the same customer, and the property does not say otherwise.

**The daemon and its alerts.** `WorkerDaemonProofs` proves `IncidentKeysFresh` and the safety part of
`ShutdownTakesEffect`, for every threshold and cooldown. `DaemonInv` relates the two clocks that could
disagree: an alert confirmed under the running period's key was built in that period (`ConfirmedIsCooling`), so
that the cooldown, counted from when it was built, does not end before the period does, and the next
key is another. `InHand` says what the monitor has in hand while it sends. Both are about
one life of the process: the monitor's memory is lost with it (`Restart`), so a restarted daemon may send an
alert under a key that its predecessor had confirmed, which the key is there to make harmless.

**The admin page.** `AdminDashboardProofs` proves the four invariants of the run `dashboard` for any leads,
filters, credentials and controllers. Of controllers it assumes that a new one can differ from the one
it replaces; nothing else, since objects of the browser do. `PageInv` adds to the four what requests are
about (`Asked`) and a stronger form of their last part (`SyncOffered`): the button is enabled
unless a sync of *this* lead is in flight. With the weaker form, a step that shows another lead
cannot be proved. The lemmas follow the page's own functions: one for each handler, and one for
the continuation of the requests it aborts (`ProceedLeaves`).

**The other small parts.** `ServicePartsProofs`:

- *Page reads*, for any finite set of leads, any limit and any times. `PagesInv`: a lead that the walk
  owes and has not met is still to come, that is, at least as many newer rows match as the walk
  has passed (`StillToCome`). What is stored meanwhile only adds newer rows.
- *The queue report*, for any finite set of leads and any attempts and backoff. Counts do not say
  which leads were counted; `MetricsInv` says that there is a set of leads of that size
  for each count made so far, related by the leads that moved.
- *The parser*, for texts of any length: the first and the last brace of a text exist or there are
  none (`FirstPlace`, `LastPlace`), and what lies between them is the object that the property speaks
  of (`ObjectHeld`, `HeldObject`), whether or not a fence was taken off before.
- *The start of a process*. `SetupInv`: settings that were let through are the environment
  without its blanks, and valid. `RetryDelayDoubles` proves what the backoff computes: the
  lower of the cap and the base doubled once for every attempt.
- *The composition*: `ServiceTypeCorrect`, from `ServiceImplementsParts`; the limiter's types are from `RateLimiterProofs`.

**Induction.** The induction theorems of the library take a predicate as a parameter, which the
provers cannot instantiate. Over the natural numbers the principle can be stated for sets instead
(`NatSetInduction`: a set of numbers with 0 and every successor has them all, from the well-foundedness of
the order), which is how the delays, the sizes of bodies and the places of braces are dealt
with. `CrmSyncProofs` and `RateLimiterProofs` have a small copy of it, because they share no module
with `LeadIntakeProofs` but the library. The provers know nothing of `^`, so the doubled delay is
compared with a recursive doubling (`Doubled`) and not with a power of 2.

**Only model-checked**: liveness, that is, `EveryLeadResolved`, `StuckQueueReported`,
`ProcessingGoesOn`, and that the loop ends in `ShutdownTakesEffect`. These rest on fairness and `ENABLED`,
which are out of the prover's reach.

## 6. Where the code differs from its documentation

- **The CRM claim asks for a column that is not there** (`crm_columns`). The repository selects
  `integration_error` from the claim RPC (`app/repositories/lead_repository.py:36-49`, `:550`), and the RPC's
  `RETURNS TABLE` has no such column (`app/db/migrations/007_crm_retry_claiming.sql:63-82`). PostgREST refuses the
  request, so neither the claim nor the sweep happens, and every batch of the retry daemon reports an error.
  The README promises that due leads are claimed (`README.md:333`); no retry worker is deployed yet
  (`README.md:343`), and the fakes of the tests return any column. With the column added `DueIsClaimed` holds
  in the same instance.
- **Backoff counts from the start of the batch** (`queue_backoff`). The worker reads the
  clock before it claims (`app/services/lead_classification_worker.py:149`) and releases
  with that time (line 179), so that a lead whose call fails late in the batch is due
  before `retry_after_seconds` have passed since the failure.
- **The limit is per key, not per client** (`limiter_client`). A client counted under
  `__overflow__` starts with empty windows once a cleanup has made room for its own key.
- **A lead can be synced twice at once from the page** (`dashboard_sync`). Closing the
  dialog leaves the sync in flight; opening the lead again enables the button.

More that a reader should know:

- A pending lead whose worker died on its last permitted attempt stays pending for ever (the
  CRM queue has a sweep for this, the classification queue has not), and a delayed write
  of a worker's earlier life, under the same id, ends the claim of its later life (`disowned`).
- A walk or an export that filters for pending leads may miss some: a lead that is classified
  meanwhile pulls later ones to pages that have been read. So may any walk where leads share
  their `created_at`, which has no tie-breaker.
- The queue endpoint counts exhausted leads with the default number of attempts
  (`app/routes/health.py:115`), whatever `--max-attempts` the worker runs with.
- `max_attempts` bounds the calls of `complete()`, not the requests to the model: the client repeats a failed
  one twice by itself, so a lead may be sent three times as often.
- `Settings` compares `ADMIN_TOKEN` with `QUEUE_METRICS_TOKEN` and the two webhook secrets with each other
  (`app/config.py:245-290`), and no others. `JWT_SECRET` is not compared with the tokens, although the README asks for
  separate values of the three (`README.md:449`, `:649`), nor a token with a webhook secret or HubSpot's.
- `DEDUP_WINDOW_DAYS` is the one number of the settings without a lower limit
  (`app/config.py:100`): with 0 the API starts, and every submission fails.
- Prose with braces before or after the object makes a model's answer unreadable, and the lead is
  settled as failed.

## 7. What is left out, and abstractions

Not modelled: the Supabase singleton (`app/db/client.py`: two first requests may each create a
client; both work, and nothing depends on which is kept); the read of one lead, request
and response schemas, masking, CSV cells, signatures, canonical JSON, HTML, prompts, logging (formatting, or one
stateless step); bearer tokens (comparisons of strings); the running of migrations.

Abstractions a reader might question:

- Due CRM rows are claimed in any order; the code orders them by due time, which the model
  does not keep.
- A claim may skip rows that another request is writing at that moment. Which of them are locked
  is up to the database, so any subset may be skipped.
- Rate limiter timestamps are ticks; `Retry-After` is rounded up to seconds in the code and
  is exact to the tick here.
- The webhook and HubSpot appear in `CrmSync` by the three outcomes of a delivery; in
  `HubSpotUpsert` HubSpot has contacts with unique addresses and answers 404 for an id
  that is gone. What the sales team edits is the lifecycle stage, and whether the contact
  exists.
- In `ClientAddress` an address stands for all its spellings, and proxies append to the one
  header; the code reads only the first of several `X-Forwarded-For` lines, so a proxy that adds a
  line of its own is not covered.
- In `ResponseParser` white space plays no part, a payload is one piece, and prose is any piece
  that is not a brace or a fence.
- In `Startup` a number is below, within or above its limits on one scale, a secret is one of two
  strong ones, weak, blank or unset, and blanks around it are kept until the code strips them.
- In `LeadPages` the filters are the status and the dates; urgency and source never change and only
  narrow the set of rows.
- On the page the dialog is modal, so that the table, the filters, the export and the
  credentials cannot be reached while it is open; only the timer can. A second tab that
  changes the stored credentials is not modelled. The dialog's close event, which runs
  `resetLeadDetailState` once more, is part of `Close`.

## 8. Plan

The order was: the classification queue with its abstract lease and its proofs, since all
leads go through it; then the second user of the same pattern, `CrmSync`; then what is
before (`LeadIntake`, `RateLimiter`) and around (`WorkerDaemon`, `HubSpotUpsert`,
`AdminDashboard`); then the small parts of `MCServiceParts`. What is left:

1. A composition of the daemon with the queue, for the backlog count that includes claimed rows.
2. Proofs: of safety nothing that is checked is left. What a composition will promise, beginning with
   that the daemon's backlog is a count of `ClassificationQueue`, is to be proved from the theorems of its parts.

## 9. Running

    tlc -config MCClassificationQueue.cfg MCClassificationQueue
    tlapm ClassificationQueueProofs.tla

`PROJECT.json` lists every run with its module and configuration, the source lines of
every definition, and the mutants.
