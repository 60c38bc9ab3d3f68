----------------------------- MODULE LeadIntake ------------------------------
(***************************************************************************)
(* POST /leads, past the rate limiter: persist_lead looks the lead up by   *)
(* its idempotency key and the duplicate window's bucket, inserts it when  *)
(* it is not there, and looks again when the unique index says that        *)
(* somebody was faster.  A database request can fail, can be executed and  *)
(* its answer lost, or can be executed after the API has given up on it.   *)
(***************************************************************************)
EXTENDS Integers, FiniteSets

CONSTANTS
  Keys,         \* idempotency keys: hashes of normalised source and message
  Submissions,  \* POST /leads requests, the client's repetitions included
  Nobody,       \* no row
  Window,       \* dedup_window_days
  LastDay,      \* bound: days since 1970 began
  MaxLate       \* bound: inserts nobody waits for

ASSUME NobodyAssumption == Nobody \notin Submissions
ASSUME WindowAssumption == Window \in Nat \ {0}
ASSUME BoundsAssumption == LastDay \in Nat /\ MaxLate \in Nat

VARIABLES
  today,        \* the day, UTC
  storedBy,     \* the leads table: the row of a lead, named by who inserted it
  stage,        \* the database request a submission is waiting for
  lead,         \* its idempotency key and bucket
  answer,       \* what the client was told
  late,         \* submissions whose abandoned insert may still be executed
  submittedOn   \* history: the day of a submission

vars == <<today, storedBy, stage, lead, answer, late, submittedOn>>

\* deduplication_bucket_for: the first day of the window a day is in.
BucketOf(day) == (day \div Window) * Window
Leads == Keys \X {BucketOf(day) : day \in 0..LastDay}
NoLead == <<Nobody, 0>>
Pending == [kind |-> "pending", row |-> Nobody]
Refused == [kind |-> "refused", row |-> Nobody]
Answers == [kind : {"pending", "refused", "created", "duplicate"},
            row : Submissions \cup {Nobody}]

TypeOK ==
  /\ today \in 0..LastDay
  /\ storedBy \in [Leads -> Submissions \cup {Nobody}]
  /\ stage \in [Submissions -> {"none", "finding", "inserting", "finding again", "done"}]
  /\ lead \in [Submissions -> Leads \cup {NoLead}]
  /\ answer \in [Submissions -> Answers]
  /\ late \in SUBSET Submissions
  /\ submittedOn \in [Submissions -> 0..LastDay]

Init ==
  /\ today = 0
  /\ storedBy = [l \in Leads |-> Nobody]
  /\ stage = [s \in Submissions |-> "none"]
  /\ lead = [s \in Submissions |-> NoLead]
  /\ answer = [s \in Submissions |-> Pending]
  /\ late = {}
  /\ submittedOn = [s \in Submissions |-> 0]

NextDay ==
  /\ today < LastDay
  /\ today' = today + 1
  /\ UNCHANGED <<storedBy, stage, lead, answer, late, submittedOn>>

-----------------------------------------------------------------------------
(* persist_lead.                                                           *)

\* Mutated form: the bucket is the window's end.
SubmitAhead(s, k) ==
  /\ stage[s] = "none"
  /\ lead' = [lead EXCEPT ![s] = <<k, BucketOf(today) + Window>>]
  /\ submittedOn' = [submittedOn EXCEPT ![s] = today]
  /\ stage' = [stage EXCEPT ![s] = "finding"]
  /\ UNCHANGED <<today, storedBy, answer, late>>

\* The bucket is fixed here, however long the rest takes.
Submit(s, k) ==
  /\ stage[s] = "none"
  /\ lead' = [lead EXCEPT ![s] = <<k, BucketOf(today)>>]
  /\ submittedOn' = [submittedOn EXCEPT ![s] = today]
  /\ stage' = [stage EXCEPT ![s] = "finding"]
  /\ UNCHANGED <<today, storedBy, answer, late>>

Respond(s, what) ==
  /\ answer' = [answer EXCEPT ![s] = what]
  /\ stage' = [stage EXCEPT ![s] = "done"]

\* find_by_idempotency, the first time and after a unique conflict.
FindExisting(s) ==
  /\ stage[s] \in {"finding", "finding again"}
  /\ storedBy[lead[s]] # Nobody
  /\ Respond(s, [kind |-> "duplicate", row |-> storedBy[lead[s]]])
  /\ UNCHANGED <<today, storedBy, lead, late, submittedOn>>

FindNothing(s) ==
  /\ stage[s] = "finding"
  /\ storedBy[lead[s]] = Nobody
  /\ stage' = [stage EXCEPT ![s] = "inserting"]
  /\ UNCHANGED <<today, storedBy, lead, answer, late, submittedOn>>

\* LeadLookupFailed, 503.
FindFails(s) ==
  /\ stage[s] \in {"finding", "finding again"}
  /\ Respond(s, Refused)
  /\ UNCHANGED <<today, storedBy, lead, late, submittedOn>>

\* Mutated form: only the primary key is unique.
PrimaryKeyInsert(s) == storedBy[lead[s]] # s

\* idx_leads_idempotency_bucket_unique lets the insert through.
UniqueInsert(s) == storedBy[lead[s]] = Nobody

\* The row is inserted; its answer arrives, or it is lost or malformed (503, 500).
Insert(s) ==
  /\ stage[s] = "inserting"
  /\ UniqueInsert(s)
  /\ storedBy' = [storedBy EXCEPT ![lead[s]] = s]
  /\ \/ Respond(s, [kind |-> "created", row |-> s])
     \/ Respond(s, Refused)
  /\ UNCHANGED <<today, lead, late, submittedOn>>

InsertConflicts(s) ==
  /\ stage[s] = "inserting"
  /\ ~UniqueInsert(s)
  /\ stage' = [stage EXCEPT ![s] = "finding again"]
  /\ UNCHANGED <<today, storedBy, lead, answer, late, submittedOn>>

\* LeadInsertFailed, 503: nothing reached the database, or it may yet.
InsertFails(s) ==
  /\ stage[s] = "inserting"
  /\ Respond(s, Refused)
  /\ \/ late' = late
     \/ Cardinality(late) < MaxLate /\ late' = late \cup {s}
  /\ UNCHANGED <<today, storedBy, lead, submittedOn>>

LateInsert(s) ==
  /\ s \in late
  /\ late' = late \ {s}
  /\ storedBy' = IF UniqueInsert(s) THEN [storedBy EXCEPT ![lead[s]] = s] ELSE storedBy
  /\ UNCHANGED <<today, stage, lead, answer, submittedOn>>

Next ==
  \/ NextDay
  \/ \E s \in Submissions :
       \/ \E k \in Keys : Submit(s, k)
       \/ FindExisting(s) \/ FindNothing(s) \/ FindFails(s)
       \/ Insert(s) \/ InsertConflicts(s) \/ InsertFails(s)
       \/ LateInsert(s)

Spec == Init /\ [][Next]_vars

-----------------------------------------------------------------------------
(* Properties.                                                             *)

Accepted(s) == answer[s].kind \in {"created", "duplicate"}

\* All who are told that their lead is stored are told of the same row, it is the
\* row in the table, and it was submitted less than a window away: no race of two
\* submissions, lost answer, late insert or change of the window while a submission
\* is under way gives one lead two rows or two leads one.
Apart(s, t) == {submittedOn[s] - submittedOn[t], submittedOn[t] - submittedOn[s]}
AnswersAgree ==
  \A s \in Submissions :
    Accepted(s) => /\ answer[s].row = storedBy[lead[s]]
                   /\ \A days \in Apart(s, answer[s].row) : days < Window

\* Find, insert and find again look like one atomic get-or-create.
Store == INSTANCE LeadStore
StoreSpec == Store!StoreSpec
=============================================================================
