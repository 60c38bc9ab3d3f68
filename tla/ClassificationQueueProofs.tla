---------------------- MODULE ClassificationQueueProofs ----------------------
(***************************************************************************)
(* Proofs about ClassificationQueue, for every number of leads and         *)
(* workers, every batch limit, claim timeout, backoff and attempt limit,   *)
(* any number of repeated requests to the model and of delayed writes.     *)
(***************************************************************************)
EXTENDS ClassificationQueue, FiniteSetTheorems, TLAPS

-----------------------------------------------------------------------------
(* The inductive invariant.                                                *)

\* A worker holds leads only between a claim and the end of its batch, and
\* writes only about a lead it holds.
WorkerShape ==
  \A w \in Workers :
    /\ phase[w] \in {"idle", "claiming"} => todo[w] = {}
    /\ phase[w] \in {"calling"} \cup Writes => cur[w] \in todo[w]
    /\ todo[w] = {} => leaseAge[w] = 0
    /\ phase[w] \in {"idle", "claiming", "between"} => cur[w] = NoLead

\* Requests that settle a lead carry no retry time.
TerminalRequests == \A r \in late : r.kind \in Outcomes => r.wait = 0

\* LeaseHonoured, strengthened: the row's claim is as old as the worker's lease.
LeaseMatches ==
  \A w \in Workers, l \in Leads :
    WithinLease(w, l) =>
      status[l] = "pending" /\ owner[l] = w /\ claimAge[l] = leaseAge[w]

ShapeInv == TypeOK /\ WorkerShape /\ TerminalRequests
LeaseInv == ShapeInv /\ LeaseMatches

-----------------------------------------------------------------------------
(* What a request does, and what ending a lead does.                       *)

LEMMA RequestType ==
  ASSUME ShapeInv, NEW w \in Workers, phase[w] \in Writes
  PROVE  /\ Request(w) \in Requests
         /\ cur[w] \in todo[w]
         /\ cur[w] \in Leads
         /\ Request(w).kind \in Outcomes => Request(w).wait = 0
<1>1. cur[w] \in todo[w] /\ cur[w] \in Leads
  BY DEF ShapeInv, WorkerShape, TypeOK
<1>2. batchAge[w] \in 0..RetryAfter
  BY DEF ShapeInv, TypeOK
<1>3. RetryAfter - batchAge[w] \in 0..RetryAfter
  BY <1>2, LimitsAssumption
<1>4. 0 \in 0..RetryAfter
  BY LimitsAssumption
<1> QED
  BY <1>1, <1>3, <1>4 DEF Request, Requests, Writes, Outcomes

LEMMA ExecuteType ==
  ASSUME ShapeInv, NEW r \in Requests, Execute(r)
  PROVE  /\ status' \in [Leads -> {"absent", "pending"} \cup Outcomes]
         /\ owner' \in [Leads -> Workers \cup {NoWorker}]
         /\ claimAge' \in [Leads -> 0..(ClaimTimeout + 1)]
         /\ attempts' \in [Leads -> 0..MaxAttempts]
         /\ wait' \in [Leads -> 0..RetryAfter]
<1>1. /\ r.lead \in Leads /\ r.worker \in Workers /\ r.wait \in 0..RetryAfter
      /\ r.kind \in Outcomes \cup {"release"}
      /\ 0 \in 0..(ClaimTimeout + 1)
  BY LimitsAssumption DEF Requests, Writes
<1>2. CASE OwnedAndPending(r)
  <2>1. /\ status' = [status EXCEPT ![r.lead] = IF r.kind = "release" THEN @ ELSE r.kind]
        /\ owner' = [owner EXCEPT ![r.lead] = NoWorker]
        /\ claimAge' = [claimAge EXCEPT ![r.lead] = 0]
        /\ wait' = [wait EXCEPT ![r.lead] = r.wait]
        /\ attempts' = attempts
    BY <1>2 DEF Execute
  <2> QED BY <1>1, <2>1 DEF ShapeInv, TypeOK
<1>3. CASE ~OwnedAndPending(r)
  BY <1>3 DEF Execute, table, ShapeInv, TypeOK
<1> QED BY <1>2, <1>3

LEMMA ContinueShape ==
  ASSUME ShapeInv, NEW w \in Workers, NEW rest \in SUBSET Leads, Continue(w, rest),
         rest \subseteq todo[w] \/ leaseAge[w] = 0
  PROVE  /\ phase' \in [Workers -> Phases]
         /\ todo' \in [Workers -> SUBSET Leads]
         /\ cur' \in [Workers -> Leads \cup {NoLead}]
         /\ sends' \in [Workers -> 0..(ModelRetries + 1)]
         /\ batchAge' \in [Workers -> 0..RetryAfter]
         /\ leaseAge' \in [Workers -> 0..(ClaimTimeout + 1)]
         /\ disowned' \in [Workers -> SUBSET Leads]
         /\ WorkerShape'
<1> USE LimitsAssumption DEF ShapeInv, Continue
<1>1. phase' \in [Workers -> Phases] /\ todo' \in [Workers -> SUBSET Leads]
  BY DEF TypeOK, Phases
<1>2. cur' \in [Workers -> Leads \cup {NoLead}] /\ disowned' \in [Workers -> SUBSET Leads]
  BY DEF TypeOK
<1>3. /\ batchAge' \in [Workers -> 0..RetryAfter]
      /\ sends' \in [Workers -> 0..(ModelRetries + 1)]
  BY DEF TypeOK
<1>4. leaseAge' \in [Workers -> 0..(ClaimTimeout + 1)]
  BY DEF TypeOK
<1>5. WorkerShape'
  <2> SUFFICES ASSUME NEW v \in Workers
               PROVE  /\ phase'[v] \in {"idle", "claiming"} => todo'[v] = {}
                      /\ phase'[v] \in {"calling"} \cup Writes => cur'[v] \in todo'[v]
                      /\ todo'[v] = {} => leaseAge'[v] = 0
                      /\ phase'[v] \in {"idle", "claiming", "between"} => cur'[v] = NoLead
    BY DEF WorkerShape
  <2>1. CASE v = w
    BY <2>1 DEF TypeOK, Writes, Outcomes
  <2>2. CASE v # w
    BY <2>2 DEF TypeOK, WorkerShape
  <2> QED BY <2>1, <2>2
<1> QED BY <1>1, <1>2, <1>3, <1>4, <1>5

LEMMA ClaimType ==
  ASSUME ShapeInv, NEW w \in Workers, NEW batch \in SUBSET Leads,
         Claimable(batch), TakeClaims(w, batch)
  PROVE  /\ \A l \in batch : Candidate(l)
         /\ status' = status /\ wait' = wait
         /\ owner' \in [Leads -> Workers \cup {NoWorker}]
         /\ claimAge' \in [Leads -> 0..(ClaimTimeout + 1)]
         /\ attempts' \in [Leads -> 0..MaxAttempts]
<1>1. \A l \in batch : Candidate(l)
  BY DEF Claimable, OldestFirst
<1>2. \A l \in batch : attempts[l] + 1 \in 0..MaxAttempts
  BY <1>1, LimitsAssumption DEF Candidate, ShapeInv, TypeOK
<1>3. 0 \in 0..(ClaimTimeout + 1)
  BY LimitsAssumption
<1> QED
  BY <1>1, <1>2, <1>3 DEF TakeClaims, ShapeInv, TypeOK

-----------------------------------------------------------------------------
(* ShapeInv is inductive.                                                  *)

LEMMA ShapeInit == Init => ShapeInv
  BY LimitsAssumption
     DEF Init, ShapeInv, TypeOK, WorkerShape, TerminalRequests, Phases, Writes, Outcomes

LEMMA TickShape == ASSUME ShapeInv, Tick PROVE ShapeInv'
<1> USE LimitsAssumption
<1>1. \A r \in late : /\ [r EXCEPT !.wait = Sooner(r.wait)] \in Requests
                      /\ r.kind \in Outcomes => Sooner(r.wait) = 0
  BY DEF ShapeInv, TypeOK, TerminalRequests, Requests, Sooner
<1>2. late' \in SUBSET Requests /\ TerminalRequests'
  <2>1. late' = {[r EXCEPT !.wait = Sooner(r.wait)] : r \in late}
    BY DEF Tick
  <2>2. \A r \in late : [r EXCEPT !.wait = Sooner(r.wait)].kind = r.kind
                      /\ [r EXCEPT !.wait = Sooner(r.wait)].wait = Sooner(r.wait)
    BY DEF ShapeInv, TypeOK, Requests
  <2> QED BY <1>1, <2>1, <2>2 DEF TerminalRequests
<1>3. /\ claimAge' \in [Leads -> 0..(ClaimTimeout + 1)]
      /\ wait' \in [Leads -> 0..RetryAfter]
  BY DEF Tick, ShapeInv, TypeOK, Older, Sooner
<1>4. /\ batchAge' \in [Workers -> 0..RetryAfter]
      /\ leaseAge' \in [Workers -> 0..(ClaimTimeout + 1)]
  BY DEF Tick, ShapeInv, TypeOK, Older
<1>5. WorkerShape'
  BY DEF Tick, ShapeInv, TypeOK, WorkerShape
<1> QED
  BY <1>2, <1>3, <1>4, <1>5 DEF Tick, ShapeInv, TypeOK

LEMMA ShapeNext == ASSUME ShapeInv, [Next]_vars PROVE ShapeInv'
<1> USE LimitsAssumption
<1>1. CASE Tick
  BY <1>1, TickShape
<1>2. ASSUME NEW l \in Leads, Arrive(l) PROVE ShapeInv'
  BY <1>2 DEF Arrive, worker, history, ShapeInv, TypeOK, WorkerShape, TerminalRequests
<1>3. ASSUME NEW w \in Workers, WorkerStep(w) PROVE ShapeInv'
  <2>1. CASE StartBatch(w)
    BY <2>1 DEF StartBatch, table, history, ShapeInv, TypeOK, WorkerShape,
                TerminalRequests, Phases, Writes, Outcomes
  <2>2. CASE Claim(w)
    <3>1. PICK batch \in SUBSET Leads :
            Claimable(batch) /\ TakeClaims(w, batch) /\ Continue(w, batch)
      BY <2>2 DEF Claim
    <3>2. leaseAge[w] = 0
      BY <2>2 DEF Claim, ShapeInv, WorkerShape
    <3> QED
      BY <2>2, <3>1, <3>2, ClaimType, ContinueShape
         DEF Claim, ShapeInv, TypeOK, TerminalRequests
  <2>3. CASE ClaimReplyLost(w)
    <3>1. PICK batch \in SUBSET Leads : Claimable(batch) /\ TakeClaims(w, batch)
      BY <2>3 DEF ClaimReplyLost
    <3>2. Continue(w, {}) /\ UNCHANGED <<late, calls, saved>>
      BY <2>3 DEF ClaimReplyLost
    <3> QED
      BY <3>1, <3>2, ClaimType, ContinueShape DEF ShapeInv, TypeOK, TerminalRequests
  <2>4. CASE ClaimFails(w)
    BY <2>4, ContinueShape DEF ClaimFails, table, ShapeInv, TypeOK, TerminalRequests
  <2>5. ASSUME NEW l \in Leads, CallModel(w, l) \/ RejectBlank(w, l) PROVE ShapeInv'
    <3>1. CASE CallModel(w, l)
      <4>1. 1 \in 0..(ModelRetries + 1)
        OBVIOUS
      <4>2. TypeOK'
        BY <3>1, <4>1 DEF CallModel, table, ShapeInv, TypeOK, Phases
      <4> QED
        BY <3>1, <4>2 DEF CallModel, ShapeInv, TypeOK, WorkerShape, TerminalRequests, Writes,
                          Outcomes
    <3>2. CASE RejectBlank(w, l)
      BY <3>2 DEF RejectBlank, table, history, ShapeInv, TypeOK, WorkerShape,
                  TerminalRequests, Phases, Writes, Outcomes
    <3> QED BY <2>5, <3>1, <3>2
  <2>6. CASE Resend(w) \/ ModelAnswers(w) \/ ModelRaises(w)
    <3>1. CASE Resend(w)
      <4>1. /\ cur[w] \in Leads
            /\ sends[w] + 1 \in 0..(ModelRetries + 1)
        BY <3>1 DEF Resend, ShapeInv, WorkerShape, TypeOK
      <4> QED BY <3>1, <4>1 DEF Resend, table, ShapeInv, TypeOK, WorkerShape, TerminalRequests
    <3>2. CASE ModelAnswers(w) \/ ModelRaises(w)
      BY <3>2 DEF ModelAnswers, ModelRaises, table, history, ShapeInv, TypeOK, WorkerShape,
                  TerminalRequests, Phases, Writes, Outcomes
    <3> QED BY <2>6, <3>1, <3>2
  <2>7. ASSUME Write(w) \/ WriteReplyLost(w)
        PROVE  ShapeInv'
    <3>1. /\ phase[w] \in Writes /\ Execute(Request(w))
          /\ Continue(w, todo[w] \ {cur[w]}) /\ late' = late /\ calls' = calls
      BY <2>7 DEF Write, WriteReplyLost
    <3>2. saved' \in [Leads -> Nat]
      BY <2>7, <3>1, RequestType DEF Write, WriteReplyLost, ShapeInv, TypeOK
    <3>3. todo[w] \in SUBSET Leads
      BY DEF ShapeInv, TypeOK
    <3> QED
      BY <3>1, <3>2, <3>3, RequestType, ExecuteType, ContinueShape
         DEF ShapeInv, TypeOK, TerminalRequests
  <2>8. CASE WriteDropped(w)
    <3>1. todo[w] \in SUBSET Leads
      BY DEF ShapeInv, TypeOK
    <3> QED
      BY <2>8, <3>1, ContinueShape DEF WriteDropped, table, ShapeInv, TypeOK, TerminalRequests
  <2>9. CASE WriteDelayed(w)
    <3>1. todo[w] \in SUBSET Leads
      BY DEF ShapeInv, TypeOK
    <3> QED
      BY <2>9, <3>1, RequestType, ContinueShape
         DEF WriteDelayed, table, ShapeInv, TypeOK, TerminalRequests
  <2>10. CASE Crash(w)
    <3>1. late' \in SUBSET Requests /\ TerminalRequests'
      BY <2>10, RequestType DEF Crash, ShapeInv, TypeOK, TerminalRequests
    <3> QED
      BY <2>10, <3>1, ContinueShape DEF Crash, table, ShapeInv, TypeOK
  <2> QED
    BY <1>3, <2>1, <2>2, <2>3, <2>4, <2>5, <2>6, <2>7, <2>8, <2>9, <2>10 DEF WorkerStep
<1>4. ASSUME NEW r \in late, LateWrite(r) PROVE ShapeInv'
  <2>1. r \in Requests
    BY DEF ShapeInv, TypeOK
  <2>2. disowned' \in [Workers -> SUBSET Leads]
    BY <1>4, <2>1 DEF LateWrite, ShapeInv, TypeOK, Requests
  <2> QED
    BY <1>4, <2>1, <2>2, ExecuteType
       DEF LateWrite, worker, ShapeInv, TypeOK, WorkerShape, TerminalRequests
<1>5. ASSUME NEW r \in late, LateDropped(r) PROVE ShapeInv'
  BY <1>5 DEF LateDropped, table, worker, history, ShapeInv, TypeOK, WorkerShape,
              TerminalRequests
<1>6. CASE UNCHANGED vars
  BY <1>6 DEF vars, ShapeInv, TypeOK, WorkerShape, TerminalRequests
<1> QED
  BY <1>1, <1>2, <1>3, <1>4, <1>5, <1>6 DEF Next

\* Every variable keeps its type: in particular no claim, in any interleaving
\* with lost and delayed requests, takes the attempt count over MaxAttempts.
THEOREM TypeCorrect == Spec => []TypeOK
<1>1. Init => ShapeInv
  BY ShapeInit
<1>2. ShapeInv /\ [Next]_vars => ShapeInv'
  BY ShapeNext
<1>3. ShapeInv => TypeOK
  BY DEF ShapeInv
<1> QED
  BY <1>1, <1>2, <1>3, PTL DEF Spec

LEMMA ShapeInvariant == Spec => []ShapeInv
<1>1. Init => ShapeInv
  BY ShapeInit
<1>2. ShapeInv /\ [Next]_vars => ShapeInv'
  BY ShapeNext
<1> QED
  BY <1>1, <1>2, PTL DEF Spec

-----------------------------------------------------------------------------
(* The lease: LeaseMatches is inductive relative to ShapeInv.              *)

\* What a worker that moves on to `rest` keeps of its lease.
LEMMA ContinueLease ==
  ASSUME ShapeInv, NEW w \in Workers, NEW rest \in SUBSET todo[w], Continue(w, rest)
  PROVE  \A v \in Workers, l \in Leads :
           WithinLease(v, l)' => /\ WithinLease(v, l)
                                 /\ leaseAge'[v] = leaseAge[v]
                                 /\ v = w => l \in rest
<1> SUFFICES ASSUME NEW v \in Workers, NEW l \in Leads, WithinLease(v, l)'
             PROVE  /\ WithinLease(v, l)
                    /\ leaseAge'[v] = leaseAge[v]
                    /\ v = w => l \in rest
  OBVIOUS
<1>1. CASE v = w
  BY <1>1 DEF Continue, WithinLease, ShapeInv, TypeOK
<1>2. CASE v # w
  BY <1>2 DEF Continue, WithinLease, ShapeInv, TypeOK
<1> QED BY <1>1, <1>2

\* A claim by w takes nothing away from a worker that is within its lease.
LEMMA ClaimKeepsLeases ==
  ASSUME LeaseInv, NEW w \in Workers, NEW batch \in SUBSET Leads,
         Claimable(batch), TakeClaims(w, batch),
         NEW v \in Workers, NEW l \in Leads, WithinLease(v, l)
  PROVE  l \notin batch /\ status'[l] = "pending" /\ owner'[l] = v
         /\ claimAge'[l] = leaseAge[v]
<1>1. status[l] = "pending" /\ owner[l] = v /\ claimAge[l] = leaseAge[v]
  BY DEF LeaseInv, LeaseMatches
<1>2. owner[l] # NoWorker /\ ~Stale(l)
  <2>1. leaseAge[v] <= ClaimTimeout /\ leaseAge[v] \in Nat
    BY LimitsAssumption DEF WithinLease, LeaseInv, ShapeInv, TypeOK
  <2> QED BY <1>1, <2>1, WorkersAssumption, LimitsAssumption DEF Stale
<1>3. l \notin batch
  BY <1>2, ClaimType DEF Candidate, LeaseInv
<1> QED
  BY <1>1, <1>3 DEF TakeClaims

\* A request changes a leased row only if it was sent under the owner's id.
LEMMA ExecuteKeepsLeases ==
  ASSUME LeaseInv, NEW r \in Requests, Execute(r),
         NEW v \in Workers, NEW l \in Leads, WithinLease(v, l),
         OwnedAndPending(r) /\ r.worker = v => r.lead # l
  PROVE  status'[l] = "pending" /\ owner'[l] = v /\ claimAge'[l] = leaseAge[v]
<1>1. status[l] = "pending" /\ owner[l] = v /\ claimAge[l] = leaseAge[v]
  BY DEF LeaseInv, LeaseMatches
<1>2. CASE OwnedAndPending(r)
  <2>1. r.lead # l
    BY <1>1, <1>2 DEF OwnedAndPending
  <2> QED
    BY <1>1, <1>2, <2>1 DEF Execute, LeaseInv, ShapeInv, TypeOK
<1>3. CASE ~OwnedAndPending(r)
  BY <1>1, <1>3 DEF Execute, table
<1> QED BY <1>2, <1>3

LEMMA LeaseNext == ASSUME LeaseInv, [Next]_vars PROVE LeaseMatches'
<1> USE DEF LeaseInv
<1> SUFFICES ASSUME NEW v \in Workers, NEW l \in Leads, WithinLease(v, l)'
             PROVE  status'[l] = "pending" /\ owner'[l] = v /\ claimAge'[l] = leaseAge'[v]
  BY DEF LeaseMatches
<1>1. CASE Tick
  <2>1. /\ todo' = todo /\ disowned' = disowned /\ owner' = owner /\ status' = status
        /\ leaseAge'[v] = Older(leaseAge[v], ClaimTimeout + 1)
        /\ owner[l] = v => claimAge'[l] = Older(claimAge[l], ClaimTimeout + 1)
    BY <1>1, WorkersAssumption DEF Tick, WithinLease
  <2>2. WithinLease(v, l)
    BY <2>1, LimitsAssumption DEF WithinLease, Older, ShapeInv, TypeOK
  <2> QED
    BY <2>1, <2>2 DEF LeaseMatches
<1>2. ASSUME NEW m \in Leads, Arrive(m)
      PROVE  status'[l] = "pending" /\ owner'[l] = v /\ claimAge'[l] = leaseAge'[v]
  BY <1>2 DEF Arrive, worker, history, LeaseMatches, WithinLease, ShapeInv, TypeOK
<1>3. ASSUME NEW w \in Workers, WorkerStep(w)
      PROVE  status'[l] = "pending" /\ owner'[l] = v /\ claimAge'[l] = leaseAge'[v]
  <2>1. CASE StartBatch(w)
    BY <2>1 DEF StartBatch, table, history, LeaseMatches, WithinLease
  <2>2. CASE Claim(w)
    <3>1. PICK batch \in SUBSET Leads :
            Claimable(batch) /\ TakeClaims(w, batch) /\ Continue(w, batch)
      BY <2>2 DEF Claim
    <3>2. todo[w] = {} /\ leaseAge[w] = 0
      BY <2>2 DEF Claim, ShapeInv, WorkerShape
    <3>3. CASE v = w
      <4>1. l \in batch /\ leaseAge'[v] = 0
        BY <3>1, <3>2, <3>3 DEF Continue, WithinLease, ShapeInv, TypeOK
      <4>2. status'[l] = "pending"
        BY <3>1, <4>1, ClaimType DEF Candidate
      <4> QED
        BY <3>1, <3>3, <4>1, <4>2 DEF TakeClaims
    <3>4. CASE v # w
      <4>1. WithinLease(v, l) /\ leaseAge'[v] = leaseAge[v]
        BY <3>1, <3>4 DEF Continue, WithinLease, ShapeInv, TypeOK
      <4> QED
        BY <3>1, <4>1, ClaimKeepsLeases
    <3> QED BY <3>3, <3>4
  <2>3. CASE ClaimReplyLost(w)
    <3>1. PICK batch \in SUBSET Leads : Claimable(batch) /\ TakeClaims(w, batch)
      BY <2>3 DEF ClaimReplyLost
    <3>2. Continue(w, {}) /\ {} \in SUBSET todo[w]
      BY <2>3 DEF ClaimReplyLost
    <3>3. WithinLease(v, l) /\ leaseAge'[v] = leaseAge[v]
      BY <3>2, ContinueLease
    <3> QED
      BY <3>1, <3>3, ClaimKeepsLeases
  <2>4. CASE ClaimFails(w) \/ Crash(w)
    <3>1. Continue(w, {}) /\ {} \in SUBSET todo[w] /\ UNCHANGED table
      BY <2>4 DEF ClaimFails, Crash
    <3> QED
      BY <3>1, ContinueLease DEF LeaseMatches, table
  <2>5. ASSUME NEW m \in Leads, CallModel(w, m) \/ RejectBlank(w, m)
        PROVE  status'[l] = "pending" /\ owner'[l] = v /\ claimAge'[l] = leaseAge'[v]
    BY <2>5 DEF CallModel, RejectBlank, table, history, LeaseMatches, WithinLease
  <2>6. CASE Resend(w) \/ ModelAnswers(w) \/ ModelRaises(w)
    BY <2>6 DEF Resend, ModelAnswers, ModelRaises, table, history, LeaseMatches, WithinLease
  <2>7. CASE Write(w) \/ WriteReplyLost(w)
    <3>1. /\ phase[w] \in Writes /\ Execute(Request(w))
          /\ Continue(w, todo[w] \ {cur[w]})
      BY <2>7 DEF Write, WriteReplyLost
    <3>2. todo[w] \ {cur[w]} \in SUBSET todo[w]
      OBVIOUS
    <3>3. WithinLease(v, l) /\ leaseAge'[v] = leaseAge[v] /\ (v = w => l # cur[w])
      BY <3>1, <3>2, ContinueLease
    <3>4. Request(w) \in Requests /\ (Request(w).worker = v => Request(w).lead # l)
      BY <3>1, <3>3, RequestType DEF Request
    <3> QED
      BY <3>1, <3>3, <3>4, ExecuteKeepsLeases
  <2>8. CASE WriteDropped(w) \/ WriteDelayed(w)
    <3>1. Continue(w, todo[w] \ {cur[w]}) /\ UNCHANGED table
      BY <2>8 DEF WriteDropped, WriteDelayed
    <3>2. todo[w] \ {cur[w]} \in SUBSET todo[w]
      OBVIOUS
    <3> QED
      BY <3>1, <3>2, ContinueLease DEF LeaseMatches, table
  <2> QED
    BY <1>3, <2>1, <2>2, <2>3, <2>4, <2>5, <2>6, <2>7, <2>8 DEF WorkerStep
<1>4. ASSUME NEW r \in late, LateWrite(r)
      PROVE  status'[l] = "pending" /\ owner'[l] = v /\ claimAge'[l] = leaseAge'[v]
  <2>1. r \in Requests /\ r.worker \in Workers
    BY DEF ShapeInv, TypeOK, Requests
  <2>2. WithinLease(v, l) /\ leaseAge' = leaseAge
    BY <1>4, <2>1 DEF LateWrite, worker, WithinLease, ShapeInv, TypeOK
  <2>3. OwnedAndPending(r) /\ r.worker = v => r.lead # l
    BY <1>4, <2>1 DEF LateWrite, worker, WithinLease, ShapeInv, TypeOK
  <2> QED
    BY <1>4, <2>1, <2>2, <2>3, ExecuteKeepsLeases DEF LateWrite
<1>5. ASSUME NEW r \in late, LateDropped(r)
      PROVE  status'[l] = "pending" /\ owner'[l] = v /\ claimAge'[l] = leaseAge'[v]
  BY <1>5 DEF LateDropped, table, worker, history, LeaseMatches, WithinLease
<1>6. CASE UNCHANGED vars
  BY <1>6 DEF vars, LeaseMatches, WithinLease
<1> QED
  BY <1>1, <1>2, <1>3, <1>4, <1>5, <1>6 DEF Next

LEMMA LeaseInvariant == Spec => []LeaseInv
<1>1. Init => LeaseInv
  BY ShapeInit DEF LeaseInv, LeaseMatches, WithinLease, Init
<1>2. LeaseInv /\ [Next]_vars => LeaseInv'
  BY ShapeNext, LeaseNext DEF LeaseInv
<1> QED
  BY <1>1, <1>2, PTL DEF Spec

\* A worker within its claim timeout owns what it works on: only a delayed
\* write of its own worker id can end its claim.
THEOREM LeaseIsHonoured == Spec => []LeaseHonoured
<1>1. LeaseInv => LeaseHonoured
  BY LimitsAssumption
     DEF LeaseInv, LeaseMatches, LeaseHonoured, WithinLease, Stale, ShapeInv, TypeOK
<1> QED
  BY <1>1, LeaseInvariant, PTL

\* Two workers within their claim timeouts never work on the same lead.
THEOREM LeasesExclude == Spec => []LeaseExclusion
<1>1. LeaseInv => LeaseExclusion
  BY DEF LeaseInv, LeaseMatches, LeaseExclusion
<1> QED
  BY <1>1, LeaseInvariant, PTL

-----------------------------------------------------------------------------
(* Settled leads.                                                          *)

\* A step that executes one request, or none, against the table.
Executes(r) == r \in Requests /\ (r.kind \in Outcomes => r.wait = 0) /\ Execute(r)
TableStep ==
  \/ UNCHANGED table
  \/ Tick
  \/ \E l \in Leads : Arrive(l)
  \/ \E w \in Workers, batch \in SUBSET Leads : Claimable(batch) /\ TakeClaims(w, batch)
  \/ \E r \in Requests : Executes(r)

LEMMA NextTableStep == ASSUME ShapeInv, [Next]_vars PROVE TableStep
<1>1. CASE Tick \/ (\E l \in Leads : Arrive(l)) \/ UNCHANGED vars
  BY <1>1 DEF TableStep, vars, table
<1>2. ASSUME NEW w \in Workers, WorkerStep(w) PROVE TableStep
  <2>1. CASE Claim(w) \/ ClaimReplyLost(w)
    BY <2>1 DEF Claim, ClaimReplyLost, TableStep
  <2>2. CASE Write(w) \/ WriteReplyLost(w)
    <3>1. phase[w] \in Writes /\ Execute(Request(w))
      BY <2>2 DEF Write, WriteReplyLost
    <3>2. Executes(Request(w)) /\ Request(w) \in Requests
      BY <3>1, RequestType DEF Executes
    <3> QED BY <3>2 DEF TableStep
  <2>3. CASE UNCHANGED table
    BY <2>3 DEF TableStep
  <2> QED
    BY <1>2, <2>1, <2>2, <2>3
       DEF WorkerStep, StartBatch, ClaimFails, CallModel, RejectBlank, Resend,
           ModelAnswers, ModelRaises, WriteDropped, WriteDelayed, Crash
<1>3. ASSUME NEW r \in late, LateWrite(r) \/ LateDropped(r) PROVE TableStep
  <2>1. r \in Requests /\ (r.kind \in Outcomes => r.wait = 0)
    BY DEF ShapeInv, TypeOK, TerminalRequests
  <2> QED
    BY <1>3, <2>1 DEF LateWrite, LateDropped, TableStep, Executes
<1> QED
  BY <1>1, <1>2, <1>3 DEF Next

SettleInv == ShapeInv /\ ClaimsOnlyPending

LEMMA SettleNext == ASSUME SettleInv, TableStep PROVE ClaimsOnlyPending'
<1> USE DEF SettleInv
<1> SUFFICES ASSUME NEW l \in Leads, owner'[l] # NoWorker \/ wait'[l] > 0
             PROVE  status'[l] = "pending"
  BY DEF ClaimsOnlyPending
<1>1. CASE UNCHANGED table
  BY <1>1 DEF table, ClaimsOnlyPending
<1>2. CASE Tick
  BY <1>2 DEF Tick, Sooner, ClaimsOnlyPending, ShapeInv, TypeOK
<1>3. CASE \E m \in Leads : Arrive(m)
  BY <1>3 DEF Arrive, ClaimsOnlyPending, ShapeInv, TypeOK
<1>4. ASSUME NEW w \in Workers, NEW batch \in SUBSET Leads,
             Claimable(batch), TakeClaims(w, batch)
      PROVE  status'[l] = "pending"
  BY <1>4, ClaimType DEF TakeClaims, Candidate, ClaimsOnlyPending
<1>5. ASSUME NEW r \in Requests, Executes(r) PROVE status'[l] = "pending"
  <2>1. CASE OwnedAndPending(r) /\ r.lead = l
    <3>1. owner'[l] = NoWorker /\ wait'[l] = r.wait /\ r.wait > 0
      BY <1>5, <2>1 DEF Executes, Execute, ShapeInv, TypeOK
    <3>2. r.kind = "release"
      BY <1>5, <3>1 DEF Executes, Requests, Writes
    <3> QED
      BY <1>5, <2>1, <3>2 DEF Executes, Execute, OwnedAndPending, ShapeInv, TypeOK
  <2>2. CASE OwnedAndPending(r) /\ r.lead # l
    BY <1>5, <2>2 DEF Executes, Execute, ClaimsOnlyPending, ShapeInv, TypeOK
  <2>3. CASE ~OwnedAndPending(r)
    BY <1>5, <2>3 DEF Executes, Execute, table, ClaimsOnlyPending
  <2> QED BY <2>1, <2>2, <2>3
<1> QED
  BY <1>1, <1>2, <1>3, <1>4, <1>5 DEF TableStep

\* No settled lead is claimed or waiting for a retry.
THEOREM ClaimsArePending == Spec => []ClaimsOnlyPending
<1>1. Init => SettleInv
  BY ShapeInit DEF SettleInv, Init, ClaimsOnlyPending
<1>2. SettleInv /\ [Next]_vars => SettleInv'
  BY ShapeNext, NextTableStep, SettleNext DEF SettleInv
<1>3. SettleInv => ClaimsOnlyPending
  BY DEF SettleInv
<1> QED
  BY <1>1, <1>2, <1>3, PTL DEF Spec

LEMMA SettleInvariant == Spec => []SettleInv
<1>1. Init => SettleInv
  BY ShapeInit DEF SettleInv, Init, ClaimsOnlyPending
<1>2. SettleInv /\ [Next]_vars => SettleInv'
  BY ShapeNext, NextTableStep, SettleNext DEF SettleInv
<1> QED
  BY <1>1, <1>2, PTL DEF Spec

LEMMA TableStepKeepsSettled == ASSUME SettleInv, TableStep PROVE KeepsSettled
<1> USE DEF SettleInv
<1> SUFFICES ASSUME NEW l \in Leads, status[l] \in Outcomes
             PROVE  /\ status'[l] = status[l]
                    /\ attempts'[l] = attempts[l]
                    /\ owner'[l] = NoWorker
  BY DEF KeepsSettled
<1>1. owner[l] = NoWorker /\ status[l] # "pending" /\ status[l] # "absent"
  BY DEF ClaimsOnlyPending, Outcomes
<1>2. CASE UNCHANGED table \/ Tick
  BY <1>1, <1>2 DEF table, Tick
<1>3. CASE \E m \in Leads : Arrive(m)
  BY <1>1, <1>3 DEF Arrive, ShapeInv, TypeOK
<1>4. ASSUME NEW w \in Workers, NEW batch \in SUBSET Leads,
             Claimable(batch), TakeClaims(w, batch)
      PROVE  status'[l] = status[l] /\ attempts'[l] = attempts[l] /\ owner'[l] = NoWorker
  BY <1>1, <1>4, ClaimType DEF TakeClaims, Candidate
<1>5. ASSUME NEW r \in Requests, Executes(r)
      PROVE  status'[l] = status[l] /\ attempts'[l] = attempts[l] /\ owner'[l] = NoWorker
  BY <1>1, <1>5 DEF Executes, Execute, OwnedAndPending, table, ShapeInv, TypeOK
<1> QED
  BY <1>2, <1>3, <1>4, <1>5 DEF TableStep

\* No stale worker, reclaiming worker or delayed write touches a settled lead.
THEOREM SettledStaysSettled == Spec => SettledIsFinal
<1>1. SettleInv /\ [Next]_vars => [KeepsSettled]_vars
  BY NextTableStep, TableStepKeepsSettled DEF SettleInv
<1> QED
  BY <1>1, SettleInvariant, PTL DEF Spec, SettledIsFinal

SavedInv == SettleInv /\ SavedOnce

LEMMA SavedNext == ASSUME SavedInv, [Next]_vars PROVE SavedOnce'
<1> USE DEF SavedInv
<1>1. KeepsSettled \/ UNCHANGED vars
  BY NextTableStep, TableStepKeepsSettled DEF SettleInv
<1>2. \A l \in Leads : status[l] \in Outcomes => status'[l] \in Outcomes
  BY <1>1 DEF KeepsSettled, vars
<1>3. CASE saved' = saved
  BY <1>2, <1>3 DEF SavedOnce, SettleInv, ShapeInv, TypeOK
<1>4. ASSUME NEW w \in Workers, Write(w) PROVE SavedOnce'
  <2>1. /\ phase[w] \in Writes /\ Execute(Request(w))
        /\ Request(w).lead = cur[w] /\ Request(w).kind = phase[w]
        /\ cur[w] \in Leads
    BY <1>4, RequestType DEF Write, Request, SettleInv
  <2>2. CASE phase[w] \in Outcomes /\ OwnedAndPending(Request(w))
    <3>1. saved' = [saved EXCEPT ![cur[w]] = @ + 1]
      BY <1>4, <2>2 DEF Write
    <3>2. saved[cur[w]] = 0
      <4>1. status[cur[w]] = "pending"
        BY <2>1, <2>2 DEF OwnedAndPending
      <4>2. saved[cur[w]] \in Nat /\ saved[cur[w]] <= 1 /\ saved[cur[w]] # 1
        BY <2>1, <4>1 DEF SavedOnce, Outcomes, SettleInv, ShapeInv, TypeOK
      <4> QED BY <4>2
    <3>3. status'[cur[w]] \in Outcomes
      BY <2>1, <2>2 DEF Execute, Outcomes, SettleInv, ShapeInv, TypeOK
    <3> QED
      BY <1>2, <2>1, <3>1, <3>2, <3>3 DEF SavedOnce, SettleInv, ShapeInv, TypeOK
  <2>3. CASE ~(phase[w] \in Outcomes /\ OwnedAndPending(Request(w)))
    <3>1. saved' = saved
      BY <1>4, <2>3 DEF Write, SettleInv, ShapeInv, TypeOK
    <3> QED BY <1>3, <3>1
  <2> QED BY <2>2, <2>3
<1> QED
  BY <1>3, <1>4
     DEF Next, vars, Tick, Arrive, WorkerStep, StartBatch, Claim, ClaimReplyLost, ClaimFails,
         CallModel, RejectBlank, Resend, ModelAnswers, ModelRaises, WriteReplyLost, WriteDropped,
         WriteDelayed, Crash, LateWrite, LateDropped, history

\* A lead is reported as SAVED at most once, by one worker, and only when settled.
THEOREM SavedAtMostOnce == Spec => []SavedOnce
<1>1. Init => SavedInv
  BY ShapeInit DEF SavedInv, SettleInv, Init, ClaimsOnlyPending, SavedOnce
<1>2. SavedInv /\ [Next]_vars => SavedInv'
  BY ShapeNext, NextTableStep, SettleNext, SavedNext DEF SavedInv, SettleInv
<1>3. SavedInv => SavedOnce
  BY DEF SavedInv
<1> QED
  BY <1>1, <1>2, <1>3, PTL DEF Spec

-----------------------------------------------------------------------------
(* Attempts pay for the requests to the model.                             *)

Tries == 0..ModelRetries

\* What an attempt pays for: a request of its worker, and its repetitions.  A worker
\* owes a lead all of them until it calls the model for it, then those not yet sent.
Owed(l) ==
  {t \in Workers \X Tries :
     /\ l \in todo[t[1]]
     /\ cur[t[1]] = l => phase[t[1]] = "calling" /\ t[2] >= sends[t[1]]}

\* CallsArePaidFor, strengthened by the requests that may still be sent.
Balanced(l) == calls[l] + Cardinality(Owed(l)) <= (1 + ModelRetries) * attempts[l]
BudgetInv == ShapeInv /\ \A l \in Leads : Balanced(l)

LEMMA TriesFinite ==
  /\ \A w : IsFiniteSet({w} \X Tries) /\ Cardinality({w} \X Tries) = 1 + ModelRetries
  /\ IsFiniteSet(Workers \X Tries)
<1>1. IsFiniteSet(Tries) /\ Cardinality(Tries) = 1 + ModelRetries
  BY FS_Interval, LimitsAssumption DEF Tries
<1>2. ASSUME NEW w
      PROVE  IsFiniteSet({w} \X Tries) /\ Cardinality({w} \X Tries) = 1 + ModelRetries
  <2>1. IsFiniteSet({w}) /\ Cardinality({w}) = 1
    BY FS_Singleton
  <2>2. Cardinality({w} \X Tries) = 1 * (1 + ModelRetries) /\ IsFiniteSet({w} \X Tries)
    BY <1>1, <2>1, FS_Product
  <2> QED BY <2>2, LimitsAssumption
<1>3. IsFiniteSet(Workers \X Tries)
  BY <1>1, FS_Product, WorkersAssumption
<1> QED BY <1>2, <1>3

LEMMA OwedFinite ==
  \A l \in Leads : IsFiniteSet(Owed(l)) /\ Cardinality(Owed(l)) \in Nat
<1>1. \A l \in Leads : Owed(l) \in SUBSET (Workers \X Tries)
  BY DEF Owed
<1> QED BY <1>1, TriesFinite, FS_Subset, FS_CardinalityType

LEMMA BudgetNumbers ==
  ASSUME BudgetInv, NEW l \in Leads
  PROVE  /\ calls[l] \in Nat /\ attempts[l] \in Nat /\ ModelRetries \in Nat
         /\ (1 + ModelRetries) * attempts[l] \in Nat
         /\ calls[l] + Cardinality(Owed(l)) <= (1 + ModelRetries) * attempts[l]
         /\ (1 + ModelRetries) * (attempts[l] + 1)
              = (1 + ModelRetries) * attempts[l] + (1 + ModelRetries)
<1>1. calls[l] \in Nat /\ attempts[l] \in Nat /\ ModelRetries \in Nat
  BY LimitsAssumption DEF BudgetInv, ShapeInv, TypeOK
<1>2. \A r, a \in Nat : /\ (1 + r) * a \in Nat
                        /\ (1 + r) * (a + 1) = (1 + r) * a + (1 + r)
  OBVIOUS
<1> QED BY <1>1, <1>2 DEF BudgetInv, Balanced

\* A step that sends no request and owes nobody more.
LEMMA BudgetKept ==
  ASSUME BudgetInv, attempts' = attempts, calls' = calls,
         \A l \in Leads : Owed(l)' \subseteq Owed(l)
  PROVE  \A l \in Leads : Balanced(l)'
<1> SUFFICES ASSUME NEW l \in Leads PROVE Balanced(l)'
  OBVIOUS
<1>1. /\ Cardinality(Owed(l)') <= Cardinality(Owed(l))
      /\ Cardinality(Owed(l)') \in Nat /\ Cardinality(Owed(l)) \in Nat
  BY OwedFinite, FS_Subset, FS_CardinalityType
<1> QED BY <1>1, BudgetNumbers DEF Balanced

\* A request that is sent was owed.
LEMMA RequestPaid ==
  ASSUME BudgetInv, NEW m \in Leads, NEW t \in Owed(m), attempts' = attempts,
         calls' = [calls EXCEPT ![m] = @ + 1],
         \A l \in Leads : Owed(l)' \subseteq IF l = m THEN Owed(l) \ {t} ELSE Owed(l)
  PROVE  \A l \in Leads : Balanced(l)'
<1> SUFFICES ASSUME NEW l \in Leads PROVE Balanced(l)'
  OBVIOUS
<1>1. IsFiniteSet(Owed(l)) /\ Cardinality(Owed(l)) \in Nat
  BY OwedFinite
<1>2. calls'[l] = IF l = m THEN calls[l] + 1 ELSE calls[l]
  BY DEF BudgetInv, ShapeInv, TypeOK
<1>3. CASE l = m
  <2>1. /\ IsFiniteSet(Owed(l) \ {t})
        /\ Cardinality(Owed(l) \ {t}) = Cardinality(Owed(l)) - 1
    BY <1>1, <1>3, FS_RemoveElement
  <2>2. /\ Cardinality(Owed(l)') <= Cardinality(Owed(l)) - 1
        /\ Cardinality(Owed(l)') \in Nat
    BY <1>3, <2>1, FS_Subset, FS_CardinalityType
  <2> QED BY <1>1, <1>2, <1>3, <2>2, BudgetNumbers DEF Balanced
<1>4. CASE l # m
  <2>1. /\ Cardinality(Owed(l)') <= Cardinality(Owed(l))
        /\ Cardinality(Owed(l)') \in Nat
    BY <1>1, <1>4, FS_Subset, FS_CardinalityType
  <2> QED BY <1>1, <1>2, <1>4, <2>1, BudgetNumbers DEF Balanced
<1> QED BY <1>3, <1>4

LEMMA ContinueOwes ==
  ASSUME ShapeInv, NEW w \in Workers, NEW rest \in SUBSET todo[w], Continue(w, rest),
         cur[w] \notin rest
  PROVE  \A l \in Leads : Owed(l)' \subseteq Owed(l)
<1> SUFFICES ASSUME NEW l \in Leads, NEW t \in Workers \X Tries, l \in todo'[t[1]],
                    cur'[t[1]] = l => phase'[t[1]] = "calling" /\ t[2] >= sends'[t[1]]
             PROVE  l \in todo[t[1]] /\ (cur[t[1]] = l =>
                                           phase[t[1]] = "calling" /\ t[2] >= sends[t[1]])
  BY DEF Owed
<1> DEFINE v == t[1]
<1>1. v \in Workers
  OBVIOUS
<1> HIDE DEF v
<1>2. CASE v = w
  <2>1. v \in Workers /\ l \in rest /\ cur[v] # l
    BY <1>1, <1>2 DEF Continue, ShapeInv, TypeOK, v
  <2> QED BY <2>1, <1>2 DEF v
<1>3. CASE v # w
  <2>1. /\ todo'[v] = todo[v] /\ cur'[v] = cur[v] /\ phase'[v] = phase[v]
        /\ sends'[v] = sends[v]
    BY <1>1, <1>3 DEF Continue, ShapeInv, TypeOK
  <2> QED BY <2>1 DEF v
<1> QED BY <1>2, <1>3

\* A claim adds what one attempt pays for to each lead, and counts the attempt.
LEMMA ClaimPays ==
  ASSUME BudgetInv, NEW w \in Workers, NEW batch \in SUBSET Leads,
         TakeClaims(w, batch), calls' = calls,
         \A l \in Leads : Owed(l)' \subseteq
                            IF l \in batch THEN Owed(l) \cup ({w} \X Tries) ELSE Owed(l)
  PROVE  \A l \in Leads : Balanced(l)'
<1> SUFFICES ASSUME NEW l \in Leads PROVE Balanced(l)'
  OBVIOUS
<1>1. IsFiniteSet(Owed(l)) /\ Cardinality(Owed(l)) \in Nat
  BY OwedFinite
<1>2. CASE l \in batch
  <2> DEFINE more == {w} \X Tries
  <2>1. IsFiniteSet(more) /\ Cardinality(more) = 1 + ModelRetries
    BY TriesFinite
  <2> HIDE DEF more
  <2>2. /\ IsFiniteSet(Owed(l) \cup more)
        /\ Cardinality(Owed(l) \cup more)
             = Cardinality(Owed(l)) + Cardinality(more) - Cardinality(Owed(l) \cap more)
    BY <1>1, <2>1, FS_Union
  <2>3. Cardinality(Owed(l) \cap more) \in Nat
    BY <1>1, FS_Subset, FS_CardinalityType
  <2>4. Owed(l)' \in SUBSET (Owed(l) \cup more)
    BY <1>2 DEF more
  <2>5. /\ Cardinality(Owed(l)') <= Cardinality(Owed(l) \cup more)
        /\ Cardinality(Owed(l)') \in Nat
    BY <2>2, <2>4, FS_Subset, FS_CardinalityType
  <2>6. Cardinality(Owed(l)') <= Cardinality(Owed(l)) + (1 + ModelRetries)
    BY <1>1, <2>1, <2>2, <2>3, <2>5, BudgetNumbers
  <2>7. attempts'[l] = attempts[l] + 1
    BY <1>2 DEF TakeClaims
  <2>8. calls'[l] + Cardinality(Owed(l)') <= (1 + ModelRetries) * (attempts[l] + 1)
    BY <1>1, <2>5, <2>6, BudgetNumbers
  <2> QED BY <2>7, <2>8 DEF Balanced
<1>3. CASE l \notin batch
  <2>1. /\ Cardinality(Owed(l)') <= Cardinality(Owed(l))
        /\ Cardinality(Owed(l)') \in Nat
    BY <1>1, <1>3, FS_Subset, FS_CardinalityType
  <2>2. attempts'[l] = attempts[l]
    BY <1>3 DEF TakeClaims
  <2>3. calls'[l] + Cardinality(Owed(l)') <= (1 + ModelRetries) * attempts[l]
    BY <1>1, <2>1, BudgetNumbers
  <2> QED BY <2>2, <2>3 DEF Balanced
<1> QED BY <1>2, <1>3

\* CallModel and Resend send what is owed, and owe the others no more.
LEMMA SendPays ==
  ASSUME BudgetInv, NEW w \in Workers, NEW m \in Leads, CallModel(w, m) \/
           (Resend(w) /\ cur[w] = m)
  PROVE  \A l \in Leads : Balanced(l)'
<1> USE LimitsAssumption DEF BudgetInv
<1> DEFINE used == IF phase[w] = "calling" THEN sends[w] ELSE 0
<1>1. /\ used \in Tries /\ m \in todo[w] /\ phase[w] \in {"between", "calling"}
      /\ phase[w] = "between" => cur[w] = NoLead
      /\ phase[w] = "calling" => cur[w] = m
  BY DEF CallModel, Resend, ShapeInv, WorkerShape, TypeOK, Tries
<1>2. /\ attempts' = attempts /\ todo' = todo /\ calls' = [calls EXCEPT ![m] = @ + 1]
      /\ phase' = [phase EXCEPT ![w] = "calling"] /\ cur' = [cur EXCEPT ![w] = m]
      /\ sends' = [sends EXCEPT ![w] = used + 1]
  BY DEF CallModel, Resend, table, ShapeInv, TypeOK
<1> HIDE DEF used
<1>3. /\ phase'[w] = "calling" /\ cur'[w] = m /\ sends'[w] = used + 1
      /\ \A v \in Workers : v # w => /\ phase'[v] = phase[v] /\ cur'[v] = cur[v]
                                     /\ sends'[v] = sends[v]
  BY <1>2 DEF ShapeInv, TypeOK
<1>4. <<w, used>> \in Owed(m)
  <2>1. cur[w] = m => phase[w] = "calling" /\ used >= sends[w]
    BY <1>1, LeadsAssumption DEF used, ShapeInv, TypeOK
  <2> QED BY <1>1, <2>1 DEF Owed
<1>5. ASSUME NEW l \in Leads, NEW t \in Owed(l)'
      PROVE  t \in IF l = m THEN Owed(l) \ {<<w, used>>} ELSE Owed(l)
  <2>1. PICK v \in Workers, i \in Tries : t = <<v, i>>
    BY <1>5 DEF Owed
  <2>2. l \in todo[v] /\ (cur'[v] = l => phase'[v] = "calling" /\ i >= sends'[v])
    BY <1>2, <1>5, <2>1 DEF Owed
  <2>3. CASE v # w
    <3>1. cur[v] = l => phase[v] = "calling" /\ i >= sends[v]
      BY <1>3, <2>2, <2>3
    <3>2. t \in Owed(l)
      BY <2>1, <2>2, <3>1 DEF Owed
    <3> QED BY <2>1, <2>3, <3>2
  <2>4. CASE v = w /\ l = m
    <3>1. i >= used + 1 /\ used \in Nat /\ i \in Nat
      BY <1>1, <1>3, <2>2, <2>4 DEF Tries
    <3>2. i # used
      BY <3>1
    <3>3. cur[v] = l => phase[v] = "calling" /\ i >= sends[v]
      BY <1>1, <2>4, <3>1, LeadsAssumption DEF used
    <3>4. t \in Owed(l)
      BY <2>1, <2>2, <3>3 DEF Owed
    <3> QED BY <2>1, <2>4, <3>2, <3>4
  <2>5. CASE v = w /\ l # m
    <3>1. cur[v] # l
      BY <1>1, <2>5, LeadsAssumption
    <3>2. t \in Owed(l)
      BY <2>1, <2>2, <3>1 DEF Owed
    <3> QED BY <2>5, <3>2
  <2> QED BY <2>3, <2>4, <2>5
<1> QED BY <1>2, <1>4, <1>5, RequestPaid

LEMMA BudgetNext == ASSUME BudgetInv, [Next]_vars PROVE \A l \in Leads : Balanced(l)'
<1> USE DEF BudgetInv
<1>1. CASE UNCHANGED <<attempts, calls, todo, cur, phase, sends>>
  BY <1>1, BudgetKept DEF Owed
<1>2. ASSUME NEW w \in Workers, WorkerStep(w) PROVE \A l \in Leads : Balanced(l)'
  <2>1. CASE Claim(w)
    <3>1. PICK batch \in SUBSET Leads : TakeClaims(w, batch) /\ Continue(w, batch)
      BY <2>1 DEF Claim
    <3>2. todo[w] = {} /\ calls' = calls
      BY <2>1 DEF Claim, ShapeInv, WorkerShape
    <3>3. ASSUME NEW l \in Leads, NEW t \in Owed(l)'
          PROVE  t \in IF l \in batch THEN Owed(l) \cup ({w} \X Tries) ELSE Owed(l)
      <4>1. PICK v \in Workers, i \in Tries : t = <<v, i>>
        BY <3>3 DEF Owed
      <4>2. /\ l \in todo'[v]
            /\ cur'[v] = l => phase'[v] = "calling" /\ i >= sends'[v]
        BY <3>3, <4>1 DEF Owed
      <4>3. CASE v = w
        BY <3>1, <4>1, <4>2, <4>3 DEF Continue, ShapeInv, TypeOK
      <4>4. CASE v # w
        <5>1. /\ todo'[v] = todo[v] /\ cur'[v] = cur[v] /\ phase'[v] = phase[v]
              /\ sends'[v] = sends[v]
          BY <3>1, <4>4 DEF Continue, ShapeInv, TypeOK
        <5> QED BY <4>1, <4>2, <5>1 DEF Owed
      <4> QED BY <4>3, <4>4
    <3> QED BY <3>1, <3>2, <3>3, ClaimPays
  <2>2. CASE ClaimReplyLost(w)
    <3>1. PICK batch \in SUBSET Leads : TakeClaims(w, batch)
      BY <2>2 DEF ClaimReplyLost
    <3>2. Continue(w, {}) /\ {} \in SUBSET todo[w] /\ calls' = calls
      BY <2>2 DEF ClaimReplyLost
    <3>3. \A l \in Leads : Owed(l)' \subseteq Owed(l)
      BY <3>2, ContinueOwes
    <3>4. \A l \in Leads : Owed(l)' \subseteq
            IF l \in batch THEN Owed(l) \cup ({w} \X Tries) ELSE Owed(l)
      BY <3>3
    <3> QED BY <3>1, <3>2, <3>4, ClaimPays
  <2>3. CASE ClaimFails(w) \/ Crash(w)
    <3>1. Continue(w, {}) /\ {} \in SUBSET todo[w] /\ UNCHANGED <<attempts, calls>>
      BY <2>3 DEF ClaimFails, Crash, table
    <3> QED BY <3>1, ContinueOwes, BudgetKept
  <2>4. ASSUME NEW m \in Leads, CallModel(w, m) PROVE \A l \in Leads : Balanced(l)'
    BY <2>4, SendPays
  <2>5. CASE Resend(w)
    <3>1. cur[w] \in Leads
      BY <2>5 DEF Resend, ShapeInv, WorkerShape, TypeOK
    <3> QED BY <2>5, <3>1, SendPays
  <2>6. ASSUME \/ \E m \in Leads : RejectBlank(w, m)
               \/ ModelAnswers(w) \/ ModelRaises(w) \/ StartBatch(w)
        PROVE  \A l \in Leads : Balanced(l)'
    <3>1. /\ UNCHANGED <<attempts, calls, todo>>
          /\ phase' = [phase EXCEPT ![w] = phase'[w]] /\ phase'[w] # "calling"
          /\ cur' = [cur EXCEPT ![w] = cur'[w]] /\ sends' = [sends EXCEPT ![w] = sends'[w]]
          /\ cur[w] = cur'[w] \/ cur[w] = NoLead
      BY <2>6 DEF RejectBlank, ModelAnswers, ModelRaises, StartBatch, Outcomes, table, history,
                  ShapeInv, WorkerShape, TypeOK
    <3>2. ASSUME NEW l \in Leads, NEW t \in Owed(l)' PROVE t \in Owed(l)
      <4>1. PICK v \in Workers, i \in Tries : t = <<v, i>>
        BY <3>2 DEF Owed
      <4>2. /\ l \in todo[v]
            /\ cur'[v] = l => phase'[v] = "calling" /\ i >= sends'[v]
        BY <3>1, <3>2, <4>1 DEF Owed
      <4>3. CASE v = w
        <5>1. cur[v] # l
          BY <3>1, <4>2, <4>3, LeadsAssumption
        <5> QED BY <4>1, <4>2, <5>1 DEF Owed
      <4>4. CASE v # w
        <5>1. cur'[v] = cur[v] /\ phase'[v] = phase[v] /\ sends'[v] = sends[v]
          BY <3>1, <4>4 DEF ShapeInv, TypeOK
        <5> QED BY <4>1, <4>2, <5>1 DEF Owed
      <4> QED BY <4>3, <4>4
    <3> QED BY <3>1, <3>2, BudgetKept
  <2>7. CASE Write(w) \/ WriteReplyLost(w) \/ WriteDropped(w) \/ WriteDelayed(w)
    <3>1. Continue(w, todo[w] \ {cur[w]}) /\ UNCHANGED <<attempts, calls>>
      BY <2>7 DEF Write, WriteReplyLost, WriteDropped, WriteDelayed, Execute, table
    <3>2. todo[w] \ {cur[w]} \in SUBSET todo[w] /\ cur[w] \notin todo[w] \ {cur[w]}
      OBVIOUS
    <3> QED BY <3>1, <3>2, ContinueOwes, BudgetKept
  <2> QED
    BY <1>2, <2>1, <2>2, <2>3, <2>4, <2>5, <2>6, <2>7 DEF WorkerStep
<1>3. CASE (\E l \in Leads : Arrive(l)) \/ Tick \/ UNCHANGED vars
           \/ (\E r \in late : LateWrite(r) \/ LateDropped(r))
  BY <1>1, <1>3 DEF Arrive, Tick, vars, LateWrite, LateDropped, Execute, table, worker, history
<1> QED
  BY <1>2, <1>3 DEF Next

\* No request reaches the model, the client's repetitions included, on an attempt that
\* the table has not counted: a lead is sent at most (1 + ModelRetries) * MaxAttempts
\* times.
THEOREM CallsPaidFor == Spec => []CallsArePaidFor
<1>1. ASSUME Init PROVE BudgetInv
  <2>1. \A l \in Leads : Owed(l) = {} /\ calls[l] = 0 /\ attempts[l] = 0
    BY <1>1 DEF Init, Owed
  <2>2. (1 + ModelRetries) * 0 = 0 /\ Cardinality({}) = 0
    BY FS_EmptySet, LimitsAssumption
  <2> QED BY <1>1, <2>1, <2>2, ShapeInit DEF BudgetInv, Balanced
<1>2. BudgetInv /\ [Next]_vars => BudgetInv'
  BY ShapeNext, BudgetNext DEF BudgetInv
<1>3. ASSUME BudgetInv, NEW l \in Leads PROVE calls[l] <= (1 + ModelRetries) * attempts[l]
  <2>1. Cardinality(Owed(l)) \in Nat
    BY OwedFinite
  <2> QED BY <1>3, <2>1, BudgetNumbers
<1>4. BudgetInv => CallsArePaidFor
  BY <1>3 DEF CallsArePaidFor
<1> QED
  BY <1>1, <1>2, <1>4, PTL DEF Spec

-----------------------------------------------------------------------------
(* ClassificationQueue implements LeadLease.                               *)

\* The check constraint on the claim pair: no owner, no claim time.
ClaimPair == \A l \in Leads : owner[l] = NoWorker => claimAge[l] = 0
RefineInv == ShapeInv /\ ClaimPair

LEMMA PairNext == ASSUME RefineInv, TableStep PROVE ClaimPair'
<1> USE DEF RefineInv
<1> SUFFICES ASSUME NEW l \in Leads, owner'[l] = NoWorker
             PROVE  claimAge'[l] = 0
  BY DEF ClaimPair
<1>1. CASE UNCHANGED table \/ (\E m \in Leads : Arrive(m))
  BY <1>1 DEF table, Arrive, ClaimPair
<1>2. CASE Tick
  BY <1>2 DEF Tick
<1>3. ASSUME NEW w \in Workers, NEW batch \in SUBSET Leads, TakeClaims(w, batch)
      PROVE  claimAge'[l] = 0
  BY <1>3, WorkersAssumption DEF TakeClaims, ClaimPair
<1>4. ASSUME NEW r \in Requests, Executes(r) PROVE claimAge'[l] = 0
  BY <1>4 DEF Executes, Execute, table, ClaimPair, ShapeInv, TypeOK
<1> QED
  BY <1>1, <1>2, <1>3, <1>4 DEF TableStep

\* Every step of the queue is a step of the abstract lease, or none.
LEMMA StepRefines ==
  ASSUME RefineInv, TableStep
  PROVE  [Lease!LeaseNext]_Lease!leaseVars
<1> USE LimitsAssumption DEF RefineInv
<1>1. CASE UNCHANGED table
  BY <1>1 DEF table, Lease!leaseVars, Stale
<1>2. CASE Tick
  <2> DEFINE batch == {l \in Leads : owner[l] # NoWorker /\ Stale(l)'}
  <2>1. owner' = owner /\ status' = status /\ attempts' = attempts
    BY <1>2 DEF Tick
  <2>2. \A l \in Leads : Stale(l)' <=> Stale(l) \/ l \in batch
    BY <1>2 DEF Tick, Stale, Older, ClaimPair, ShapeInv, TypeOK
  <2>3. {l \in Leads : Stale(l)'} = {l \in Leads : Stale(l)} \cup batch
    BY <2>2
  <2>4. Lease!Expire(batch) /\ batch \in SUBSET Leads
    BY <2>1, <2>3 DEF Lease!Expire
  <2> QED BY <2>4 DEF Lease!LeaseNext
<1>3. ASSUME NEW l \in Leads, Arrive(l) PROVE Lease!Insert(l)
  BY <1>3 DEF Arrive, Lease!Insert, Stale
<1>4. ASSUME NEW w \in Workers, NEW batch \in SUBSET Leads,
             Claimable(batch), TakeClaims(w, batch)
      PROVE  Lease!Grant(batch, w)
  <2>1. \A l \in batch : Lease!Grantable(l)
    BY <1>4, ClaimType DEF Candidate, Lease!Grantable
  <2>2. {l \in Leads : Stale(l)'} = {l \in Leads : Stale(l)} \ batch
    <3>1. \A l \in Leads : l \in batch => ~Stale(l)'
      BY <1>4 DEF TakeClaims, Stale
    <3>2. \A l \in Leads : l \notin batch => claimAge'[l] = claimAge[l]
      BY <1>4 DEF TakeClaims
    <3> QED BY <3>1, <3>2 DEF Stale
  <2>3. attempts' = [l \in Leads |-> attempts[l] + IF l \in batch THEN 1 ELSE 0]
    <3>1. \A l \in Leads : attempts[l] \in Nat
      BY DEF ShapeInv, TypeOK
    <3> QED BY <1>4, <3>1 DEF TakeClaims
  <2> QED
    BY <1>4, <2>1, <2>2, <2>3 DEF Lease!Grant, TakeClaims
<1>5. ASSUME NEW r \in Requests, Executes(r)
      PROVE  [Lease!LeaseNext]_Lease!leaseVars
  <2>1. CASE OwnedAndPending(r)
    <3> DEFINE next == IF r.kind = "release" THEN "pending" ELSE r.kind
    <3>1. r.lead \in Leads /\ next \in Outcomes \cup {"pending"} /\ r.worker \in Workers
      BY DEF Requests, Writes
    <3>2. status[r.lead] = "pending" /\ owner[r.lead] # NoWorker
      BY <2>1, <3>1, WorkersAssumption DEF OwnedAndPending
    <3>3. /\ status' = [status EXCEPT ![r.lead] = next]
          /\ owner' = [owner EXCEPT ![r.lead] = NoWorker]
          /\ claimAge' = [claimAge EXCEPT ![r.lead] = 0]
          /\ attempts' = attempts
      BY <1>5, <2>1, <3>2 DEF Executes, Execute
    <3>4. /\ ~Stale(r.lead)'
          /\ \A l \in Leads : l # r.lead => claimAge'[l] = claimAge[l]
      BY <3>1, <3>3 DEF Stale, ShapeInv, TypeOK
    <3>5. {l \in Leads : Stale(l)'} = {l \in Leads : Stale(l)} \ {r.lead}
      BY <3>1, <3>4 DEF Stale
    <3>6. Lease!EndLease(r.lead, next)
      BY <3>2, <3>3, <3>5 DEF Lease!EndLease
    <3> QED BY <3>1, <3>6 DEF Lease!LeaseNext, Lease!Outcomes, Outcomes
  <2>2. CASE ~OwnedAndPending(r)
    BY <1>1, <1>5, <2>2 DEF Executes, Execute
  <2> QED BY <2>1, <2>2
<1> QED
  BY <1>1, <1>2, <1>3, <1>4, <1>5 DEF TableStep, Lease!LeaseNext

\* The queue, with its time, crashes and unreliable requests, implements the
\* abstract lease: paid-for, exclusive until expired, settled once.
THEOREM ImplementsLease == Spec => LeaseSpec
<1>1. Init => RefineInv
  BY ShapeInit DEF RefineInv, ClaimPair, Init
<1>2. Init => Lease!LeaseInit
  <2> SUFFICES ASSUME Init PROVE Lease!LeaseInit
    OBVIOUS
  <2>1. \A l \in Leads : ~Stale(l)
    BY LimitsAssumption DEF Init, Stale
  <2>2. {l \in Leads : Stale(l)} = {}
    BY <2>1
  <2> QED BY <2>2 DEF Init, Lease!LeaseInit
<1>3. RefineInv /\ [Next]_vars => RefineInv'
  BY ShapeNext, NextTableStep, PairNext DEF RefineInv
<1>4. RefineInv /\ [Next]_vars => [Lease!LeaseNext]_Lease!leaseVars
  BY NextTableStep, StepRefines DEF RefineInv
<1> QED
  BY <1>1, <1>2, <1>3, <1>4, PTL DEF Spec, LeaseSpec, Lease!LeaseSpec
=============================================================================
