---------------------------- MODULE CrmSyncProofs ----------------------------
(***************************************************************************)
(* Proofs about CrmSync, for any leads, workers and manual syncs, every    *)
(* batch limit, claim timeout, attempt limit and backoff, and any number   *)
(* of delayed writes.                                                      *)
(***************************************************************************)
EXTENDS CrmSync, FiniteSetTheorems, NaturalsInduction, WellFoundedInduction, TLAPS

-----------------------------------------------------------------------------
(* How long a retry waits.                                                 *)

\* Induction over the natural numbers, for a set of them.
LEMMA NatSetInduction ==
  ASSUME NEW S \in SUBSET Nat, 0 \in S, \A n \in S : n + 1 \in S
  PROVE  S = Nat
<1> SUFFICES ASSUME Nat \ S # {} PROVE FALSE
  OBVIOUS
<1> DEFINE R == OpToRel(<, Nat)
<1>1. IsWellFoundedOn(R, Nat)
  BY NatLessThanWellFounded
<1>2. \A x, y \in Nat : <<x, y>> \in R <=> x < y
  BY DEF OpToRel
<1> HIDE DEF R
<1>3. PICK n \in Nat \ S : \A m \in Nat \ S : ~(<<m, n>> \in R)
  BY <1>1, WFMin
<1>4. n - 1 \in Nat /\ n - 1 + 1 = n
  OBVIOUS
<1>5. n - 1 < n
  OBVIOUS
<1>6. <<n - 1, n>> \in R
  BY <1>2, <1>4, <1>5
<1>7. n - 1 \in S
  BY <1>3, <1>4, <1>6
<1> QED BY <1>4, <1>7

\* A retry waits no shorter than the base and no longer than the maximum, after
\* any number of attempts.
LEMMA RetryDelayBounds ==
  ASSUME NEW attempts \in Nat, NEW base \in Nat, NEW max \in Nat, base <= max
  PROVE  RetryDelay(attempts, base, max) \in base..max
<1> DEFINE Doubled(d) == IF d >= max \/ d * 2 > max THEN max ELSE d * 2
           Delays(f, m) == f = [n \in 0..m |-> IF n = 0 THEN base ELSE Doubled(f[n - 1])]
<1>1. \A d \in base..max : Doubled(d) \in base..max
  OBVIOUS
<1>2. ASSUME NEW m \in Nat, NEW f, Delays(f, m)
      PROVE  f \in [0..m -> base..max]
  <2> DEFINE S == {n \in Nat : n <= m => f[n] \in base..max}
  <2>1. /\ f = [n \in 0..m |-> f[n]] /\ f[0] = base
        /\ \A n \in 0..m : n # 0 => f[n] = Doubled(f[n - 1])
    BY <1>2
  <2>2. ASSUME NEW n \in 0..m, n # 0, f[n - 1] \in base..max PROVE f[n] \in base..max
    <3>1. f[n] = Doubled(f[n - 1])
      BY <2>1, <2>2
    <3> QED BY <1>1, <2>2, <3>1
  <2>3. 0 \in S
    BY <2>1
  <2>4. ASSUME NEW n \in S PROVE n + 1 \in S
    <3> SUFFICES ASSUME n + 1 <= m PROVE f[n + 1] \in base..max
      OBVIOUS
    <3>1. n <= m /\ n + 1 \in 0..m /\ n + 1 # 0 /\ n + 1 - 1 = n /\ f[n] \in base..max
      OBVIOUS
    <3> QED BY <2>2, <3>1
  <2> HIDE DEF S
  <2>5. S = Nat
    <3>1. S \in SUBSET Nat
      BY DEF S
    <3> QED BY <2>3, <2>4, <3>1, NatSetInduction
  <2>6. \A n \in 0..m : f[n] \in base..max
    BY <2>5 DEF S
  <2> QED BY <2>1, <2>6
<1>3. \A m \in Nat : \E f : Delays(f, m)
  <2> DEFINE S == {m \in Nat : \E f : Delays(f, m)}
  <2>1. 0 \in S
    <3>1. Delays([n \in 0..0 |-> base], 0)
      OBVIOUS
    <3> QED BY <3>1
  <2>2. ASSUME NEW m \in S PROVE m + 1 \in S
    <3>1. PICK f : Delays(f, m)
      OBVIOUS
    <3> DEFINE g == [n \in 0..(m + 1) |-> IF n = m + 1 THEN Doubled(f[m]) ELSE f[n]]
    <3> HIDE DEF Doubled
    <3>2. \A n \in 0..m : f[n] = IF n = 0 THEN base ELSE Doubled(f[n - 1])
      BY <3>1
    <3>3. ASSUME NEW n \in 0..(m + 1) PROVE g[n] = IF n = 0 THEN base ELSE Doubled(g[n - 1])
      <4>1. CASE n = m + 1
        <5>1. n # 0 /\ n - 1 \in 0..(m + 1) /\ n - 1 = m /\ m # m + 1
          BY <4>1
        <5>2. g[n] = Doubled(f[m]) /\ g[n - 1] = f[m]
          BY <4>1, <5>1
        <5> QED BY <5>1, <5>2
      <4>2. CASE n # m + 1
        <5>1. n \in 0..m /\ g[n] = f[n]
          BY <4>2
        <5>2. CASE n = 0
          BY <3>2, <5>1, <5>2
        <5>3. CASE n # 0
          <6>1. n - 1 \in 0..m /\ n - 1 \in 0..(m + 1) /\ n - 1 # m + 1
            BY <5>1, <5>3
          <6>2. g[n - 1] = f[n - 1]
            BY <6>1
          <6> HIDE DEF g
          <6> QED BY <3>2, <5>1, <5>3, <6>2
        <5> QED BY <5>2, <5>3
      <4> QED BY <4>1, <4>2
    <3>4. g = [n \in 0..(m + 1) |-> g[n]]
      OBVIOUS
    <3>5. Delays(g, m + 1)
      <4> HIDE DEF g
      <4> QED BY <3>3, <3>4
    <3> HIDE DEF g, Delays
    <3> QED BY <3>5
  <2> HIDE DEF S
  <2>3. S = Nat
    <3>1. S \in SUBSET Nat
      BY DEF S
    <3> QED BY <2>1, <2>2, <3>1, NatSetInduction
  <2> QED BY <2>3 DEF S
<1> DEFINE delay == CHOOSE f : Delays(f, attempts)
<1>4. Delays(delay, attempts)
  BY <1>3
<1>5. delay \in [0..attempts -> base..max]
  <2> HIDE DEF Delays, delay
  <2> QED BY <1>2, <1>4
<1>6. RetryDelay(attempts, base, max) = delay[attempts]
  BY DEF RetryDelay
<1> QED
  <2> HIDE DEF delay
  <2> QED BY <1>5, <1>6

-----------------------------------------------------------------------------
(* The inductive invariant.                                                *)

Phases == {"idle", "claiming", "between", "sending", "writing"}

\* A write, whatever it says of the next attempt.
IsRequest(r) ==
  /\ r = [from |-> r.from, lead |-> r.lead, result |-> r.result, wait |-> r.wait]
  /\ r.from \in Workers \cup {NoWorker} /\ r.lead \in Leads /\ r.result \in Results

\* The types that the properties rest on: all but those of the waits.
Types ==
  /\ sync \in [Leads -> Results \cup {"pending"}]
  /\ owner \in [Leads -> Workers \cup {NoWorker}]
  /\ claimAge \in [Leads -> 0..(ClaimTimeout + 1)]
  /\ count \in [Leads -> 0..MaxAttempts]
  /\ phase \in [Procs -> Phases]
  /\ cur \in [Procs -> Leads \cup {NoLead}]
  /\ todo \in [Workers -> SUBSET Leads]
  /\ seen \in [Workers -> [Leads -> 0..MaxAttempts]]
  /\ request = [p \in Procs |-> request[p]]
  /\ \A r \in late : IsRequest(r)
  /\ leaseAge \in [Workers -> 0..(ClaimTimeout + 1)]
  /\ disowned \in [Workers -> SUBSET Leads]
  /\ credit \in [Leads -> Int]

\* A worker holds leads between a claim and the end of its batch, and sends and
\* writes what it holds.
WorkerShape ==
  \A w \in Workers :
    /\ phase[w] \in {"idle", "claiming"} => todo[w] = {}
    /\ todo[w] = {} => leaseAge[w] = 0
    /\ phase[w] \in {"sending", "writing"} => cur[w] \in todo[w]
    /\ phase[w] \in {"idle", "claiming", "between"} => cur[w] = NoLead
    /\ phase[w] = "writing" =>
         /\ IsRequest(request[w])
         /\ request[w].from = w /\ request[w].lead = cur[w]
         /\ request[w].result = "exhausted" => seen[w][cur[w]] = MaxAttempts

\* The API writes without a claim, and gives nothing up.
AdminShape ==
  \A a \in Admins :
    /\ phase[a] \in {"sending", "writing"} => cur[a] \in Leads
    /\ phase[a] = "writing" =>
         /\ IsRequest(request[a])
         /\ request[a].from = NoWorker /\ request[a].result # "exhausted"

ShapeInv == Types /\ WorkerShape /\ AdminShape

-----------------------------------------------------------------------------
(* What the parts of an action do to the shape.                            *)

LEMMA AgedIsRequest ==
  ASSUME NEW r, IsRequest(r)
  PROVE  /\ IsRequest(Aged(r))
         /\ Aged(r).from = r.from /\ Aged(r).lead = r.lead /\ Aged(r).result = r.result
<1>1. Aged(r) = [from |-> r.from, lead |-> r.lead, result |-> r.result,
                 wait |-> Sooner(r.wait)]
  BY DEF Aged, IsRequest
<1> QED BY <1>1 DEF IsRequest

LEMMA ExecuteShape ==
  ASSUME ShapeInv, NEW r, IsRequest(r), Execute(r)
  PROVE  /\ sync' \in [Leads -> Results \cup {"pending"}]
         /\ owner' \in [Leads -> Workers \cup {NoWorker}]
         /\ claimAge' \in [Leads -> 0..(ClaimTimeout + 1)]
         /\ count' \in [Leads -> 0..MaxAttempts]
<1>1. 0 \in 0..(ClaimTimeout + 1) /\ 0 \in 0..MaxAttempts
  BY LimitsAssumption
<1>2. CASE Applies(r)
  <2>1. /\ sync' = [sync EXCEPT ![r.lead] = r.result]
        /\ owner' = [owner EXCEPT ![r.lead] = NoWorker]
        /\ claimAge' = [claimAge EXCEPT ![r.lead] = 0]
        /\ count' = [count EXCEPT ![r.lead] = IF r.from = NoWorker THEN 0 ELSE @]
    BY <1>2 DEF Execute
  <2> QED BY <1>1, <2>1 DEF ShapeInv, Types, IsRequest
<1>3. CASE ~Applies(r)
  BY <1>3 DEF Execute, table, ShapeInv, Types
<1> QED BY <1>2, <1>3

LEMMA ClaimShape ==
  ASSUME ShapeInv, NEW w \in Workers, NEW batch \in SUBSET Leads,
         Claimable(batch), TakeClaims(w, batch)
  PROVE  /\ \A l \in batch : Candidate(l)
         /\ \A l \in batch : count[l] + 1 \in 0..MaxAttempts
         /\ sync' \in [Leads -> Results \cup {"pending"}]
         /\ owner' \in [Leads -> Workers \cup {NoWorker}]
         /\ claimAge' \in [Leads -> 0..(ClaimTimeout + 1)]
         /\ count' \in [Leads -> 0..MaxAttempts]
<1>1. \A l \in batch : Candidate(l)
  BY DEF Claimable
<1>2. \A l \in batch : count[l] + 1 \in 0..MaxAttempts
  BY <1>1, LimitsAssumption DEF Candidate, ShapeInv, Types
<1>3. 0 \in 0..(ClaimTimeout + 1)
  BY LimitsAssumption
<1>4. sync' \in [Leads -> Results \cup {"pending"}]
  BY DEF TakeClaims, Results, ShapeInv, Types
<1> QED
  BY <1>1, <1>2, <1>3, <1>4 DEF TakeClaims, ShapeInv, Types

\* The end of a worker's step: it goes on with the rest of its leads.
MovesOn(w, rest) == Continue(w, rest) /\ Forget(w, rest)

LEMMA MovesOnShape ==
  ASSUME ShapeInv, NEW w \in Workers, NEW rest \in SUBSET Leads, MovesOn(w, rest),
         seen' \in [Workers -> [Leads -> 0..MaxAttempts]],
         \A v \in Workers \ {w} : seen'[v] = seen[v],
         rest \subseteq todo[w] \/ leaseAge[w] = 0
  PROVE  /\ phase' \in [Procs -> Phases]
         /\ cur' \in [Procs -> Leads \cup {NoLead}]
         /\ todo' \in [Workers -> SUBSET Leads]
         /\ request' = [p \in Procs |-> request'[p]]
         /\ leaseAge' \in [Workers -> 0..(ClaimTimeout + 1)]
         /\ disowned' \in [Workers -> SUBSET Leads]
         /\ WorkerShape' /\ AdminShape'
<1> USE LimitsAssumption, NamesAssumption DEF ShapeInv, MovesOn, Continue, Forget
<1>1. phase' \in [Procs -> Phases] /\ cur' \in [Procs -> Leads \cup {NoLead}]
  BY DEF Types, Procs, Phases
<1>2. todo' \in [Workers -> SUBSET Leads] /\ disowned' \in [Workers -> SUBSET Leads]
  BY DEF Types
<1>3. leaseAge' \in [Workers -> 0..(ClaimTimeout + 1)]
  BY DEF Types
<1>4. request' = [p \in Procs |-> request'[p]]
  BY DEF Types
<1>5. WorkerShape'
  <2> SUFFICES ASSUME NEW v \in Workers
               PROVE  /\ phase'[v] \in {"idle", "claiming"} => todo'[v] = {}
                      /\ todo'[v] = {} => leaseAge'[v] = 0
                      /\ phase'[v] \in {"sending", "writing"} => cur'[v] \in todo'[v]
                      /\ phase'[v] \in {"idle", "claiming", "between"} => cur'[v] = NoLead
                      /\ phase'[v] = "writing" =>
                           /\ IsRequest(request'[v])
                           /\ request'[v].from = v /\ request'[v].lead = cur'[v]
                           /\ request'[v].result = "exhausted" => seen'[v][cur'[v]] = MaxAttempts
    BY DEF WorkerShape, IsRequest
  <2>1. CASE v = w
    BY <2>1 DEF Types, Procs
  <2>2. CASE v # w
    <3>1. /\ phase'[v] = phase[v] /\ cur'[v] = cur[v] /\ todo'[v] = todo[v]
          /\ leaseAge'[v] = leaseAge[v] /\ request'[v] = request[v] /\ seen'[v] = seen[v]
      BY <2>2 DEF Types, Procs
    <3> QED BY <3>1 DEF WorkerShape
  <2> QED BY <2>1, <2>2
<1>6. AdminShape'
  <2> SUFFICES ASSUME NEW a \in Admins
               PROVE  /\ phase'[a] = phase[a] /\ cur'[a] = cur[a] /\ request'[a] = request[a]
    BY DEF AdminShape, IsRequest
  <2>1. a # w /\ a \in Procs
    BY DEF Procs
  <2> QED BY <2>1 DEF Types
<1> QED BY <1>1, <1>2, <1>3, <1>4, <1>5, <1>6

-----------------------------------------------------------------------------
(* ShapeInv is inductive.                                                  *)

LEMMA ShapeInit == Init => ShapeInv
<1> SUFFICES ASSUME Init PROVE ShapeInv
  OBVIOUS
<1>1. 0 \in 0..(ClaimTimeout + 1) /\ 0 \in 0..MaxAttempts
  BY LimitsAssumption
<1>2. Types
  BY <1>1 DEF Init, Types, Phases, Results
<1>3. WorkerShape
  BY DEF Init, WorkerShape, Procs
<1>4. AdminShape
  BY DEF Init, AdminShape, Procs
<1> QED BY <1>2, <1>3, <1>4 DEF ShapeInv

LEMMA TickShape == ASSUME ShapeInv, Tick PROVE ShapeInv'
<1> USE LimitsAssumption DEF ShapeInv
<1>1. \A r \in late' : IsRequest(r)
  BY AgedIsRequest DEF Tick, Types
<1>2. claimAge' \in [Leads -> 0..(ClaimTimeout + 1)]
  BY DEF Tick, Types, Older
<1>3. leaseAge' \in [Workers -> 0..(ClaimTimeout + 1)]
  BY DEF Tick, Types, Older
<1>4. Types'
  BY <1>1, <1>2, <1>3 DEF Tick, Types, IsRequest
<1>5. \A p \in Procs :
        /\ request'[p] = request[p] \/ request'[p] = Aged(request[p])
        /\ phase'[p] = phase[p] /\ cur'[p] = cur[p]
  BY DEF Tick
<1>6. WorkerShape'
  <2> SUFFICES ASSUME NEW w \in Workers
               PROVE  /\ phase[w] \in {"idle", "claiming"} => todo[w] = {}
                      /\ todo[w] = {} => leaseAge'[w] = 0
                      /\ phase[w] \in {"sending", "writing"} => cur[w] \in todo[w]
                      /\ phase[w] \in {"idle", "claiming", "between"} => cur[w] = NoLead
                      /\ phase[w] = "writing" =>
                           /\ IsRequest(request'[w])
                           /\ request'[w].from = w /\ request'[w].lead = cur[w]
                           /\ request'[w].result = "exhausted" => seen[w][cur[w]] = MaxAttempts
    BY DEF WorkerShape, Tick, IsRequest
  <2>1. phase[w] = "writing" =>
          /\ IsRequest(request'[w])
          /\ request'[w].from = w /\ request'[w].lead = cur[w]
          /\ request'[w].result = request[w].result
    BY <1>5, AgedIsRequest DEF WorkerShape, Procs
  <2> QED BY <2>1 DEF WorkerShape, Tick
<1>7. AdminShape'
  <2> SUFFICES ASSUME NEW a \in Admins
               PROVE  /\ phase[a] \in {"sending", "writing"} => cur[a] \in Leads
                      /\ phase[a] = "writing" =>
                           /\ IsRequest(request'[a])
                           /\ request'[a].from = NoWorker /\ request'[a].result # "exhausted"
    BY DEF AdminShape, Tick, IsRequest
  <2> QED BY <1>5, AgedIsRequest DEF AdminShape, Procs
<1> QED BY <1>4, <1>6, <1>7

LEMMA WriteOfShape ==
  ASSUME NEW w \in Workers, NEW l \in Leads, NEW result \in Results
  PROVE  /\ IsRequest(WriteOf(w, l, result))
         /\ WriteOf(w, l, result).from = w /\ WriteOf(w, l, result).lead = l
         /\ WriteOf(w, l, result).result = result
BY DEF WriteOf, IsRequest

\* A worker's step that touches only what it has in hand.
LEMMA HandShape ==
  ASSUME ShapeInv, NEW w \in Workers, NEW l \in todo[w],
         NEW where \in {"sending", "writing"},
         phase' = [phase EXCEPT ![w] = where],
         cur' = [cur EXCEPT ![w] = l],
         \/ where = "sending" /\ request' = request
         \/ /\ where = "writing"
            /\ \E result \in Results :
                 /\ request' = [request EXCEPT ![w] = WriteOf(w, l, result)]
                 /\ result = "exhausted" => seen[w][l] = MaxAttempts,
         credit' \in [Leads -> Int],
         UNCHANGED <<sync, owner, claimAge, count, todo, seen, late, leaseAge, disowned>>
  PROVE  ShapeInv'
<1> USE DEF ShapeInv
<1>1. l \in Leads /\ w \in Procs
  BY DEF Types, Procs
<1>2. Types'
  BY <1>1 DEF Types, Phases, IsRequest
<1>3. \A p \in Procs : p # w => /\ phase'[p] = phase[p] /\ cur'[p] = cur[p]
                                /\ request'[p] = request[p]
  BY DEF Types
<1>4. WorkerShape'
  <2> SUFFICES ASSUME NEW v \in Workers
               PROVE  /\ phase'[v] \in {"idle", "claiming"} => todo[v] = {}
                      /\ todo[v] = {} => leaseAge[v] = 0
                      /\ phase'[v] \in {"sending", "writing"} => cur'[v] \in todo[v]
                      /\ phase'[v] \in {"idle", "claiming", "between"} => cur'[v] = NoLead
                      /\ phase'[v] = "writing" =>
                           /\ IsRequest(request'[v])
                           /\ request'[v].from = v /\ request'[v].lead = cur'[v]
                           /\ request'[v].result = "exhausted" => seen[v][cur'[v]] = MaxAttempts
    BY DEF WorkerShape, IsRequest
  <2>1. CASE v = w
    <3>1. phase'[w] = where /\ cur'[w] = l
      BY <1>1 DEF Types
    <3>2. where = "writing" =>
            /\ IsRequest(request'[w])
            /\ request'[w].from = w /\ request'[w].lead = l
            /\ request'[w].result = "exhausted" => seen[w][l] = MaxAttempts
      BY <1>1, WriteOfShape DEF Types
    <3> QED BY <2>1, <3>1, <3>2 DEF WorkerShape
  <2>2. CASE v # w
    BY <1>3, <2>2 DEF WorkerShape, Procs
  <2> QED BY <2>1, <2>2
<1>5. AdminShape'
  <2>1. \A a \in Admins : a \in Procs /\ a # w
    BY NamesAssumption DEF Procs
  <2> QED BY <1>3, <2>1 DEF AdminShape, IsRequest
<1> QED BY <1>2, <1>4, <1>5

\* A step of the API that touches only what it has in hand.
LEMMA AdminHandShape ==
  ASSUME ShapeInv, NEW a \in Admins,
         NEW where \in {"idle", "sending", "writing"}, NEW what \in Leads \cup {NoLead},
         where # "idle" => what \in Leads,
         phase' = [phase EXCEPT ![a] = where],
         cur' = [cur EXCEPT ![a] = what],
         \E r : /\ request' = [request EXCEPT ![a] = r]
                /\ where = "writing" =>
                     IsRequest(r) /\ r.from = NoWorker /\ r.result # "exhausted",
         UNCHANGED <<todo, seen, leaseAge>>
  PROVE  /\ phase' \in [Procs -> Phases] /\ cur' \in [Procs -> Leads \cup {NoLead}]
         /\ request' = [p \in Procs |-> request'[p]]
         /\ WorkerShape' /\ AdminShape'
<1> USE DEF ShapeInv
<1>1. PICK r : /\ request' = [request EXCEPT ![a] = r]
               /\ where = "writing" =>
                    IsRequest(r) /\ r.from = NoWorker /\ r.result # "exhausted"
  OBVIOUS
<1>2. a \in Procs
  BY DEF Procs
<1>3. \A p \in Procs : p # a => /\ phase'[p] = phase[p] /\ cur'[p] = cur[p]
                                /\ request'[p] = request[p]
  BY <1>1 DEF Types
<1>4. phase'[a] = where /\ cur'[a] = what /\ request'[a] = r
  BY <1>1, <1>2 DEF Types
<1>5. WorkerShape'
  <2>1. \A w \in Workers : w \in Procs /\ w # a
    BY NamesAssumption DEF Procs
  <2> QED BY <1>3, <2>1 DEF WorkerShape, IsRequest
<1>6. AdminShape'
  <2> SUFFICES ASSUME NEW b \in Admins
               PROVE  /\ phase'[b] \in {"sending", "writing"} => cur'[b] \in Leads
                      /\ phase'[b] = "writing" =>
                           /\ IsRequest(request'[b])
                           /\ request'[b].from = NoWorker /\ request'[b].result # "exhausted"
    BY DEF AdminShape, IsRequest
  <2>1. CASE b = a
    BY <1>1, <1>4, <2>1
  <2>2. CASE b # a
    BY <1>3, <2>2 DEF AdminShape, Procs
  <2> QED BY <2>1, <2>2
<1> QED BY <1>1, <1>5, <1>6 DEF Types, Phases

LEMMA RememberShape ==
  ASSUME ShapeInv, NEW r, IsRequest(r), Remember(r)
  PROVE  disowned' \in [Workers -> SUBSET Leads] /\ credit' \in [Leads -> Int]
<1>1. disowned' \in [Workers -> SUBSET Leads]
  BY DEF Remember, ShapeInv, Types
<1>2. credit' \in [Leads -> Int]
  <2>1. credit' = [credit EXCEPT ![r.lead] = credit'[r.lead]] /\ credit'[r.lead] \in Int
    BY LimitsAssumption DEF Remember, IsRequest, ShapeInv, Types
  <2> QED BY <2>1 DEF ShapeInv, Types
<1> QED BY <1>1, <1>2

\* A worker that forgets all or part of its batch keeps well-typed counts.
LEMMA UnseenShape ==
  ASSUME ShapeInv, NEW w \in Workers, NEW rest \in SUBSET Leads, Unseen(w, rest)
  PROVE  /\ seen' \in [Workers -> [Leads -> 0..MaxAttempts]]
         /\ \A v \in Workers \ {w} : seen'[v] = seen[v]
         /\ \A l \in rest : seen'[w][l] = seen[w][l]
<1>1. 0 \in 0..MaxAttempts
  BY LimitsAssumption
<1>2. [l \in Leads |-> IF l \in rest THEN seen[w][l] ELSE 0] \in [Leads -> 0..MaxAttempts]
  BY <1>1 DEF ShapeInv, Types
<1>3. seen' = [seen EXCEPT ![w] = [l \in Leads |-> IF l \in rest THEN seen[w][l] ELSE 0]]
  BY DEF Unseen, ShapeInv, Types
<1> QED BY <1>2, <1>3 DEF ShapeInv, Types

LEMMA ClaimStep ==
  ASSUME ShapeInv, NEW w \in Workers, Claim(w)
  PROVE  ShapeInv'
<1>1. PICK batch \in SUBSET Leads :
        /\ Claimable(batch) /\ TakeClaims(w, batch) /\ Continue(w, batch) /\ Forget(w, batch)
        /\ seen' = [seen EXCEPT ![w] = [l \in Leads |-> IF l \in batch THEN count[l] + 1 ELSE 0]]
  BY DEF Claim
<1>2. /\ \A l \in batch : count[l] + 1 \in 0..MaxAttempts
      /\ sync' \in [Leads -> Results \cup {"pending"}]
      /\ owner' \in [Leads -> Workers \cup {NoWorker}]
      /\ claimAge' \in [Leads -> 0..(ClaimTimeout + 1)]
      /\ count' \in [Leads -> 0..MaxAttempts]
  BY <1>1, ClaimShape
<1>3. 0 \in 0..MaxAttempts
  BY LimitsAssumption
<1>4. [l \in Leads |-> IF l \in batch THEN count[l] + 1 ELSE 0] \in [Leads -> 0..MaxAttempts]
  BY <1>2, <1>3
<1>5. /\ seen' \in [Workers -> [Leads -> 0..MaxAttempts]]
      /\ \A v \in Workers \ {w} : seen'[v] = seen[v]
  BY <1>1, <1>4 DEF ShapeInv, Types
<1>6. leaseAge[w] = 0
  BY DEF Claim, ShapeInv, WorkerShape
<1>7. /\ phase' \in [Procs -> Phases]
      /\ cur' \in [Procs -> Leads \cup {NoLead}]
      /\ todo' \in [Workers -> SUBSET Leads]
      /\ request' = [p \in Procs |-> request'[p]]
      /\ leaseAge' \in [Workers -> 0..(ClaimTimeout + 1)]
      /\ disowned' \in [Workers -> SUBSET Leads]
      /\ WorkerShape' /\ AdminShape'
  BY <1>1, <1>5, <1>6, MovesOnShape DEF MovesOn
<1>8. UNCHANGED <<late, credit>>
  BY DEF Claim
<1> QED BY <1>2, <1>5, <1>7, <1>8 DEF ShapeInv, Types, IsRequest

\* Whatever happens to the table and to the delayed writes, a worker that moves
\* on to a part of its batch keeps the shape.
LEMMA LeavesShape ==
  ASSUME ShapeInv, NEW w \in Workers, NEW rest \in SUBSET todo[w],
         Continue(w, rest), Forget(w, rest), Unseen(w, rest),
         sync' \in [Leads -> Results \cup {"pending"}],
         owner' \in [Leads -> Workers \cup {NoWorker}],
         claimAge' \in [Leads -> 0..(ClaimTimeout + 1)],
         count' \in [Leads -> 0..MaxAttempts],
         late' \subseteq late \cup (IF phase[w] = "writing" THEN {request[w]} ELSE {}),
         UNCHANGED credit
  PROVE  ShapeInv'
<1>1. rest \in SUBSET Leads
  BY DEF ShapeInv, Types
<1>2. /\ seen' \in [Workers -> [Leads -> 0..MaxAttempts]]
      /\ \A v \in Workers \ {w} : seen'[v] = seen[v]
  BY <1>1, UnseenShape
<1>3. /\ phase' \in [Procs -> Phases]
      /\ cur' \in [Procs -> Leads \cup {NoLead}]
      /\ todo' \in [Workers -> SUBSET Leads]
      /\ request' = [p \in Procs |-> request'[p]]
      /\ leaseAge' \in [Workers -> 0..(ClaimTimeout + 1)]
      /\ disowned' \in [Workers -> SUBSET Leads]
      /\ WorkerShape' /\ AdminShape'
  BY <1>1, <1>2, MovesOnShape DEF MovesOn
<1>4. \A r \in late' : IsRequest(r)
  BY DEF ShapeInv, Types, WorkerShape
<1>5. credit' \in [Leads -> Int]
  BY DEF ShapeInv, Types
<1>6. Types'
  BY <1>2, <1>3, <1>4, <1>5 DEF Types, IsRequest
<1> QED BY <1>3, <1>6 DEF ShapeInv

LEMMA WorkerStepShape ==
  ASSUME ShapeInv, NEW w \in Workers, WorkerStep(w)
  PROVE  ShapeInv'
<1> USE DEF ShapeInv
<1>1. w \in Procs /\ Workers \subseteq Procs /\ Admins \subseteq Procs /\ w \notin Admins
  BY NamesAssumption DEF Procs
<1>2. UNCHANGED table => /\ sync' \in [Leads -> Results \cup {"pending"}]
                         /\ owner' \in [Leads -> Workers \cup {NoWorker}]
                         /\ claimAge' \in [Leads -> 0..(ClaimTimeout + 1)]
                         /\ count' \in [Leads -> 0..MaxAttempts]
  BY DEF table, Types
<1>3. CASE StartBatch(w)
  <2>1. Types'
    BY <1>3 DEF StartBatch, Types, Phases, table, history, IsRequest
  <2>2. WorkerShape'
    BY <1>1, <1>3 DEF StartBatch, WorkerShape, Types, history, IsRequest
  <2>3. AdminShape'
    BY <1>1, <1>3 DEF StartBatch, AdminShape, Types, IsRequest
  <2> QED BY <2>1, <2>2, <2>3
<1>4. CASE Claim(w)
  BY <1>4, ClaimStep
<1>5. CASE ClaimFails(w)
  <2>1. /\ sync' \in [Leads -> Results \cup {"pending"}]
        /\ owner' \in [Leads -> Workers \cup {NoWorker}]
        /\ claimAge' \in [Leads -> 0..(ClaimTimeout + 1)]
        /\ count' \in [Leads -> 0..MaxAttempts]
    <3>1. CASE UNCHANGED table
      BY <1>2, <3>1
    <3>2. CASE \E batch \in SUBSET Leads : Claimable(batch) /\ TakeClaims(w, batch)
      BY <3>2, ClaimShape
    <3> QED BY <1>5, <3>1, <3>2 DEF ClaimFails
  <2>2. Continue(w, {}) /\ Forget(w, {}) /\ Unseen(w, {}) /\ late' = late /\ credit' = credit
    BY <1>5 DEF ClaimFails
  <2> QED BY <2>1, <2>2, LeavesShape
<1>6. ASSUME NEW l \in Leads, Send(w, l) PROVE ShapeInv'
  <2>1. credit' \in [Leads -> Int]
    BY <1>6 DEF Send, Types
  <2>2. /\ l \in todo[w]
        /\ phase' = [phase EXCEPT ![w] = "sending"] /\ cur' = [cur EXCEPT ![w] = l]
        /\ request' = request
        /\ UNCHANGED <<sync, owner, claimAge, count, todo, seen, late, leaseAge, disowned>>
    BY <1>6 DEF Send, table
  <2> QED BY <2>1, <2>2, HandShape
<1>7. ASSUME NEW l \in Leads, RejectRow(w, l) PROVE ShapeInv'
  <2>1. credit' \in [Leads -> Int]
    BY <1>7 DEF RejectRow, Types, history
  <2>2. /\ l \in todo[w]
        /\ phase' = [phase EXCEPT ![w] = "writing"] /\ cur' = [cur EXCEPT ![w] = l]
        /\ request' = [request EXCEPT ![w] = WriteOf(w, l, "manual")]
        /\ UNCHANGED <<sync, owner, claimAge, count, todo, seen, late, leaseAge, disowned>>
    BY <1>7 DEF RejectRow, table, history
  <2>3. \E result \in Results :
          /\ request' = [request EXCEPT ![w] = WriteOf(w, l, result)]
          /\ result = "exhausted" => seen[w][l] = MaxAttempts
    BY <2>2 DEF Results
  <2> QED BY <2>1, <2>2, <2>3, HandShape
<1>8. CASE SendEnds(w)
  <2> DEFINE l == cur[w]
  <2>1. l \in todo[w] /\ l \in Leads
    BY <1>8 DEF SendEnds, WorkerShape, Types
  <2>2. seen[w][l] \in 0..MaxAttempts
    BY <2>1 DEF Types
  <2>3. \E result \in Results :
          /\ request' = [request EXCEPT ![w] = WriteOf(w, l, result)]
          /\ result = "exhausted" => seen[w][l] = MaxAttempts
    <3>1. PICK result \in {"synced", "manual", AfterRetryable(w, l)} :
            request' = [request EXCEPT ![w] = WriteOf(w, l, result)]
      BY <1>8 DEF SendEnds
    <3>2. /\ AfterRetryable(w, l) \in {"scheduled", "exhausted"}
          /\ AfterRetryable(w, l) = "exhausted" => seen[w][l] = MaxAttempts
      BY <2>2, LimitsAssumption DEF AfterRetryable
    <3> QED BY <3>1, <3>2 DEF Results
  <2>4. /\ phase' = [phase EXCEPT ![w] = "writing"] /\ cur' = cur /\ credit' = credit
        /\ UNCHANGED <<sync, owner, claimAge, count, todo, seen, late, leaseAge, disowned>>
    BY <1>8 DEF SendEnds, table, history
  <2>5. cur' = [cur EXCEPT ![w] = l] /\ credit' \in [Leads -> Int]
    BY <2>4 DEF Types
  <2> HIDE DEF l
  <2> QED BY <2>1, <2>3, <2>4, <2>5, HandShape
<1>9. CASE Write(w)
  <2>1. IsRequest(request[w]) /\ Execute(request[w])
    BY <1>9 DEF Write, WorkerShape
  <2>2. /\ sync' \in [Leads -> Results \cup {"pending"}]
        /\ owner' \in [Leads -> Workers \cup {NoWorker}]
        /\ claimAge' \in [Leads -> 0..(ClaimTimeout + 1)]
        /\ count' \in [Leads -> 0..MaxAttempts]
    BY <2>1, ExecuteShape
  <2>3. PICK rest : /\ rest = todo[w] \ {cur[w]}
                    /\ Continue(w, rest) /\ Forget(w, rest) /\ Unseen(w, rest)
    BY <1>9 DEF Write, Done
  <2>4. rest \in SUBSET todo[w] /\ late' = late /\ credit' = credit
    BY <1>9, <2>3 DEF Write
  <2> QED BY <2>2, <2>3, <2>4, LeavesShape
<1>10. CASE WriteFails(w)
  <2>1. PICK rest : /\ rest = todo[w] \ {cur[w]}
                    /\ Continue(w, rest) /\ Forget(w, rest) /\ Unseen(w, rest)
    BY <1>10 DEF WriteFails, Done
  <2>2. /\ rest \in SUBSET todo[w] /\ credit' = credit
        /\ late' \subseteq late \cup (IF phase[w] = "writing" THEN {request[w]} ELSE {})
        /\ UNCHANGED table
    BY <1>10, <2>1 DEF WriteFails
  <2> QED BY <1>2, <2>1, <2>2, LeavesShape
<1>11. CASE Crash(w)
  <2>1. /\ Continue(w, {}) /\ Forget(w, {}) /\ Unseen(w, {}) /\ credit' = credit
        /\ late' \subseteq late \cup (IF phase[w] = "writing" THEN {request[w]} ELSE {})
        /\ UNCHANGED table
    BY <1>11 DEF Crash
  <2> QED BY <1>2, <2>1, LeavesShape
<1> QED BY <1>3, <1>4, <1>5, <1>6, <1>7, <1>8, <1>9, <1>10, <1>11 DEF WorkerStep

LEMMA ApiStepShape ==
  ASSUME ShapeInv, NEW a \in Admins, ApiStep(a)
  PROVE  ShapeInv'
<1> USE DEF ShapeInv
<1>1. ASSUME /\ phase' \in [Procs -> Phases] /\ cur' \in [Procs -> Leads \cup {NoLead}]
             /\ request' = [p \in Procs |-> request'[p]]
             /\ WorkerShape' /\ AdminShape',
             sync' \in [Leads -> Results \cup {"pending"}],
             owner' \in [Leads -> Workers \cup {NoWorker}],
             claimAge' \in [Leads -> 0..(ClaimTimeout + 1)],
             count' \in [Leads -> 0..MaxAttempts],
             disowned' \in [Workers -> SUBSET Leads], credit' \in [Leads -> Int],
             late' \subseteq late \cup (IF phase[a] = "writing" THEN {request[a]} ELSE {}),
             UNCHANGED <<todo, seen, leaseAge>>
      PROVE  ShapeInv'
  <2>1. \A r \in late' : IsRequest(r)
    BY <1>1 DEF Types, AdminShape
  <2>2. Types'
    BY <1>1, <2>1 DEF Types, IsRequest
  <2> QED BY <1>1, <2>2
<1>2. UNCHANGED table => /\ sync' \in [Leads -> Results \cup {"pending"}]
                         /\ owner' \in [Leads -> Workers \cup {NoWorker}]
                         /\ claimAge' \in [Leads -> 0..(ClaimTimeout + 1)]
                         /\ count' \in [Leads -> 0..MaxAttempts]
  BY DEF table, Types
<1>3. UNCHANGED <<disowned, credit>> =>
        disowned' \in [Workers -> SUBSET Leads] /\ credit' \in [Leads -> Int]
  BY DEF Types
<1>4. request' = request => \E r : request' = [request EXCEPT ![a] = r]
  <2>1. request = [request EXCEPT ![a] = request[a]]
    BY DEF Types
  <2> QED BY <2>1
<1>5. ASSUME NEW l \in Leads, ApiSync(a, l) PROVE ShapeInv'
  <2>1. /\ phase' \in [Procs -> Phases] /\ cur' \in [Procs -> Leads \cup {NoLead}]
        /\ request' = [p \in Procs |-> request'[p]]
        /\ WorkerShape' /\ AdminShape'
    BY <1>4, <1>5, AdminHandShape DEF ApiSync
  <2> QED BY <1>1, <1>2, <1>3, <1>5, <2>1 DEF ApiSync
<1>6. CASE ApiNotConfigured(a)
  <2>1. /\ phase' \in [Procs -> Phases] /\ cur' \in [Procs -> Leads \cup {NoLead}]
        /\ request' = [p \in Procs |-> request'[p]]
        /\ WorkerShape' /\ AdminShape'
    BY <1>6, AdminHandShape DEF ApiNotConfigured, ApiIdle, history
  <2> QED BY <1>1, <1>2, <1>3, <1>6, <2>1 DEF ApiNotConfigured, history
<1>7. CASE ApiSendEnds(a)
  <2>1. cur[a] \in Leads
    BY <1>7 DEF ApiSendEnds, AdminShape
  <2>2. \E r : /\ request' = [request EXCEPT ![a] = r]
               /\ IsRequest(r) /\ r.from = NoWorker /\ r.result # "exhausted"
    <3>1. PICK result \in {"synced", "scheduled", "manual"} :
            request' = [request EXCEPT ![a] =
                          [from |-> NoWorker, lead |-> cur[a], result |-> result,
                           wait |-> IF result = "scheduled" THEN RetryBase ELSE 0]]
      BY <1>7 DEF ApiSendEnds
    <3> DEFINE r == [from |-> NoWorker, lead |-> cur[a], result |-> result,
                     wait |-> IF result = "scheduled" THEN RetryBase ELSE 0]
    <3>2. IsRequest(r) /\ r.from = NoWorker /\ r.result # "exhausted"
      BY <2>1 DEF IsRequest, Results
    <3> QED BY <3>1, <3>2
  <2>3. cur' = [cur EXCEPT ![a] = cur[a]]
    BY <1>7 DEF ApiSendEnds, Types
  <2>4. phase' = [phase EXCEPT ![a] = "writing"] /\ UNCHANGED <<todo, seen, leaseAge>>
    BY <1>7 DEF ApiSendEnds, history
  <2>5. /\ phase' \in [Procs -> Phases] /\ cur' \in [Procs -> Leads \cup {NoLead}]
        /\ request' = [p \in Procs |-> request'[p]]
        /\ WorkerShape' /\ AdminShape'
    BY <2>1, <2>2, <2>3, <2>4, AdminHandShape
  <2> QED BY <1>1, <1>2, <1>3, <1>7, <2>5 DEF ApiSendEnds, history
<1>8. CASE ApiWrite(a)
  <2>1. IsRequest(request[a]) /\ Execute(request[a]) /\ Remember(request[a])
    BY <1>8 DEF ApiWrite, AdminShape
  <2>2. /\ sync' \in [Leads -> Results \cup {"pending"}]
        /\ owner' \in [Leads -> Workers \cup {NoWorker}]
        /\ claimAge' \in [Leads -> 0..(ClaimTimeout + 1)]
        /\ count' \in [Leads -> 0..MaxAttempts]
        /\ disowned' \in [Workers -> SUBSET Leads] /\ credit' \in [Leads -> Int]
    BY <2>1, ExecuteShape, RememberShape
  <2>3. /\ phase' \in [Procs -> Phases] /\ cur' \in [Procs -> Leads \cup {NoLead}]
        /\ request' = [p \in Procs |-> request'[p]]
        /\ WorkerShape' /\ AdminShape'
    BY <1>8, AdminHandShape DEF ApiWrite, ApiIdle
  <2> QED BY <1>1, <1>8, <2>2, <2>3 DEF ApiWrite
<1>9. CASE ApiFails(a)
  <2>1. /\ phase' \in [Procs -> Phases] /\ cur' \in [Procs -> Leads \cup {NoLead}]
        /\ request' = [p \in Procs |-> request'[p]]
        /\ WorkerShape' /\ AdminShape'
    BY <1>9, AdminHandShape DEF ApiFails, ApiIdle, history
  <2> QED BY <1>1, <1>2, <1>3, <1>9, <2>1 DEF ApiFails, history
<1> QED BY <1>5, <1>6, <1>7, <1>8, <1>9 DEF ApiStep

LEMMA ShapeNext == ShapeInv /\ [Next]_vars => ShapeInv'
<1> SUFFICES ASSUME ShapeInv, [Next]_vars PROVE ShapeInv'
  OBVIOUS
<1> USE DEF ShapeInv
<1>1. UNCHANGED procs /\ UNCHANGED leaseAge => WorkerShape' /\ AdminShape'
  BY DEF procs, WorkerShape, AdminShape, IsRequest
<1>2. CASE Tick
  BY <1>2, TickShape
<1>3. ASSUME NEW l \in Leads, Classify(l) PROVE ShapeInv'
  <2>1. Types'
    BY <1>3 DEF Classify, Types, procs, history, IsRequest
  <2> QED BY <1>1, <1>3, <2>1 DEF Classify, history
<1>4. ASSUME NEW w \in Workers, WorkerStep(w) PROVE ShapeInv'
  BY <1>4, WorkerStepShape
<1>5. ASSUME NEW a \in Admins, ApiStep(a) PROVE ShapeInv'
  BY <1>5, ApiStepShape
<1>6. ASSUME NEW r \in late, LateWrite(r) PROVE ShapeInv'
  <2>1. IsRequest(r) /\ Execute(r) /\ Remember(r)
    BY <1>6 DEF LateWrite, Types
  <2>2. /\ sync' \in [Leads -> Results \cup {"pending"}]
        /\ owner' \in [Leads -> Workers \cup {NoWorker}]
        /\ claimAge' \in [Leads -> 0..(ClaimTimeout + 1)]
        /\ count' \in [Leads -> 0..MaxAttempts]
        /\ disowned' \in [Workers -> SUBSET Leads] /\ credit' \in [Leads -> Int]
    BY <2>1, ExecuteShape, RememberShape
  <2>3. Types'
    BY <1>6, <2>2 DEF LateWrite, Types, procs, IsRequest
  <2> QED BY <1>1, <1>6, <2>3 DEF LateWrite
<1>7. ASSUME NEW r \in late, LateDropped(r) PROVE ShapeInv'
  <2>1. Types'
    BY <1>7 DEF LateDropped, Types, table, procs, history, IsRequest
  <2> QED BY <1>1, <1>7, <2>1 DEF LateDropped, history
<1>8. CASE UNCHANGED vars
  <2>1. Types'
    BY <1>8 DEF vars, Types, IsRequest
  <2> QED BY <1>1, <1>8, <2>1 DEF vars, procs
<1> QED BY <1>2, <1>3, <1>4, <1>5, <1>6, <1>7, <1>8 DEF Next

-----------------------------------------------------------------------------
(* What a step does to the claims: four ways, besides the passing of time. *)

\* The workers that hold a lead they have not sent yet.
Unsent(l) == {w \in Workers : l \in todo[w] /\ ~(phase[w] \in {"sending", "writing"} /\ cur[w] = l)}

\* The worker holds no more than before, and its lease goes on.
Keeps(w) ==
  /\ todo'[w] \subseteq todo[w]
  /\ todo'[w] # {} => leaseAge'[w] = leaseAge[w]
  /\ \A l \in todo'[w] : seen'[w][l] = seen[w][l] /\ (l \in disowned[w] => l \in disowned'[w])
  /\ \A l \in Leads : w \in Unsent(l)' => w \in Unsent(l)

\* The rows stay as they are, and so do the deliveries paid for.
Quiet == UNCHANGED <<sync, owner, claimAge, count, credit>> /\ \A w \in Workers : Keeps(w)

Claims(w, batch) ==
  /\ phase[w] = "claiming" /\ Claimable(batch) /\ TakeClaims(w, batch)
  /\ credit' = credit
  /\ \A v \in Workers \ {w} : Keeps(v)
  /\ \/ todo'[w] = {}
     \/ /\ todo'[w] = batch /\ leaseAge'[w] = 0
        /\ \A l \in batch : seen'[w][l] = count[l] + 1

\* A write that is executed: a worker's for the lead in its hand, or one that is
\* the API's or late.
Writes(r) ==
  /\ IsRequest(r) /\ Execute(r)
  /\ \A w \in Workers : Keeps(w)
  /\ \/ /\ r.from \in Workers /\ phase[r.from] = "writing" /\ request[r.from] = r
        /\ r.lead \notin todo'[r.from]
        /\ credit' = credit
     \/ /\ Remember(r) /\ todo' = todo
        /\ r.from = NoWorker => ApiWrites
        /\ r.result = "exhausted" => r \in late /\ r \notin late'

Sends(w, l) ==
  /\ Send(w, l)
  /\ UNCHANGED <<sync, owner, claimAge, count>>
  /\ \A v \in Workers : Keeps(v)
  /\ w \in Unsent(l) /\ w \notin Unsent(l)'

LEMMA MovesOnKeeps ==
  ASSUME ShapeInv, NEW w \in Workers, NEW rest \in SUBSET todo[w],
         Continue(w, rest), Forget(w, rest), Unseen(w, rest),
         cur[w] \notin rest \/ cur[w] = NoLead
  PROVE  \A v \in Workers : Keeps(v)
<1> SUFFICES ASSUME NEW v \in Workers PROVE Keeps(v)
  OBVIOUS
<1>1. rest \in SUBSET Leads /\ v \in Procs /\ w \in Procs
  BY DEF ShapeInv, Types, Procs
<1>2. /\ \A u \in Workers \ {w} : seen'[u] = seen[u]
      /\ \A l \in rest : seen'[w][l] = seen[w][l]
  BY <1>1, UnseenShape
<1>3. CASE v = w
  <2>1. /\ todo'[w] = rest /\ disowned'[w] = disowned[w] \cap rest
        /\ rest # {} => leaseAge'[w] = leaseAge[w]
    BY DEF ShapeInv, Types, Continue, Forget
  <2>2. \A l \in rest : w \in Unsent(l)
    BY <1>1, NamesAssumption DEF Unsent, ShapeInv, Types
  <2> QED BY <1>2, <1>3, <2>1, <2>2 DEF Keeps, Unsent
<1>4. CASE v # w
  <2>1. /\ todo'[v] = todo[v] /\ disowned'[v] = disowned[v] /\ leaseAge'[v] = leaseAge[v]
        /\ phase'[v] = phase[v] /\ cur'[v] = cur[v] /\ seen'[v] = seen[v]
    BY <1>1, <1>2, <1>4 DEF ShapeInv, Types, Continue, Forget
  <2> QED BY <2>1 DEF Keeps, Unsent
<1> QED BY <1>3, <1>4

\* Nothing of the worker is touched, except that its claims may be disowned.
LEMMA UntouchedKeeps ==
  ASSUME NEW w \in Workers, todo' = todo, leaseAge' = leaseAge, seen' = seen,
         phase'[w] = phase[w] /\ cur'[w] = cur[w], disowned[w] \subseteq disowned'[w]
  PROVE  Keeps(w)
BY DEF Keeps, Unsent

LEMMA ClaimClaims ==
  ASSUME ShapeInv, NEW w \in Workers, Claim(w) \/ ClaimFails(w)
  PROVE  Quiet \/ \E batch \in SUBSET Leads : Claims(w, batch)
<1>1. phase[w] = "claiming" /\ todo[w] = {} /\ credit' = credit
  BY DEF Claim, ClaimFails, ShapeInv, WorkerShape
<1>2. PICK held \in SUBSET Leads :
        /\ Continue(w, held) /\ Forget(w, held)
        /\ \A v \in Workers \ {w} : seen'[v] = seen[v]
        /\ \/ held = {} /\ (UNCHANGED table \/ \E batch \in SUBSET Leads :
                              Claimable(batch) /\ TakeClaims(w, batch))
           \/ /\ Claimable(held) /\ TakeClaims(w, held)
              /\ \A l \in held : seen'[w][l] = count[l] + 1
  <2>1. CASE Claim(w)
    <3>1. PICK batch \in SUBSET Leads :
            /\ Claimable(batch) /\ TakeClaims(w, batch) /\ Continue(w, batch) /\ Forget(w, batch)
            /\ seen' = [seen EXCEPT ![w] = [l \in Leads |-> IF l \in batch THEN count[l] + 1 ELSE 0]]
      BY <2>1 DEF Claim
    <3>2. /\ \A v \in Workers \ {w} : seen'[v] = seen[v]
          /\ \A l \in batch : seen'[w][l] = count[l] + 1
      BY <3>1 DEF ShapeInv, Types
    <3> QED BY <3>1, <3>2
  <2>2. CASE ClaimFails(w)
    <3>1. \A v \in Workers \ {w} : seen'[v] = seen[v]
      BY <2>2, UnseenShape DEF ClaimFails
    <3> QED BY <2>2, <3>1 DEF ClaimFails
  <2> QED BY <2>1, <2>2
<1>3. w \in Procs /\ Workers \subseteq Procs
  BY DEF Procs
<1>4. \A v \in Workers \ {w} :
        /\ todo'[v] = todo[v] /\ disowned'[v] = disowned[v] /\ leaseAge'[v] = leaseAge[v]
        /\ phase'[v] = phase[v] /\ cur'[v] = cur[v] /\ seen'[v] = seen[v]
  BY <1>2, <1>3 DEF ShapeInv, Types, Continue, Forget
<1>5. \A v \in Workers \ {w} : Keeps(v)
  BY <1>4 DEF Keeps, Unsent
<1>6. todo'[w] = held /\ leaseAge'[w] = 0
  BY <1>1, <1>2 DEF ShapeInv, Types, Continue, Forget, WorkerShape
<1>7. CASE held = {} /\ UNCHANGED table
  <2>1. Keeps(w)
    BY <1>6, <1>7 DEF Keeps, Unsent
  <2> QED BY <1>1, <1>5, <1>7, <2>1 DEF Quiet, table
<1>8. ASSUME held = {}, NEW batch \in SUBSET Leads, Claimable(batch), TakeClaims(w, batch)
      PROVE  Claims(w, batch)
  BY <1>1, <1>5, <1>6, <1>8 DEF Claims
<1>9. CASE /\ Claimable(held) /\ TakeClaims(w, held)
           /\ \A l \in held : seen'[w][l] = count[l] + 1
  BY <1>1, <1>5, <1>6, <1>9 DEF Claims
<1> QED BY <1>2, <1>7, <1>8, <1>9

LEMMA WorkerSteps ==
  ASSUME ShapeInv, NEW w \in Workers, WorkerStep(w)
  PROVE  \/ Quiet
         \/ \E batch \in SUBSET Leads : Claims(w, batch)
         \/ \E l \in Leads : Sends(w, l)
         \/ \E r : Writes(r)
<1> USE DEF ShapeInv
<1>1. w \in Procs /\ Workers \subseteq Procs
  BY DEF Procs
<1>2. ASSUME UNCHANGED table, credit' = credit, \A v \in Workers : Keeps(v) PROVE Quiet
  BY <1>2 DEF Quiet, table
<1>3. CASE StartBatch(w)
  <2>1. ASSUME NEW v \in Workers PROVE Keeps(v)
    BY <1>1, <1>3 DEF StartBatch, history, Keeps, Unsent, Types
  <2> QED BY <1>2, <1>3, <2>1 DEF StartBatch, history
<1>4. CASE Claim(w) \/ ClaimFails(w)
  BY <1>4, ClaimClaims
<1>5. ASSUME NEW l \in Leads, Send(w, l) PROVE Sends(w, l)
  <2>1. /\ l \in todo[w] /\ phase[w] = "between" /\ phase'[w] = "sending" /\ cur'[w] = l
        /\ \A v \in Workers \ {w} : phase'[v] = phase[v] /\ cur'[v] = cur[v]
        /\ UNCHANGED <<sync, owner, claimAge, count, todo, seen, leaseAge, disowned>>
    BY <1>1, <1>5 DEF Send, Types, table
  <2>2. \A v \in Workers : Keeps(v)
    BY <2>1 DEF Keeps, Unsent
  <2>3. w \in Unsent(l) /\ w \notin Unsent(l)'
    BY <2>1 DEF Unsent
  <2> QED BY <1>5, <2>1, <2>2, <2>3 DEF Sends
<1>6. ASSUME NEW l \in Leads, RejectRow(w, l) PROVE Quiet
  <2>1. /\ l \in todo[w] /\ phase[w] = "between" /\ phase'[w] = "writing" /\ cur'[w] = l
        /\ \A v \in Workers \ {w} : phase'[v] = phase[v] /\ cur'[v] = cur[v]
        /\ UNCHANGED <<todo, seen, leaseAge, disowned, credit>>
    BY <1>1, <1>6 DEF RejectRow, Types, history
  <2>2. \A v \in Workers : Keeps(v)
    BY <2>1 DEF Keeps, Unsent
  <2> QED BY <1>2, <1>6, <2>1, <2>2 DEF RejectRow
<1>7. CASE SendEnds(w)
  <2>1. /\ phase[w] = "sending" /\ phase'[w] = "writing" /\ cur'[w] = cur[w]
        /\ \A v \in Workers \ {w} : phase'[v] = phase[v] /\ cur'[v] = cur[v]
        /\ UNCHANGED <<todo, seen, leaseAge, disowned, credit>>
    BY <1>1, <1>7 DEF SendEnds, Types, history
  <2>2. \A v \in Workers : Keeps(v)
    BY <2>1 DEF Keeps, Unsent
  <2> QED BY <1>2, <1>7, <2>1, <2>2 DEF SendEnds
<1>8. ASSUME Done(w) PROVE (\A v \in Workers : Keeps(v)) /\ cur[w] \notin todo'[w]
  <2>1. PICK rest : /\ rest = todo[w] \ {cur[w]}
                    /\ Continue(w, rest) /\ Forget(w, rest) /\ Unseen(w, rest)
    BY <1>8 DEF Done
  <2>2. rest \in SUBSET todo[w] /\ cur[w] \notin rest /\ todo'[w] = rest
    BY <2>1 DEF Continue, Types
  <2> QED BY <2>1, <2>2, MovesOnKeeps
<1>9. CASE Write(w)
  <2> DEFINE r == request[w]
  <2>1. /\ IsRequest(r) /\ r.from = w /\ r.lead = cur[w] /\ Execute(r) /\ Done(w)
        /\ phase[w] = "writing" /\ credit' = credit
    BY <1>9 DEF Write, WorkerShape
  <2>2. (\A v \in Workers : Keeps(v)) /\ cur[w] \notin todo'[w]
    BY <1>8, <2>1
  <2>3. Writes(r)
    BY <2>1, <2>2 DEF Writes
  <2> QED BY <2>3
<1>10. CASE WriteFails(w)
  BY <1>2, <1>8, <1>10 DEF WriteFails
<1>11. CASE Crash(w)
  <2>1. \A v \in Workers : Keeps(v)
    BY <1>11, MovesOnKeeps DEF Crash
  <2> QED BY <1>2, <1>11, <2>1 DEF Crash
<1> QED BY <1>3, <1>4, <1>5, <1>6, <1>7, <1>9, <1>10, <1>11 DEF WorkerStep

LEMMA ApiSteps ==
  ASSUME ShapeInv, NEW a \in Admins, ApiStep(a)
  PROVE  Quiet \/ \E r : Writes(r)
<1> USE DEF ShapeInv
<1>1. a \in Procs /\ a \notin Workers /\ Workers \subseteq Procs
  BY NamesAssumption DEF Procs
<1>2. /\ \A w \in Workers : phase'[w] = phase[w] /\ cur'[w] = cur[w]
      /\ UNCHANGED <<todo, seen, leaseAge>>
  BY <1>1 DEF ApiStep, ApiSync, ApiNotConfigured, ApiSendEnds, ApiWrite, ApiFails, ApiIdle,
              history, Types
<1>3. CASE UNCHANGED <<table, disowned, credit>>
  <2>1. \A w \in Workers : Keeps(w)
    BY <1>2, <1>3, UntouchedKeeps
  <2> QED BY <1>3, <2>1 DEF Quiet, table
<1>4. CASE ApiWrite(a)
  <2> DEFINE r == request[a]
  <2>1. /\ IsRequest(r) /\ r.from = NoWorker /\ r.result # "exhausted"
        /\ Execute(r) /\ Remember(r) /\ phase[a] = "writing"
    BY <1>4 DEF ApiWrite, AdminShape
  <2>2. ApiWrites
    BY <1>1, <1>4 DEF ApiWrite, ApiIdle, ApiWrites, Types
  <2>3. \A w \in Workers : disowned[w] \subseteq disowned'[w]
    BY <2>1 DEF Remember
  <2>4. \A w \in Workers : Keeps(w)
    BY <1>2, <2>3, UntouchedKeeps
  <2>5. Writes(r)
    BY <1>2, <2>1, <2>2, <2>4 DEF Writes
  <2> QED BY <2>5
<1> QED BY <1>3, <1>4 DEF ApiStep, ApiSync, ApiNotConfigured, ApiSendEnds, ApiFails, history

LEMMA Steps ==
  ASSUME ShapeInv, [Next]_vars
  PROVE  \/ Tick
         \/ Quiet
         \/ \E w \in Workers, batch \in SUBSET Leads : Claims(w, batch)
         \/ \E w \in Workers, l \in Leads : Sends(w, l)
         \/ \E r : Writes(r)
<1>1. ASSUME UNCHANGED <<sync, owner, claimAge, count, credit, phase, cur, todo, seen,
                         leaseAge, disowned>>
      PROVE  Quiet
  BY <1>1, UntouchedKeeps DEF Quiet
<1>2. ASSUME NEW r \in late, LateWrite(r) PROVE Writes(r)
  <2>1. /\ IsRequest(r) /\ Execute(r) /\ Remember(r) /\ r \notin late'
        /\ UNCHANGED <<phase, cur, todo, seen, leaseAge>>
    BY <1>2 DEF LateWrite, ShapeInv, Types, procs
  <2>2. \A w \in Workers : disowned[w] \subseteq disowned'[w]
    BY <2>1 DEF Remember
  <2>3. \A w \in Workers : Keeps(w)
    BY <2>1, <2>2, UntouchedKeeps
  <2>4. r.from = NoWorker => ApiWrites
    BY <2>1 DEF ApiWrites
  <2> QED BY <2>1, <2>3, <2>4 DEF Writes
<1>3. ASSUME NEW r \in late, LateDropped(r) PROVE Quiet
  BY <1>1, <1>3 DEF LateDropped, table, procs, history
<1>4. ASSUME NEW l \in Leads, Classify(l) PROVE Quiet
  BY <1>1, <1>4 DEF Classify, procs, history
<1>5. CASE UNCHANGED vars
  BY <1>1, <1>5 DEF vars
<1> QED BY <1>2, <1>3, <1>4, <1>5, WorkerSteps, ApiSteps DEF Next

-----------------------------------------------------------------------------
(* Claims and leases.                                                      *)

\* What one worker reads at its own claim stays what the row says, as long as
\* the row is its own.
LeaseMatches ==
  \A w \in Workers, l \in Leads :
    WithinLease(w, l) => sync[l] = "scheduled" /\ owner[l] = w /\ claimAge[l] = leaseAge[w]

CountSeen ==
  \A w \in Workers, l \in Leads : l \in todo[w] /\ owner[l] = w => count[l] = seen[w][l]

\* Deliveries that the row itself still allows.
Allowed(l) == IF sync[l] = "scheduled" THEN MaxAttempts - count[l] ELSE 0

\* What has been paid for covers what the row allows and what is in hand.
CreditCovers == \A l \in Leads : credit[l] >= Allowed(l) + Cardinality(Unsent(l))

SyncInv == ShapeInv /\ ClaimsOnlyScheduled /\ LeaseMatches /\ CountSeen /\ CreditCovers

LEMMA ClaimsOnlyScheduledNext ==
  ASSUME SyncInv, [Next]_vars
  PROVE  ClaimsOnlyScheduled'
<1> USE DEF SyncInv
<1>1. CASE UNCHANGED <<sync, owner>>
  BY <1>1 DEF ClaimsOnlyScheduled
<1>2. ASSUME NEW w \in Workers, NEW batch \in SUBSET Leads, Claims(w, batch)
      PROVE  ClaimsOnlyScheduled'
  <2>1. \A l \in batch : sync[l] = "scheduled" /\ ~Swept(l)
    BY <1>2, LimitsAssumption DEF Claims, Claimable, Candidate, Due, Swept, ShapeInv, Types
  <2> QED BY <1>2, <2>1 DEF Claims, TakeClaims, ClaimsOnlyScheduled
<1>3. ASSUME NEW r, Writes(r) PROVE ClaimsOnlyScheduled'
  <2>1. IsRequest(r) /\ Execute(r)
    BY <1>3 DEF Writes
  <2>2. CASE Applies(r)
    BY <2>1, <2>2 DEF Execute, ClaimsOnlyScheduled, IsRequest, ShapeInv, Types
  <2>3. CASE ~Applies(r)
    BY <1>1, <2>1, <2>3 DEF Execute, table
  <2> QED BY <2>2, <2>3
<1> QED BY <1>1, <1>2, <1>3, Steps DEF Tick, Quiet, Sends

LEMMA LeaseMatchesNext ==
  ASSUME SyncInv, [Next]_vars
  PROVE  LeaseMatches'
<1> USE LimitsAssumption DEF SyncInv
<1>1. ASSUME NEW w \in Workers, NEW l \in Leads, Keeps(w), WithinLease(w, l)'
      PROVE  /\ WithinLease(w, l) /\ leaseAge'[w] = leaseAge[w]
             /\ sync[l] = "scheduled" /\ owner[l] = w /\ claimAge[l] = leaseAge[w]
  BY <1>1 DEF Keeps, WithinLease, LeaseMatches
<1>2. CASE Tick
  <2> SUFFICES ASSUME NEW w \in Workers, NEW l \in Leads, WithinLease(w, l)'
               PROVE  sync[l] = "scheduled" /\ owner[l] = w /\ claimAge'[l] = leaseAge'[w]
    BY <1>2 DEF LeaseMatches, Tick
  <2>1. WithinLease(w, l) /\ todo[w] # {}
    BY <1>2 DEF WithinLease, Tick, Older, ShapeInv, Types
  <2> QED BY <1>2, <2>1, NamesAssumption DEF LeaseMatches, Tick
<1>3. CASE UNCHANGED <<sync, owner, claimAge>> /\ \A w \in Workers : Keeps(w)
  BY <1>1, <1>3 DEF LeaseMatches
<1>4. ASSUME NEW w \in Workers, NEW batch \in SUBSET Leads, Claims(w, batch)
      PROVE  LeaseMatches'
  <2> SUFFICES ASSUME NEW v \in Workers, NEW l \in Leads, WithinLease(v, l)'
               PROVE  sync'[l] = "scheduled" /\ owner'[l] = v /\ claimAge'[l] = leaseAge'[v]
    BY DEF LeaseMatches
  <2>1. TakeClaims(w, batch) /\ \A k \in batch : Candidate(k)
    BY <1>4 DEF Claims, Claimable
  <2>2. CASE v = w
    <3>1. l \in batch /\ leaseAge'[w] = 0
      BY <1>4, <2>2 DEF Claims, WithinLease
    <3> QED BY <2>1, <2>2, <3>1 DEF TakeClaims, Candidate, Due, Swept, ShapeInv, Types
  <2>3. CASE v # w
    <3>1. /\ leaseAge'[v] = leaseAge[v] /\ WithinLease(v, l)
          /\ sync[l] = "scheduled" /\ owner[l] = v /\ claimAge[l] = leaseAge[v]
      BY <1>1, <1>4, <2>3 DEF Claims
    <3>2. ~Due(l)
      BY <3>1, NamesAssumption DEF Due, Stale, WithinLease, ShapeInv, Types
    <3> QED BY <2>1, <3>1, <3>2 DEF TakeClaims, Candidate, Swept
  <2> QED BY <2>2, <2>3
<1>5. ASSUME NEW r, Writes(r) PROVE LeaseMatches'
  <2> SUFFICES ASSUME NEW v \in Workers, NEW l \in Leads, WithinLease(v, l)'
               PROVE  sync'[l] = "scheduled" /\ owner'[l] = v /\ claimAge'[l] = leaseAge'[v]
    BY DEF LeaseMatches
  <2>1. /\ leaseAge'[v] = leaseAge[v] /\ l \in todo'[v] /\ l \notin disowned'[v]
        /\ l \in todo[v] /\ l \notin disowned[v]
        /\ sync[l] = "scheduled" /\ owner[l] = v /\ claimAge[l] = leaseAge[v]
    BY <1>1, <1>5 DEF Writes, WithinLease
  <2>2. Applies(r) => r.lead # l
    BY <1>5, <2>1, NamesAssumption DEF Writes, Applies, Remember
  <2>3. sync'[l] = sync[l] /\ owner'[l] = owner[l] /\ claimAge'[l] = claimAge[l]
    BY <1>5, <2>2 DEF Writes, Execute, table, ShapeInv, Types
  <2> QED BY <2>1, <2>3
<1> QED BY <1>2, <1>3, <1>4, <1>5, Steps DEF Quiet, Sends

LEMMA CountSeenNext ==
  ASSUME SyncInv, [Next]_vars
  PROVE  CountSeen'
<1> USE DEF SyncInv
<1>1. CASE UNCHANGED <<owner, count, todo, seen>>
  BY <1>1 DEF CountSeen
<1>2. CASE UNCHANGED <<owner, count>> /\ \A w \in Workers : Keeps(w)
  BY <1>2 DEF CountSeen, Keeps
<1>3. ASSUME NEW w \in Workers, NEW batch \in SUBSET Leads, Claims(w, batch)
      PROVE  CountSeen'
  <2> SUFFICES ASSUME NEW v \in Workers, NEW l \in Leads, l \in todo'[v], owner'[l] = v
               PROVE  count'[l] = seen'[v][l]
    BY DEF CountSeen
  <2>1. TakeClaims(w, batch)
    BY <1>3 DEF Claims
  <2>2. CASE v = w
    BY <1>3, <2>1, <2>2 DEF Claims, TakeClaims
  <2>3. CASE v # w
    <3>1. l \in todo[v] /\ seen'[v][l] = seen[v][l]
      BY <1>3, <2>3 DEF Claims, Keeps
    <3>2. l \notin batch /\ owner[l] = v
      BY <2>1, <2>3, NamesAssumption DEF TakeClaims
    <3> QED BY <2>1, <3>1, <3>2 DEF TakeClaims, CountSeen
  <2> QED BY <2>2, <2>3
<1>4. ASSUME NEW r, Writes(r) PROVE CountSeen'
  <2> SUFFICES ASSUME NEW v \in Workers, NEW l \in Leads, l \in todo'[v], owner'[l] = v
               PROVE  count'[l] = seen'[v][l]
    BY DEF CountSeen
  <2>1. l \in todo[v] /\ seen'[v][l] = seen[v][l] /\ Execute(r) /\ IsRequest(r)
    BY <1>4 DEF Writes, Keeps
  <2>2. Applies(r) => r.lead # l
    BY <2>1, NamesAssumption DEF Execute, IsRequest, ShapeInv, Types
  <2>3. owner'[l] = owner[l] /\ count'[l] = count[l]
    BY <2>1, <2>2 DEF Execute, table, ShapeInv, Types
  <2> QED BY <2>1, <2>3 DEF CountSeen
<1> QED BY <1>1, <1>2, <1>3, <1>4, Steps DEF Quiet, Sends, Tick

-----------------------------------------------------------------------------
(* The deliveries that a manual sync pays for.                             *)

LEMMA UnsentCounts ==
  ASSUME NEW l \in Leads
  PROVE  /\ IsFiniteSet(Unsent(l)) /\ Cardinality(Unsent(l)) \in Nat
         /\ IsFiniteSet(Unsent(l)') /\ Cardinality(Unsent(l)') \in Nat
<1>1. Unsent(l) \in SUBSET Workers /\ Unsent(l)' \in SUBSET Workers
  BY DEF Unsent
<1>2. IsFiniteSet(Workers)
  BY NamesAssumption
<1>3. IsFiniteSet(Unsent(l)) /\ IsFiniteSet(Unsent(l)')
  BY <1>1, <1>2, FS_Subset
<1> QED BY <1>3, FS_CardinalityType

LEMMA UnsentShrinks ==
  ASSUME NEW l \in Leads, \A w \in Workers : Keeps(w)
  PROVE  Cardinality(Unsent(l)') <= Cardinality(Unsent(l))
<1>1. Unsent(l)' \in SUBSET Unsent(l)
  BY DEF Keeps, Unsent
<1> QED BY <1>1, UnsentCounts, FS_Subset

LEMMA CreditCoversNext ==
  ASSUME SyncInv, [Next]_vars
  PROVE  CreditCovers'
<1> USE LimitsAssumption DEF SyncInv
<1> SUFFICES ASSUME NEW l \in Leads
             PROVE  credit'[l] >= Allowed(l)' + Cardinality(Unsent(l)')
  BY DEF CreditCovers
<1> DEFINE before == Cardinality(Unsent(l))
           after == Cardinality(Unsent(l)')
<1>1. before \in Nat /\ after \in Nat
  BY UnsentCounts
<1>2. /\ credit[l] \in Int /\ count[l] \in 0..MaxAttempts /\ Allowed(l) \in Nat
      /\ credit[l] >= Allowed(l) + before
  BY DEF ShapeInv, Types, Allowed, CreditCovers
<1>3. (\A w \in Workers : Keeps(w)) => after <= before
  BY UnsentShrinks
<1> HIDE DEF before, after
<1> SUFFICES credit'[l] >= Allowed(l)' + after
  BY DEF after
<1>4. CASE Tick
  <2>1. Allowed(l)' = Allowed(l) /\ credit' = credit /\ after = before
    BY <1>4 DEF Tick, Allowed, Unsent, after, before
  <2> QED BY <1>1, <1>2, <2>1
<1>5. CASE Quiet
  <2>1. Allowed(l)' = Allowed(l) /\ credit' = credit
    BY <1>5 DEF Quiet, Allowed
  <2> QED BY <1>1, <1>2, <1>3, <1>5, <2>1 DEF Quiet
<1>6. ASSUME NEW w \in Workers, NEW k \in Leads, Sends(w, k)
      PROVE  credit'[l] >= Allowed(l)' + after
  <2>1. Allowed(l)' = Allowed(l) /\ (\A v \in Workers : Keeps(v))
    BY <1>6 DEF Sends, Allowed
  <2>2. CASE k # l
    <3>1. credit'[l] = credit[l]
      BY <1>6, <2>2 DEF Sends, Send, ShapeInv, Types
    <3> QED BY <1>1, <1>2, <1>3, <2>1, <3>1
  <2>3. CASE k = l
    <3>1. credit'[l] = credit[l] - 1
      BY <1>6, <2>3 DEF Sends, Send, ShapeInv, Types
    <3>2. after <= before - 1
      <4>1. Unsent(l)' \in SUBSET (Unsent(l) \ {w}) /\ w \in Unsent(l)
        BY <1>6, <2>1, <2>3 DEF Sends, Keeps, Unsent
      <4>2. /\ IsFiniteSet(Unsent(l) \ {w})
            /\ Cardinality(Unsent(l) \ {w}) = before - 1
        BY <4>1, UnsentCounts, FS_RemoveElement DEF before
      <4> QED BY <4>1, <4>2, FS_Subset DEF after
    <3> QED BY <1>1, <1>2, <2>1, <3>1, <3>2
  <2> QED BY <2>2, <2>3
<1>7. ASSUME NEW w \in Workers, NEW batch \in SUBSET Leads, Claims(w, batch)
      PROVE  credit'[l] >= Allowed(l)' + after
  <2>1. /\ TakeClaims(w, batch) /\ credit' = credit /\ todo[w] = {}
        /\ \A k \in batch : Candidate(k)
    BY <1>7 DEF Claims, Claimable, ShapeInv, WorkerShape
  <2>2. CASE l \in batch
    <3>1. Allowed(l)' = Allowed(l) - 1
      BY <2>1, <2>2, <1>2 DEF TakeClaims, Allowed, Candidate, Due, Swept, ShapeInv, Types
    <3>2. after <= before + 1
      <4>1. Unsent(l)' \in SUBSET (Unsent(l) \cup {w}) /\ w \notin Unsent(l)
        BY <1>7, <2>1 DEF Claims, Keeps, Unsent
      <4>2. /\ IsFiniteSet(Unsent(l) \cup {w})
            /\ Cardinality(Unsent(l) \cup {w}) = before + 1
        BY <4>1, UnsentCounts, FS_AddElement DEF before
      <4> QED BY <4>1, <4>2, FS_Subset DEF after
    <3> QED BY <1>1, <1>2, <2>1, <3>1, <3>2
  <2>3. CASE l \notin batch
    <3>1. Allowed(l)' = Allowed(l)
      BY <2>1, <2>3, <1>2 DEF TakeClaims, Allowed, Due, Swept, ShapeInv, Types
    <3>2. Unsent(l)' \in SUBSET Unsent(l)
      BY <1>7, <2>3 DEF Claims, Keeps, Unsent
    <3>3. after <= before
      BY <3>2, UnsentCounts, FS_Subset DEF after, before
    <3> QED BY <1>1, <1>2, <2>1, <3>1, <3>3
  <2> QED BY <2>2, <2>3
<1>8. ASSUME NEW r, Writes(r) PROVE credit'[l] >= Allowed(l)' + after
  <2>1. IsRequest(r) /\ Execute(r) /\ after <= before
    BY <1>3, <1>8 DEF Writes
  <2>2. IF r.lead = l /\ r.from = NoWorker /\ r.result = "scheduled"
        THEN credit'[l] \in {credit[l], credit[l] + MaxAttempts}
        ELSE credit'[l] = credit[l]
    BY <1>8 DEF Writes, Remember, ShapeInv, Types
  <2>3. CASE r.lead # l \/ ~Applies(r)
    <3>1. Allowed(l)' = Allowed(l)
      BY <2>1, <2>3 DEF Execute, table, Allowed, ShapeInv, Types
    <3> QED BY <1>1, <1>2, <2>1, <2>2, <3>1
  <2>4. CASE r.lead = l /\ Applies(r) /\ r.from = NoWorker
    <3>1. sync'[l] = r.result /\ count'[l] = 0
      BY <2>1, <2>4 DEF Execute, ShapeInv, Types
    <3>2. r.result = "scheduled" => credit'[l] = credit[l] + MaxAttempts
      BY <1>8, <2>4, NamesAssumption DEF Writes, Remember, ShapeInv, Types
    <3>3. Allowed(l)' = IF r.result = "scheduled" THEN MaxAttempts ELSE 0
      BY <3>1 DEF Allowed
    <3> QED BY <1>1, <1>2, <2>1, <2>2, <3>2, <3>3
  <2>5. CASE r.lead = l /\ Applies(r) /\ r.from # NoWorker
    <3>1. sync[l] = "scheduled" /\ count'[l] = count[l]
      BY <2>1, <2>5 DEF Applies, Execute, ClaimsOnlyScheduled, ShapeInv, Types
    <3>2. Allowed(l)' <= Allowed(l) /\ Allowed(l)' \in Int
      BY <1>2, <3>1 DEF Allowed
    <3> QED BY <1>1, <1>2, <2>1, <2>2, <2>5, <3>2
  <2> QED BY <2>3, <2>4, <2>5
<1> QED BY <1>4, <1>5, <1>6, <1>7, <1>8, Steps

-----------------------------------------------------------------------------
(* The waits.  The claims do not depend on them.                           *)

Waits ==
  /\ classified \in SUBSET Leads
  /\ wait \in [Leads -> 0..RetryMax]
  /\ request \in [Procs -> Requests \cup {NoRequest}]
  /\ \A p \in Procs : phase[p] = "writing" => request[p] \in Requests
  /\ late \in SUBSET Requests
  /\ manual \in 0..MaxManual

LEMMA AgedWaits == ASSUME NEW r \in Requests PROVE Aged(r) \in Requests
<1>1. Sooner(r.wait) \in 0..RetryMax
  BY LimitsAssumption DEF Sooner, Requests
<1> QED BY <1>1 DEF Aged, Requests

LEMMA WriteOfWaits ==
  ASSUME ShapeInv, NEW w \in Workers, NEW l \in Leads, NEW result \in Results
  PROVE  WriteOf(w, l, result) \in Requests
<1>1. seen[w][l] \in Nat
  BY LimitsAssumption DEF ShapeInv, Types
<1>2. RetryDelay(seen[w][l], RetryBase, RetryMax) \in RetryBase..RetryMax
  BY <1>1, LimitsAssumption, RetryDelayBounds
<1>3. /\ RetryDelay(seen[w][l], RetryBase, RetryMax) \in 0..RetryMax
      /\ 0 \in 0..RetryMax
  BY <1>2, LimitsAssumption
<1> QED BY <1>3 DEF WriteOf, Requests

LEMMA ExecuteWaits ==
  ASSUME Waits, NEW r \in Requests, Execute(r)
  PROVE  wait' \in [Leads -> 0..RetryMax] /\ classified' \in SUBSET Leads
<1>1. CASE Applies(r)
  BY <1>1 DEF Execute, Requests, Waits
<1>2. CASE ~Applies(r)
  BY <1>2 DEF Execute, table, Waits
<1> QED BY <1>1, <1>2

\* A process takes a request in hand to write it, and lays it aside before it
\* does anything else.
LEMMA HandWaits ==
  ASSUME ShapeInv, Waits, NEW p \in Procs, NEW where, NEW r \in Requests \cup {NoRequest},
         phase' = [phase EXCEPT ![p] = where], request' = [request EXCEPT ![p] = r],
         where = "writing" => r \in Requests
  PROVE  /\ request' \in [Procs -> Requests \cup {NoRequest}]
         /\ \A q \in Procs : phase'[q] = "writing" => request'[q] \in Requests
<1>1. request' \in [Procs -> Requests \cup {NoRequest}]
  BY DEF Waits
<1>2. ASSUME NEW q \in Procs, phase'[q] = "writing" PROVE request'[q] \in Requests
  <2>1. CASE q = p
    BY <1>2, <2>1 DEF Waits, ShapeInv, Types
  <2>2. CASE q # p
    BY <1>2, <2>2 DEF Waits, ShapeInv, Types
  <2> QED BY <2>1, <2>2
<1> QED BY <1>1, <1>2

\* A worker moves on, and its write may be delayed.
LEMMA LeavesWaits ==
  ASSUME ShapeInv, Waits, NEW w \in Workers, NEW rest, Continue(w, rest),
         wait' \in [Leads -> 0..RetryMax], classified' \in SUBSET Leads,
         late' \subseteq late \cup (IF phase[w] = "writing" THEN {request[w]} ELSE {}),
         manual' = manual
  PROVE  Waits'
<1>1. w \in Procs
  BY DEF Procs
<1>2. late' \in SUBSET Requests
  BY <1>1 DEF Waits
<1>3. PICK where \in {"idle", "between"} : phase' = [phase EXCEPT ![w] = where]
  <2>1. CASE rest = {}
    BY <2>1 DEF Continue
  <2>2. CASE rest # {}
    BY <2>2 DEF Continue
  <2> QED BY <2>1, <2>2
<1>4. /\ request' \in [Procs -> Requests \cup {NoRequest}]
      /\ \A q \in Procs : phase'[q] = "writing" => request'[q] \in Requests
  BY <1>1, <1>3, HandWaits DEF Continue
<1> QED BY <1>2, <1>4 DEF Waits

LEMMA WorkerWaits ==
  ASSUME ShapeInv, Waits, NEW w \in Workers, WorkerStep(w)
  PROVE  Waits'
<1>1. w \in Procs
  BY DEF Procs
<1>2. UNCHANGED table => wait' \in [Leads -> 0..RetryMax] /\ classified' \in SUBSET Leads
  BY DEF table, Waits
<1>3. UNCHANGED late /\ UNCHANGED manual => late' \in SUBSET Requests /\ manual' \in 0..MaxManual
  BY DEF Waits
<1>4. ASSUME NEW where, where # "writing", phase' = [phase EXCEPT ![w] = where],
             request' = request, UNCHANGED <<table, late, manual>>
      PROVE  Waits'
  <2>1. /\ request' \in [Procs -> Requests \cup {NoRequest}]
        /\ \A q \in Procs : phase'[q] = "writing" => request'[q] \in Requests
    BY <1>4 DEF Waits, ShapeInv, Types
  <2> QED BY <1>2, <1>3, <1>4, <2>1 DEF Waits
<1>5. ASSUME NEW l \in Leads, NEW result \in Results, phase' = [phase EXCEPT ![w] = "writing"],
             request' = [request EXCEPT ![w] = WriteOf(w, l, result)],
             UNCHANGED <<table, late, manual>>
      PROVE  Waits'
  <2>1. WriteOf(w, l, result) \in Requests
    BY WriteOfWaits
  <2>2. /\ request' \in [Procs -> Requests \cup {NoRequest}]
        /\ \A q \in Procs : phase'[q] = "writing" => request'[q] \in Requests
    BY <1>1, <1>5, <2>1, HandWaits
  <2> QED BY <1>2, <1>3, <1>5, <2>2 DEF Waits
<1>6. CASE StartBatch(w)
  BY <1>4, <1>6 DEF StartBatch, history
<1>7. CASE Claim(w) \/ ClaimFails(w)
  <2>1. \/ UNCHANGED table
        \/ \E batch : TakeClaims(w, batch)
    BY <1>7 DEF Claim, ClaimFails
  <2>2. wait' \in [Leads -> 0..RetryMax] /\ classified' \in SUBSET Leads
    BY <1>2, <2>1 DEF TakeClaims, Waits
  <2>3. (\E rest : Continue(w, rest)) /\ late' = late /\ manual' = manual
    BY <1>7 DEF Claim, ClaimFails
  <2> QED BY <2>2, <2>3, LeavesWaits
<1>8. ASSUME NEW l \in Leads, Send(w, l) PROVE Waits'
  BY <1>4, <1>8 DEF Send
<1>9. ASSUME NEW l \in Leads, RejectRow(w, l) PROVE Waits'
  <2>1. "manual" \in Results
    BY DEF Results
  <2> QED BY <1>5, <1>9, <2>1 DEF RejectRow, history
<1>10. CASE SendEnds(w)
  <2>1. cur[w] \in Leads
    BY <1>10 DEF SendEnds, ShapeInv, WorkerShape, Types
  <2>2. PICK result \in {"synced", "manual", AfterRetryable(w, cur[w])} :
          request' = [request EXCEPT ![w] = WriteOf(w, cur[w], result)]
    BY <1>10 DEF SendEnds
  <2>3. result \in Results
    BY DEF Results, AfterRetryable
  <2> QED BY <1>5, <1>10, <2>1, <2>2, <2>3 DEF SendEnds, history
<1>11. CASE Write(w)
  <2>1. wait' \in [Leads -> 0..RetryMax] /\ classified' \in SUBSET Leads
    BY <1>1, <1>11, ExecuteWaits DEF Write, Waits
  <2>2. (\E rest : Continue(w, rest)) /\ late' = late /\ manual' = manual
    BY <1>11 DEF Write, Done
  <2> QED BY <2>1, <2>2, LeavesWaits
<1>12. CASE WriteFails(w) \/ Crash(w)
  <2>1. /\ \E rest : Continue(w, rest)
        /\ late' \subseteq late \cup (IF phase[w] = "writing" THEN {request[w]} ELSE {})
        /\ UNCHANGED table /\ manual' = manual
    BY <1>12 DEF WriteFails, Crash, Done
  <2> QED BY <1>2, <2>1, LeavesWaits
<1> QED BY <1>6, <1>7, <1>8, <1>9, <1>10, <1>11, <1>12 DEF WorkerStep

LEMMA ApiWaits ==
  ASSUME ShapeInv, Waits, NEW a \in Admins, ApiStep(a)
  PROVE  Waits'
<1>1. a \in Procs
  BY DEF Procs
<1>2. UNCHANGED table => wait' \in [Leads -> 0..RetryMax] /\ classified' \in SUBSET Leads
  BY DEF table, Waits
<1>3. ASSUME ApiIdle(a), wait' \in [Leads -> 0..RetryMax], classified' \in SUBSET Leads,
             late' \subseteq late \cup (IF phase[a] = "writing" THEN {request[a]} ELSE {}),
             manual' = manual
      PROVE  Waits'
  <2>1. late' \in SUBSET Requests
    BY <1>1, <1>3 DEF Waits
  <2>2. /\ request' \in [Procs -> Requests \cup {NoRequest}]
        /\ \A q \in Procs : phase'[q] = "writing" => request'[q] \in Requests
    BY <1>1, <1>3, HandWaits DEF ApiIdle
  <2> QED BY <1>3, <2>1, <2>2 DEF Waits
<1>4. ASSUME NEW l \in Leads, ApiSync(a, l) PROVE Waits'
  <2>1. manual' \in 0..MaxManual
    BY <1>4, LimitsAssumption DEF ApiSync, Waits
  <2>2. /\ request' \in [Procs -> Requests \cup {NoRequest}]
        /\ \A q \in Procs : phase'[q] = "writing" => request'[q] \in Requests
    BY <1>4 DEF ApiSync, Waits, ShapeInv, Types
  <2> QED BY <1>2, <1>4, <2>1, <2>2 DEF ApiSync, Waits
<1>5. CASE ApiNotConfigured(a)
  BY <1>2, <1>3, <1>5 DEF ApiNotConfigured, history
<1>6. CASE ApiSendEnds(a)
  <2>1. PICK result \in {"synced", "scheduled", "manual"} :
          request' = [request EXCEPT ![a] =
                        [from |-> NoWorker, lead |-> cur[a], result |-> result,
                         wait |-> IF result = "scheduled" THEN RetryBase ELSE 0]]
    BY <1>6 DEF ApiSendEnds
  <2>2. cur[a] \in Leads
    BY <1>6 DEF ApiSendEnds, ShapeInv, AdminShape
  <2>3. RetryBase \in 0..RetryMax /\ 0 \in 0..RetryMax
    BY LimitsAssumption
  <2>4. [from |-> NoWorker, lead |-> cur[a], result |-> result,
         wait |-> IF result = "scheduled" THEN RetryBase ELSE 0] \in Requests
    BY <2>2, <2>3 DEF Requests, Results
  <2>5. /\ request' \in [Procs -> Requests \cup {NoRequest}]
        /\ \A q \in Procs : phase'[q] = "writing" => request'[q] \in Requests
    BY <1>1, <1>6, <2>1, <2>4, HandWaits DEF ApiSendEnds
  <2> QED BY <1>2, <1>6, <2>5 DEF ApiSendEnds, history, Waits
<1>7. CASE ApiWrite(a)
  <2>1. wait' \in [Leads -> 0..RetryMax] /\ classified' \in SUBSET Leads
    BY <1>1, <1>7, ExecuteWaits DEF ApiWrite, Waits
  <2> QED BY <1>3, <1>7, <2>1 DEF ApiWrite
<1>8. CASE ApiFails(a)
  BY <1>2, <1>3, <1>8 DEF ApiFails, history
<1> QED BY <1>4, <1>5, <1>6, <1>7, <1>8 DEF ApiStep

LEMMA WaitsInvariant == Spec => [](ShapeInv /\ Waits)
<1>1. Init => Waits
  <2>1. 0 \in 0..RetryMax /\ 0 \in 0..MaxManual
    BY LimitsAssumption
  <2> QED BY <2>1 DEF Init, Waits
<1>2. ShapeInv /\ Waits /\ [Next]_vars => Waits'
  <2> SUFFICES ASSUME ShapeInv, Waits, [Next]_vars PROVE Waits'
    OBVIOUS
  <2>1. CASE Tick
    <3>1. wait' \in [Leads -> 0..RetryMax]
      BY <2>1, LimitsAssumption DEF Tick, Sooner, Waits
    <3>2. /\ request' \in [Procs -> Requests \cup {NoRequest}]
          /\ \A q \in Procs : phase'[q] = "writing" => request'[q] \in Requests
      BY <2>1, AgedWaits DEF Tick, Waits
    <3>3. late' \in SUBSET Requests
      BY <2>1, AgedWaits DEF Tick, Waits
    <3> QED BY <2>1, <3>1, <3>2, <3>3 DEF Tick, Waits
  <2>2. ASSUME NEW l \in Leads, Classify(l) PROVE Waits'
    BY <2>2 DEF Classify, procs, history, Waits
  <2>3. ASSUME NEW w \in Workers, WorkerStep(w) PROVE Waits'
    BY <2>3, WorkerWaits
  <2>4. ASSUME NEW a \in Admins, ApiStep(a) PROVE Waits'
    BY <2>4, ApiWaits
  <2>5. ASSUME NEW r \in late, LateWrite(r) PROVE Waits'
    <3>1. wait' \in [Leads -> 0..RetryMax] /\ classified' \in SUBSET Leads
      BY <2>5, ExecuteWaits DEF LateWrite, Waits
    <3> QED BY <2>5, <3>1 DEF LateWrite, procs, Waits
  <2>6. ASSUME NEW r \in late, LateDropped(r) PROVE Waits'
    BY <2>6 DEF LateDropped, table, procs, history, Waits
  <2>7. CASE UNCHANGED vars
    BY <2>7 DEF vars, Waits
  <2> QED BY <2>1, <2>2, <2>3, <2>4, <2>5, <2>6, <2>7 DEF Next
<1> QED BY <1>1, <1>2, ShapeInit, ShapeNext, PTL DEF Spec

-----------------------------------------------------------------------------
(* The theorems.                                                           *)

LEMMA SyncInvInvariant == Spec => []SyncInv
<1>1. Init => SyncInv
  <2> SUFFICES ASSUME Init PROVE SyncInv
    OBVIOUS
  <2>1. \A l \in Leads : Unsent(l) = {}
    BY DEF Init, Unsent
  <2>2. CreditCovers
    <3> SUFFICES ASSUME NEW l \in Leads
                 PROVE  credit[l] >= Allowed(l) + Cardinality(Unsent(l))
      BY DEF CreditCovers
    <3>1. Cardinality(Unsent(l)) = 0
      BY <2>1, FS_EmptySet
    <3>2. Allowed(l) = 0 /\ credit[l] = 0
      BY DEF Init, Allowed
    <3> QED BY <3>1, <3>2
  <2> QED BY <2>2, ShapeInit DEF Init, SyncInv, ClaimsOnlyScheduled, LeaseMatches, WithinLease,
             CountSeen
<1>2. SyncInv /\ [Next]_vars => SyncInv'
  BY ShapeNext, ClaimsOnlyScheduledNext, LeaseMatchesNext, CountSeenNext, CreditCoversNext
     DEF SyncInv
<1> QED BY <1>1, <1>2, PTL DEF Spec

\* Every row, request and batch stays well-formed.  In particular no attempt
\* count exceeds the limit, and no retry is ever due later than retry_max_seconds.
THEOREM SyncTypeCorrect == Spec => []TypeOK
<1>1. ShapeInv /\ Waits => TypeOK
  BY DEF ShapeInv, Types, Waits, TypeOK, Phases
<1> QED BY <1>1, WaitsInvariant, PTL

\* A claim is only ever left on a row that is scheduled: no write, in whatever
\* order it is executed, strands a claim on a row that no query looks at again.
THEOREM ClaimsStayOnTheQueue == Spec => []ClaimsOnlyScheduled
<1>1. SyncInv => ClaimsOnlyScheduled
  BY DEF SyncInv
<1> QED BY <1>1, SyncInvInvariant, PTL

\* A worker within its claim timeout owns its leads, whatever the other workers
\* claim, unless a manual sync or a late write of its own has ended the claim.
THEOREM LeaseAlwaysHonoured == Spec => []LeaseHonoured
<1>1. SyncInv => LeaseHonoured
  <2> SUFFICES ASSUME SyncInv, NEW w \in Workers, NEW l \in Leads, WithinLease(w, l)
               PROVE  sync[l] = "scheduled" /\ owner[l] = w /\ ~Stale(l)
    BY DEF LeaseHonoured
  <2> QED BY LimitsAssumption DEF SyncInv, LeaseMatches, Stale, WithinLease, ShapeInv, Types
<1> QED BY <1>1, SyncInvInvariant, PTL

\* The CRM never receives more automatic deliveries than the manual syncs have
\* bought, however many workers claim, crash, time out and are overtaken.
THEOREM RetriesAlwaysBought == Spec => []RetriesAreBought
<1>1. SyncInv => RetriesAreBought
  <2> SUFFICES ASSUME SyncInv, NEW l \in Leads PROVE credit[l] >= 0
    BY DEF RetriesAreBought
  <2>1. Cardinality(Unsent(l)) \in Nat /\ Allowed(l) \in Nat /\ credit[l] \in Int
    BY UnsentCounts, LimitsAssumption DEF Allowed, SyncInv, ShapeInv, Types
  <2>2. credit[l] >= Allowed(l) + Cardinality(Unsent(l))
    BY DEF SyncInv, CreditCovers
  <2> QED BY <2>1, <2>2
<1> QED BY <1>1, SyncInvInvariant, PTL

\* A synced row changes only by a write of the API: a result that a worker
\* sends after it was overtaken finds no claim of its own to apply to.
THEOREM SyncedStaysUnlessManual == Spec => SyncedUnlessManual
<1>1. SyncInv /\ [Next]_vars =>
        [\A l \in Leads : sync[l] = "synced" => sync'[l] = "synced" \/ ApiWrites]_vars
  <2> SUFFICES ASSUME SyncInv, [Next]_vars, NEW l \in Leads, sync[l] = "synced"
               PROVE  sync'[l] = "synced" \/ ApiWrites
    OBVIOUS
  <2>1. owner[l] = NoWorker
    BY DEF SyncInv, ShapeInv, Types, ClaimsOnlyScheduled
  <2>2. ASSUME NEW w \in Workers, NEW batch \in SUBSET Leads, Claims(w, batch)
        PROVE  sync'[l] = "synced"
    BY <2>2 DEF Claims, TakeClaims, Swept, Due
  <2>3. ASSUME NEW r, Writes(r) PROVE sync'[l] = "synced" \/ ApiWrites
    <3>1. CASE r.lead = l /\ Applies(r)
      BY <2>1, <2>3, <3>1, NamesAssumption DEF Writes, Applies
    <3>2. CASE ~(r.lead = l /\ Applies(r))
      BY <2>3, <3>2 DEF Writes, Execute, table, SyncInv, ShapeInv, Types
    <3> QED BY <3>1, <3>2
  <2> QED BY <2>2, <2>3, Steps DEF SyncInv, Tick, Quiet, Sends
<1> QED BY <1>1, SyncInvInvariant, PTL DEF Spec, SyncedUnlessManual

\* A lead is given up only when the row's own attempts are spent: a worker that
\* a manual sync has overtaken, and that still counts from before, cannot do it.
THEOREM ExhaustedOnlyWhenSpent == Spec => ExhaustedIsSpent
<1> DEFINE Spent == \A l \in Leads : sync'[l] = "exhausted" /\ sync[l] # "exhausted" =>
                      \/ count[l] = MaxAttempts
                      \/ \E r \in late : r.lead = l /\ r \notin late'
<1>1. SyncInv /\ [Next]_vars => [Spent]_vars
  <2> SUFFICES ASSUME SyncInv, [Next]_vars, NEW l \in Leads,
                      sync'[l] = "exhausted", sync[l] # "exhausted"
               PROVE  count[l] = MaxAttempts \/ \E r \in late : r.lead = l /\ r \notin late'
    OBVIOUS
  <2>1. count[l] \in 0..MaxAttempts
    BY DEF SyncInv, ShapeInv, Types
  <2>2. ASSUME NEW w \in Workers, NEW batch \in SUBSET Leads, Claims(w, batch)
        PROVE  count[l] = MaxAttempts
    BY <2>1, <2>2, LimitsAssumption DEF Claims, TakeClaims, Swept
  <2>3. ASSUME NEW r, Writes(r)
        PROVE  count[l] = MaxAttempts \/ \E s \in late : s.lead = l /\ s \notin late'
    <3>1. r.lead = l /\ Applies(r) /\ r.result = "exhausted"
      BY <2>3 DEF Writes, IsRequest, Execute, table, SyncInv, ShapeInv, Types
    <3>2. CASE r.from \in Workers /\ phase[r.from] = "writing" /\ request[r.from] = r
      <4> DEFINE w == r.from
      <4>1. w \in Workers /\ l \in todo[w] /\ seen[w][l] = MaxAttempts
        BY <3>1, <3>2 DEF SyncInv, ShapeInv, WorkerShape
      <4>2. owner[l] = w
        BY <3>1, <3>2, NamesAssumption DEF Applies
      <4> QED BY <4>1, <4>2 DEF SyncInv, CountSeen
    <3>3. CASE r \in late /\ r \notin late'
      BY <3>1, <3>3
    <3> QED BY <2>3, <3>1, <3>2, <3>3 DEF Writes
  <2> QED BY <2>2, <2>3, Steps DEF SyncInv, Tick, Quiet, Sends
<1> QED BY <1>1, SyncInvInvariant, PTL DEF Spec, ExhaustedIsSpent
=============================================================================
