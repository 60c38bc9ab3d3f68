----------------------------- MODULE RateLimiter -----------------------------
(***************************************************************************)
(* LeadIntakeRateLimiter: two sliding windows per client key, a table of   *)
(* at most MaxTracked keys, one shared key for everybody else, and a       *)
(* cleanup of idle keys now and then.  check() holds a lock and has no     *)
(* await in it, so it is one step.  Time is relative: a timestamp is the   *)
(* age of an admitted request, and ages stop at Hour, where the code       *)
(* forgets them.                                                           *)
(***************************************************************************)
EXTENDS Integers, Sequences, FiniteSets

CONSTANTS
  Callers,          \* what the client IP resolver returns
  Overflow,         \* OVERFLOW_CLIENT_KEY
  PerMinute,        \* per_minute
  PerHour,          \* per_hour
  Minute,           \* MINUTE_SECONDS
  Hour,             \* HOUR_SECONDS
  MaxTracked,       \* MAX_TRACKED_CLIENTS
  CleanupInterval   \* cleanup_interval_seconds

ASSUME OverflowAssumption == Overflow \notin Callers
ASSUME LimiterAssumption ==
  /\ PerMinute \in Nat \ {0} /\ PerHour \in Nat \ {0}
  /\ Minute \in Nat \ {0} /\ Hour \in Nat /\ Hour > Minute
  /\ MaxTracked \in Nat \ {0} /\ CleanupInterval \in Nat \ {0}

VARIABLES
  tracked,    \* the keys of _requests
  times,      \* _requests: the ages of the admitted requests, oldest first
  cleanup,    \* _next_cleanup_at - now
  admitted,   \* history: who was admitted under which key, within the last Hour
  promise     \* history: what is left of the last Retry-After told under a key

limiterVars == <<tracked, times, cleanup, admitted, promise>>

CallerKeys == Callers \cup {Overflow}
NoPromise == -1

\* The table holds no more than its limit and the shared key.
LimiterTypeOK ==
  /\ tracked \in SUBSET CallerKeys /\ Cardinality(tracked) <= MaxTracked + 1
  /\ times \in [CallerKeys -> Seq(0..Hour)]
  /\ \A k \in CallerKeys : Len(times[k]) <= PerHour /\ (k \notin tracked => times[k] = <<>>)
  /\ cleanup \in 0..CleanupInterval
  /\ admitted \in Seq([client : Callers, key : CallerKeys, age : 0..(Hour - 1)])
  /\ promise \in [CallerKeys -> -1..Hour]

LimiterInit ==
  /\ tracked = {}
  /\ times = [k \in CallerKeys |-> <<>>]
  /\ cleanup = CleanupInterval
  /\ admitted = <<>>
  /\ promise = [k \in CallerKeys |-> NoPromise]

-----------------------------------------------------------------------------

\* popleft until the first is one to keep.
PopLeft(seq, kept) ==
  LET first == CHOOSE i \in 1..(Len(seq) + 1) :
                 (i \in kept \/ i = Len(seq) + 1) /\ \A j \in kept : j >= i
  IN  SubSeq(seq, first, Len(seq))

\* The requests that are younger than a window.
Within(ages, window) == {i \in DOMAIN ages : ages[i] < window}

LimiterTick ==
  /\ times' = [k \in CallerKeys |-> [i \in DOMAIN times[k] |->
                                       IF times[k][i] < Hour THEN times[k][i] + 1 ELSE Hour]]
  /\ cleanup' = IF cleanup > 0 THEN cleanup - 1 ELSE 0
  /\ admitted' = LET aged == [i \in DOMAIN admitted |-> [admitted[i] EXCEPT !.age = @ + 1]]
                 IN  PopLeft(aged, {i \in DOMAIN aged : aged[i].age < Hour})
  /\ promise' = [k \in CallerKeys |-> IF promise[k] > 0 THEN promise[k] - 1 ELSE promise[k]]
  /\ UNCHANGED tracked

\* _prune_timestamps.
Pruned(ages) == PopLeft(ages, Within(ages, Hour))

\* Mutated form: a key is idle after a minute.
IdleAfterMinute(k) == \A i \in DOMAIN times[k] : times[k][i] >= Minute

Idle(k) == Pruned(times[k]) = <<>>

\* The table after the periodic cleanup, if it is due.
CleanedKeys == IF cleanup = 0 THEN {k \in tracked : ~Idle(k)} ELSE tracked

\* _effective_client_key.
EffectiveKey(c, keys) ==
  IF c \notin keys /\ Cardinality(keys) >= MaxTracked THEN Overflow ELSE c

First(indices) == CHOOSE i \in indices : \A j \in indices : i <= j

\* When the windows that are full have room again.
Waits(ages) ==
  (IF Len(ages) >= PerHour THEN {Hour - ages[1]} ELSE {})
    \cup
  (IF Cardinality(Within(ages, Minute)) >= PerMinute
   THEN {Minute - ages[First(Within(ages, Minute))]} ELSE {})

\* Mutated form: the first window to have room decides.
RetryAfterSooner(waits) == CHOOSE t \in waits : \A u \in waits : t <= u

RetryAfter(waits) == CHOOSE t \in waits : \A u \in waits : t >= u

Check(c) ==
  LET keys == CleanedKeys
      key == EffectiveKey(c, keys)
      ages == IF key \in keys THEN Pruned(times[key]) ELSE <<>>
      waits == Waits(ages)
      kept == [k \in CallerKeys |-> IF k = key THEN ages
                                    ELSE IF k \notin keys THEN <<>>
                                    ELSE IF cleanup = 0 THEN Pruned(times[k]) ELSE times[k]]
  IN
  /\ tracked' = keys \cup {key}
  /\ cleanup' = IF cleanup = 0 THEN CleanupInterval ELSE cleanup
  /\ \/ /\ waits = {}
        /\ times' = [kept EXCEPT ![key] = Append(@, 0)]
        /\ admitted' = Append(admitted, [client |-> c, key |-> key, age |-> 0])
        /\ promise' = [promise EXCEPT ![key] = NoPromise]
     \/ /\ waits # {}
        /\ times' = kept
        /\ promise' = [promise EXCEPT ![key] = RetryAfter(waits)]
        /\ UNCHANGED admitted

LimiterNext == LimiterTick \/ \E c \in Callers : Check(c)

LimiterSpec == LimiterInit /\ [][LimiterNext]_limiterVars

-----------------------------------------------------------------------------
(* Properties.                                                             *)

AdmittedUnder(k, window) == {i \in DOMAIN admitted : admitted[i].key = k /\ admitted[i].age < window}

\* Whatever is pruned, cleaned up or refused, no key is admitted more often than
\* the limits allow, in any minute and in any hour.
KeyLimits ==
  \A k \in CallerKeys : /\ Cardinality(AdmittedUnder(k, Minute)) <= PerMinute
                        /\ Cardinality(AdmittedUnder(k, Hour)) <= PerHour

\* Retry-After is exact: until it has passed nobody is admitted under that key,
\* and the first request afterwards is.
RetryAfterIsExact ==
  [][\A k \in CallerKeys : promise[k] # NoPromise =>
       /\ promise'[k] = NoPromise => promise[k] = 0
       /\ promise'[k] <= promise[k]]_limiterVars

\* "Public intake is limited per connecting client by RATE_LIMIT_PER_MINUTE"
\* (README): the same of a client, whichever key it is counted under.
ClientLimit ==
  \A c \in Callers :
    Cardinality({i \in DOMAIN admitted : admitted[i].client = c /\ admitted[i].age < Minute})
      <= PerMinute
=============================================================================
