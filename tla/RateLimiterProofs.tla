-------------------------- MODULE RateLimiterProofs --------------------------
(***************************************************************************)
(* Proofs about RateLimiter, for any clients, limits and windows.          *)
(***************************************************************************)
EXTENDS RateLimiter, FiniteSetTheorems, FunctionTheorems, SequenceTheorems,
        NaturalsInduction, WellFoundedInduction, TLAPS

-----------------------------------------------------------------------------
(* The inductive invariant.                                                *)

\* Ages of admitted requests, oldest first.
Ages(s) == s \in Seq(0..Hour) /\ \A i, j \in DOMAIN s : i <= j => s[i] >= s[j]

\* The limiter and the history remember requests in the order of their admission.
Ordered ==
  /\ \A k \in CallerKeys : Ages(times[k])
  /\ \A i, j \in DOMAIN admitted : i <= j => admitted[i].age >= admitted[j].age

\* What is remembered under a key is what was admitted under it, in every window
\* up to an hour: nothing that still counts has been pruned or cleaned up.
Remembered ==
  \A k \in CallerKeys, w \in 0..Hour :
    Cardinality(AdmittedUnder(k, w)) = Cardinality(Within(times[k], w))

MinuteKept == \A k \in CallerKeys : Cardinality(Within(times[k], Minute)) <= PerMinute

\* The shared key has room beside the others.
SharedHasRoom == IsFiniteSet(tracked) /\ Cardinality(tracked \ {Overflow}) <= MaxTracked

\* How long a window is full.
WindowWait(s, w, n) ==
  IF Cardinality(Within(s, w)) >= n THEN {w - s[First(Within(s, w))]} ELSE {}
AllWaits(s) == WindowWait(s, Hour, PerHour) \cup WindowWait(s, Minute, PerMinute)

\* What was promised is what the fuller window still takes.
PromiseKept ==
  \A k \in CallerKeys : promise[k] # NoPromise =>
    /\ \A t \in AllWaits(times[k]) : t <= promise[k]
    /\ promise[k] > 0 => promise[k] \in AllWaits(times[k])

LimiterInv ==
  LimiterTypeOK /\ Ordered /\ Remembered /\ MinuteKept /\ SharedHasRoom /\ PromiseKept

-----------------------------------------------------------------------------
(* Sets of numbers.                                                        *)

\* A set of natural numbers has a least element.
LEMMA LeastElement ==
  ASSUME NEW T \in SUBSET Nat, T # {}
  PROVE  \E n \in T : \A m \in T : n <= m
<1> DEFINE R == OpToRel(<, Nat)
<1>1. IsWellFoundedOn(R, Nat)
  BY NatLessThanWellFounded
<1>2. \A x, y \in Nat : <<x, y>> \in R <=> x < y
  BY DEF OpToRel
<1> HIDE DEF R
<1>3. PICK x \in T : \A y \in T : ~(<<y, x>> \in R)
  BY <1>1, WFMin
<1>4. ASSUME NEW y \in T PROVE x <= y
  <2>1. x \in Nat /\ y \in Nat
    OBVIOUS
  <2>2. ~(y < x)
    BY <1>2, <1>3, <2>1, Zenon
  <2> QED BY <2>1, <2>2
<1> QED BY <1>4

LEMMA FirstIsLeast ==
  ASSUME NEW T \in SUBSET Nat, T # {}
  PROVE  First(T) \in T /\ \A m \in T : First(T) <= m
BY LeastElement DEF First

\* Numbering from another place does not change how many there are.
LEMMA ShiftCounts ==
  ASSUME NEW S \in SUBSET Nat, IsFiniteSet(S), NEW d \in Nat, NEW T \in SUBSET Nat,
         \A i \in Nat : i \in T <=> i + d \in S, \A s \in S : s >= d
  PROVE  Cardinality(T) = Cardinality(S)
<1> DEFINE f == [s \in S |-> s - d]
<1>1. \A s \in S : s - d \in Nat /\ (s - d) + d = s
  OBVIOUS
<1>2. f \in [S -> T]
  BY <1>1
<1>3. \A s, t \in S : f[s] = f[t] => s = t
  OBVIOUS
<1>4. \A i \in T : i + d \in S /\ f[i + d] = i
  OBVIOUS
<1>5. f \in Bijection(S, T)
  <2>1. \A t \in T : \E s \in S : f[s] = t
    BY <1>4
  <2> HIDE DEF f
  <2> QED BY <1>2, <1>3, <2>1, Fun_IsBij
<1> QED BY <1>5, FS_Bijection DEF ExistsBijection

-----------------------------------------------------------------------------
(* Pruning.                                                                *)

\* What is popped is what comes before the first one to keep.
LEMMA PopLeftDrops ==
  ASSUME NEW S, NEW seq \in Seq(S), NEW kept \in SUBSET (1..Len(seq))
  PROVE  \E d \in 0..Len(seq) :
           /\ PopLeft(seq, kept) \in Seq(S) /\ Len(PopLeft(seq, kept)) = Len(seq) - d
           /\ \A i \in 1..(Len(seq) - d) : PopLeft(seq, kept)[i] = seq[i + d]
           /\ \A j \in kept : j > d
           /\ d < Len(seq) => d + 1 \in kept
<1> DEFINE n == Len(seq)
           Starts(i) == (i \in kept \/ i = n + 1) /\ \A j \in kept : j >= i
           first == CHOOSE i \in 1..(n + 1) : Starts(i)
<1>1. n \in Nat /\ seq \in [1..n -> S] /\ DOMAIN seq = 1..n
  BY LenProperties
<1>2. \E i \in 1..(n + 1) : Starts(i)
  <2>1. kept \cup {n + 1} \in SUBSET Nat /\ kept \cup {n + 1} # {}
    <3>1. n + 1 \in Nat /\ 1..n \in SUBSET Nat
      BY <1>1
    <3> QED BY <3>1
  <2>2. PICK i \in kept \cup {n + 1} : \A j \in kept \cup {n + 1} : i <= j
    BY <2>1, LeastElement
  <2>3. i \in 1..(n + 1) /\ \A j \in kept : j >= i
    BY <1>1, <2>2
  <2> QED BY <2>2, <2>3
<1>3. first \in 1..(n + 1) /\ Starts(first)
  BY <1>2
<1>4. PopLeft(seq, kept) = SubSeq(seq, first, n)
  BY DEF PopLeft
<1> HIDE DEF n, first
<1>5. first \in Int /\ n \in Int /\ \A i \in first..n : seq[i] \in S
  BY <1>1, <1>3
<1>6. /\ SubSeq(seq, first, n) \in Seq(S)
      /\ Len(SubSeq(seq, first, n)) = IF first <= n THEN n - first + 1 ELSE 0
      /\ \A i \in 1..(n - first + 1) : SubSeq(seq, first, n)[i] = seq[first + i - 1]
  BY <1>5, SubSeqProperties
<1> DEFINE d == first - 1
<1>7. d \in 0..n /\ first = d + 1 /\ n - first + 1 = n - d
  BY <1>1, <1>3
<1>8. /\ PopLeft(seq, kept) \in Seq(S) /\ Len(PopLeft(seq, kept)) = n - d
      /\ \A i \in 1..(n - d) : PopLeft(seq, kept)[i] = seq[i + d]
  <2>1. \A i \in 1..(n - d) : first + i - 1 = i + d
    BY <1>1, <1>7
  <2>2. (IF first <= n THEN n - first + 1 ELSE 0) = n - d
    BY <1>1, <1>3, <1>7
  <2> QED BY <1>4, <1>6, <1>7, <2>1, <2>2
<1>9. /\ \A j \in kept : j > d
      /\ d < n => d + 1 \in kept
  BY <1>1, <1>3, <1>7
<1> QED BY <1>7, <1>8, <1>9 DEF n

LEMMA SegmentCounts ==
  ASSUME NEW n \in Nat
  PROVE  IsFiniteSet(1..n) /\ Cardinality(1..n) = n
<1>1. 1 \in Int /\ n \in Int
  OBVIOUS
<1>2. IsFiniteSet(1..n) /\ Cardinality(1..n) = IF 1 > n THEN 0 ELSE n - 1 + 1
  BY <1>1, FS_Interval
<1> QED BY <1>2

LEMMA WithinFinite ==
  ASSUME NEW s, NEW S, s \in Seq(S), NEW w
  PROVE  /\ Within(s, w) \in SUBSET (1..Len(s)) /\ Within(s, w) \in SUBSET Nat
         /\ IsFiniteSet(Within(s, w)) /\ Cardinality(Within(s, w)) \in Nat
         /\ Cardinality(Within(s, w)) <= Len(s)
<1>1. DOMAIN s = 1..Len(s) /\ Len(s) \in Nat
  BY LenProperties
<1>2. IsFiniteSet(1..Len(s)) /\ Cardinality(1..Len(s)) = Len(s)
  BY <1>1, SegmentCounts
<1>3. Within(s, w) \in SUBSET (1..Len(s))
  BY <1>1 DEF Within
<1>4. IsFiniteSet(Within(s, w)) /\ Cardinality(Within(s, w)) <= Len(s)
  BY <1>2, <1>3, FS_Subset
<1> QED BY <1>1, <1>3, <1>4, FS_CardinalityType

\* Pruning keeps what is younger than an hour, and nothing else.
LEMMA PrunedShape ==
  ASSUME NEW s, Ages(s)
  PROVE  \E d \in 0..Len(s) :
           /\ Pruned(s) \in Seq(0..Hour) /\ Len(Pruned(s)) = Len(s) - d
           /\ \A i \in 1..(Len(s) - d) : Pruned(s)[i] = s[i + d] /\ Pruned(s)[i] < Hour
           /\ \A j \in 1..Len(s) : s[j] < Hour => j > d
<1>1. Len(s) \in Nat /\ DOMAIN s = 1..Len(s) /\ s \in [1..Len(s) -> 0..Hour]
  BY LenProperties DEF Ages
<1>2. Within(s, Hour) \in SUBSET (1..Len(s))
  BY <1>1 DEF Within
<1>3. PICK d \in 0..Len(s) :
        /\ Pruned(s) \in Seq(0..Hour) /\ Len(Pruned(s)) = Len(s) - d
        /\ \A i \in 1..(Len(s) - d) : Pruned(s)[i] = s[i + d]
        /\ \A j \in Within(s, Hour) : j > d
        /\ d < Len(s) => d + 1 \in Within(s, Hour)
  BY <1>2, PopLeftDrops DEF Pruned, Ages
<1>4. ASSUME NEW i \in 1..(Len(s) - d) PROVE s[i + d] < Hour
  <2>1. d + 1 \in 1..Len(s) /\ i + d \in 1..Len(s) /\ d + 1 <= i + d
    BY <1>1
  <2>2. s[d + 1] < Hour
    BY <1>3, <2>1 DEF Within
  <2>3. s[d + 1] >= s[i + d] /\ s[d + 1] \in Int /\ s[i + d] \in Int
    BY <1>1, <2>1 DEF Ages
  <2> QED BY <2>2, <2>3, LimiterAssumption
<1>5. \A j \in 1..Len(s) : s[j] < Hour => j > d
  BY <1>1, <1>3 DEF Within
<1> QED BY <1>3, <1>4, <1>5

LEMMA FirstWithin ==
  ASSUME NEW s, Ages(s), NEW w, Within(s, w) # {}
  PROVE  /\ First(Within(s, w)) \in Within(s, w)
         /\ \A i \in Within(s, w) : First(Within(s, w)) <= i
         /\ First(Within(s, w)) \in 1..Len(s) /\ s[First(Within(s, w))] \in 0..Hour
         /\ s[First(Within(s, w))] < w
<1>1. Within(s, w) \in SUBSET Nat /\ Within(s, w) \in SUBSET (1..Len(s))
  BY WithinFinite DEF Ages
<1>2. /\ First(Within(s, w)) \in Within(s, w)
      /\ \A i \in Within(s, w) : First(Within(s, w)) <= i
  BY <1>1, FirstIsLeast
<1>3. s \in [1..Len(s) -> 0..Hour]
  BY LenProperties DEF Ages
<1> QED BY <1>1, <1>2, <1>3 DEF Within

\* Every wait takes some time, and no longer than its window.
LEMMA WaitsArePositive ==
  ASSUME NEW s, Ages(s), NEW w \in 1..Hour, NEW n \in Nat \ {0}, NEW t \in WindowWait(s, w, n)
  PROVE  /\ t \in 1..w /\ Within(s, w) # {} /\ Cardinality(Within(s, w)) >= n
         /\ t = w - s[First(Within(s, w))]
<1>1. Cardinality(Within(s, w)) >= n /\ t = w - s[First(Within(s, w))]
  BY DEF WindowWait
<1>2. Within(s, w) # {}
  BY <1>1, FS_EmptySet
<1> QED BY <1>1, <1>2, FirstWithin, LimiterAssumption

LEMMA PrunedKeeps ==
  ASSUME NEW s, Ages(s)
  PROVE  /\ Ages(Pruned(s)) /\ Len(Pruned(s)) <= Len(s)
         /\ \A i \in 1..Len(Pruned(s)) : Pruned(s)[i] < Hour
         /\ \A w \in 0..Hour : Cardinality(Within(Pruned(s), w)) = Cardinality(Within(s, w))
         /\ \A w \in 1..Hour, n \in Nat \ {0} : WindowWait(Pruned(s), w, n) = WindowWait(s, w, n)
<1> DEFINE p == Pruned(s)
<1>1. PICK d \in 0..Len(s) :
        /\ p \in Seq(0..Hour) /\ Len(p) = Len(s) - d
        /\ \A i \in 1..(Len(s) - d) : p[i] = s[i + d] /\ p[i] < Hour
        /\ \A j \in 1..Len(s) : s[j] < Hour => j > d
  BY PrunedShape
<1> HIDE DEF p
<1>2. /\ Len(s) \in Nat /\ DOMAIN s = 1..Len(s) /\ s \in [1..Len(s) -> 0..Hour]
      /\ Len(p) \in Nat /\ DOMAIN p = 1..Len(p) /\ p \in [1..Len(p) -> 0..Hour]
  BY <1>1, LenProperties DEF Ages
<1>3. Ages(p)
  <2> SUFFICES ASSUME NEW i \in 1..Len(p), NEW j \in 1..Len(p), i <= j PROVE p[i] >= p[j]
    BY <1>1, <1>2 DEF Ages
  <2>1. i + d \in 1..Len(s) /\ j + d \in 1..Len(s) /\ i + d <= j + d
    BY <1>1, <1>2
  <2>2. s[i + d] >= s[j + d]
    BY <1>2, <2>1 DEF Ages
  <2> QED BY <1>1, <1>2, <2>2
<1>4. ASSUME NEW w \in 0..Hour
      PROVE  /\ \A i \in Nat : i \in Within(p, w) <=> i + d \in Within(s, w)
             /\ \A j \in Within(s, w) : j > d
  <2>1. \A j \in Within(s, w) : j \in 1..Len(s) /\ s[j] < w /\ s[j] \in Int
    BY <1>2 DEF Within
  <2>2. \A j \in Within(s, w) : j > d
    BY <1>1, <1>2, <2>1, LimiterAssumption
  <2>3. ASSUME NEW i \in Nat, i \in Within(p, w) PROVE i + d \in Within(s, w)
    BY <1>1, <1>2, <2>3 DEF Within
  <2>4. ASSUME NEW i \in Nat, i + d \in Within(s, w) PROVE i \in Within(p, w)
    <3>1. i + d > d /\ i + d \in 1..Len(s) /\ s[i + d] < w
      BY <2>1, <2>2, <2>4
    <3>2. i \in 1..(Len(s) - d)
      BY <1>2, <3>1
    <3> QED BY <1>1, <1>2, <3>1, <3>2 DEF Within
  <2> QED BY <2>2, <2>3, <2>4
<1>5. ASSUME NEW w \in 0..Hour PROVE Cardinality(Within(p, w)) = Cardinality(Within(s, w))
  <2>1. Within(s, w) \in SUBSET Nat /\ IsFiniteSet(Within(s, w)) /\ Within(p, w) \in SUBSET Nat
    BY <1>3, WithinFinite DEF Ages
  <2>2. \A j \in Within(s, w) : j >= d
    BY <1>4, <2>1
  <2>3. d \in Nat /\ \A i \in Nat : i \in Within(p, w) <=> i + d \in Within(s, w)
    BY <1>2, <1>4
  <2> QED BY <2>1, <2>2, <2>3, ShiftCounts
<1>6. ASSUME NEW w \in 1..Hour, NEW n \in Nat \ {0}
      PROVE  WindowWait(p, w, n) = WindowWait(s, w, n)
  <2>1. Cardinality(Within(p, w)) = Cardinality(Within(s, w))
    BY <1>5
  <2>2. ASSUME Cardinality(Within(s, w)) >= n
        PROVE  p[First(Within(p, w))] = s[First(Within(s, w))]
    <3>1. Within(s, w) # {} /\ Within(p, w) # {}
      BY <2>1, <2>2, FS_EmptySet
    <3> DEFINE f == First(Within(s, w))
               g == First(Within(p, w))
    <3>2. f \in Within(s, w) /\ f \in 1..Len(s) /\ \A i \in Within(s, w) : f <= i
      BY <3>1, FirstWithin
    <3>3. g \in Within(p, w) /\ g \in 1..Len(p) /\ \A i \in Within(p, w) : g <= i
      BY <1>3, <3>1, FirstWithin
    <3> HIDE DEF f, g
    <3>4. g + d \in Within(s, w) /\ f - d \in Within(p, w)
      <4>1. g \in Nat /\ f - d \in Nat /\ (f - d) + d = f
        BY <1>4, <3>2, <3>3
      <4> QED BY <1>4, <3>2, <3>3, <4>1
    <3>5. f = g + d
      <4>1. f <= g + d /\ g <= f - d
        BY <3>2, <3>3, <3>4
      <4> QED BY <3>2, <3>3, <4>1
    <3> QED BY <1>1, <1>2, <3>3, <3>5 DEF f, g
  <2> QED BY <2>1, <2>2 DEF WindowWait
<1> QED BY <1>1, <1>2, <1>3, <1>5, <1>6 DEF p

\* What check() computes of the pruned timestamps are the waits of both windows.
LEMMA PrunedWaits ==
  ASSUME NEW s, Ages(s)
  PROVE  Waits(Pruned(s)) = AllWaits(s)
<1> DEFINE p == Pruned(s)
<1> USE LimiterAssumption
<1>1. /\ Ages(p) /\ \A i \in 1..Len(p) : p[i] < Hour
      /\ \A w \in 1..Hour, n \in Nat \ {0} : WindowWait(p, w, n) = WindowWait(s, w, n)
  BY PrunedKeeps
<1>2. Len(p) \in Nat /\ DOMAIN p = 1..Len(p)
  BY <1>1, LenProperties DEF Ages
<1> HIDE DEF p
<1>3. Within(p, Hour) = 1..Len(p)
  BY <1>1, <1>2 DEF Within
<1>4. Cardinality(Within(p, Hour)) = Len(p)
  <2>1. Cardinality(1..Len(p)) = Len(p)
    BY <1>2, SegmentCounts
  <2> QED BY <1>3, <2>1
<1>5. Len(p) >= PerHour => First(Within(p, Hour)) = 1
  <2> SUFFICES ASSUME Len(p) >= PerHour PROVE First(Within(p, Hour)) = 1
    OBVIOUS
  <2>1. 1 \in Within(p, Hour)
    BY <1>2, <1>3
  <2>2. /\ First(Within(p, Hour)) <= 1 /\ First(Within(p, Hour)) \in 1..Len(p)
    BY <1>1, <2>1, FirstWithin
  <2> QED BY <1>2, <2>2
<1>6. Waits(p) = WindowWait(p, Hour, PerHour) \cup WindowWait(p, Minute, PerMinute)
  BY <1>4, <1>5 DEF Waits, WindowWait
<1>7. /\ WindowWait(p, Hour, PerHour) = WindowWait(s, Hour, PerHour)
      /\ WindowWait(p, Minute, PerMinute) = WindowWait(s, Minute, PerMinute)
  BY <1>1
<1> QED BY <1>6, <1>7 DEF AllWaits, p

-----------------------------------------------------------------------------
(* The passing of time.                                                    *)

Aged(s) == [i \in DOMAIN s |-> IF s[i] < Hour THEN s[i] + 1 ELSE Hour]

LEMMA AgedShape ==
  ASSUME NEW s, Ages(s)
  PROVE  /\ Ages(Aged(s)) /\ Len(Aged(s)) = Len(s)
         /\ Within(Aged(s), 0) = {} /\ Within(s, 0) = {}
         /\ \A w \in 1..Hour : Within(Aged(s), w) = Within(s, w - 1)
         /\ \A i \in DOMAIN s : s[i] < Hour => Aged(s)[i] = s[i] + 1
<1> USE LimiterAssumption
<1> DEFINE n == Len(s)
<1>1. n \in Nat /\ DOMAIN s = 1..n /\ s \in [1..n -> 0..Hour]
  BY LenProperties DEF Ages
<1> HIDE DEF n
<1>2. /\ Aged(s) \in [1..n -> 0..Hour] /\ DOMAIN Aged(s) = 1..n
      /\ \A i \in 1..n : Aged(s)[i] = IF s[i] < Hour THEN s[i] + 1 ELSE Hour
  BY <1>1 DEF Aged
<1>3. Aged(s) \in Seq(0..Hour)
  BY <1>1, <1>2, SeqDef
<1>4. Len(Aged(s)) = n
  BY <1>1, <1>2, <1>3, LenProperties
<1>5. Ages(Aged(s))
  <2> SUFFICES ASSUME NEW i \in 1..n, NEW j \in 1..n, i <= j PROVE Aged(s)[i] >= Aged(s)[j]
    BY <1>2, <1>3 DEF Ages
  <2>1. s[i] >= s[j] /\ s[i] \in 0..Hour /\ s[j] \in 0..Hour
    BY <1>1 DEF Ages
  <2> QED BY <1>2, <2>1
<1>6. ASSUME NEW w \in 1..Hour PROVE Within(Aged(s), w) = Within(s, w - 1)
  <2>1. ASSUME NEW i \in 1..n PROVE Aged(s)[i] < w <=> s[i] < w - 1
    <3>1. s[i] \in 0..Hour /\ Aged(s)[i] = IF s[i] < Hour THEN s[i] + 1 ELSE Hour
      BY <1>1, <1>2
    <3> QED BY <3>1
  <2> QED BY <1>1, <1>2, <2>1 DEF Within
<1>7. Within(Aged(s), 0) = {} /\ Within(s, 0) = {}
  BY <1>1, <1>2 DEF Within
<1> QED BY <1>1, <1>2, <1>4, <1>5, <1>6, <1>7 DEF n

\* A window that was no fuller than full becomes no fuller, and what is left of the
\* wait, if it was full, is one less.
LEMMA AgedWaits ==
  ASSUME NEW s, Ages(s), NEW w \in 1..Hour, NEW n \in Nat \ {0}, Cardinality(Within(s, w)) <= n
  PROVE  /\ Cardinality(Within(Aged(s), w)) <= n
         /\ \A t \in WindowWait(Aged(s), w, n) : t + 1 \in WindowWait(s, w, n)
         /\ \A t \in WindowWait(s, w, n) : t > 1 => t - 1 \in WindowWait(Aged(s), w, n)
<1> USE LimiterAssumption
<1>1. /\ Ages(Aged(s)) /\ Len(Aged(s)) = Len(s)
      /\ Within(Aged(s), w) = Within(s, w - 1)
      /\ \A i \in DOMAIN s : s[i] < Hour => Aged(s)[i] = s[i] + 1
  BY AgedShape
<1>2. s \in [1..Len(s) -> 0..Hour] /\ DOMAIN s = 1..Len(s)
  BY LenProperties DEF Ages
<1>3. Within(s, w - 1) \in SUBSET Within(s, w)
  BY <1>2 DEF Within
<1>4. /\ IsFiniteSet(Within(s, w)) /\ Cardinality(Within(s, w)) \in Nat
      /\ IsFiniteSet(Within(s, w - 1)) /\ Cardinality(Within(s, w - 1)) \in Nat
  BY WithinFinite DEF Ages
<1>5. /\ Cardinality(Within(s, w - 1)) <= Cardinality(Within(s, w))
      /\ Cardinality(Within(s, w)) = Cardinality(Within(s, w - 1)) => Within(s, w) = Within(s, w - 1)
  BY <1>3, <1>4, FS_Subset
<1> DEFINE f == First(Within(s, w))
<1>6. ASSUME Within(s, w) # {}
      PROVE  /\ f \in Within(s, w) /\ f \in 1..Len(s) /\ s[f] \in 0..Hour /\ s[f] < w
             /\ \A i \in Within(s, w) : f <= i
             /\ Aged(s)[f] = s[f] + 1
  BY <1>1, <1>2, <1>6, FirstWithin
<1> HIDE DEF f
<1>7. ASSUME NEW t \in WindowWait(Aged(s), w, n) PROVE t + 1 \in WindowWait(s, w, n)
  <2>1. /\ Within(Aged(s), w) # {} /\ Cardinality(Within(Aged(s), w)) >= n
        /\ t = w - Aged(s)[First(Within(Aged(s), w))]
    BY <1>1, WaitsArePositive
  <2>2. Within(Aged(s), w) = Within(s, w) /\ Cardinality(Within(s, w)) >= n
    BY <1>1, <1>4, <1>5, <2>1
  <2>3. t = w - (s[f] + 1)
    BY <1>6, <2>1, <2>2 DEF f
  <2>4. t + 1 = w - s[f]
    BY <1>6, <2>1, <2>2, <2>3
  <2> QED BY <2>2, <2>4 DEF WindowWait, f
<1>8. ASSUME NEW t \in WindowWait(s, w, n), t > 1 PROVE t - 1 \in WindowWait(Aged(s), w, n)
  <2>1. /\ Within(s, w) # {} /\ Cardinality(Within(s, w)) >= n
        /\ t = w - s[f]
    BY WaitsArePositive DEF f
  <2>2. s[f] < w - 1
    BY <1>6, <1>8, <2>1
  <2>3. Within(s, w) \subseteq Within(s, w - 1)
    <3> SUFFICES ASSUME NEW i \in Within(s, w) PROVE i \in Within(s, w - 1)
      OBVIOUS
    <3>1. i \in 1..Len(s) /\ f <= i /\ f \in 1..Len(s) /\ s[i] \in 0..Hour /\ s[f] \in 0..Hour
      BY <1>2, <1>6 DEF Within
    <3>2. s[f] >= s[i]
      BY <1>2, <3>1 DEF Ages
    <3> QED BY <1>2, <2>2, <3>1, <3>2 DEF Within
  <2>4. Within(Aged(s), w) = Within(s, w)
    BY <1>1, <1>3, <2>3
  <2>5. t - 1 = w - Aged(s)[f]
    <3>1. Aged(s)[f] = s[f] + 1 /\ s[f] \in Int /\ t = w - s[f]
      BY <1>6, <2>1
    <3> QED BY <3>1
  <2> QED BY <2>1, <2>4, <2>5 DEF WindowWait, f
<1> QED BY <1>1, <1>4, <1>5, <1>7, <1>8

Admissions == [client : Callers, key : CallerKeys, age : 0..(Hour - 1)]

\* The history forgets what has become an hour old, and nothing else.
LEMMA HistoryTick ==
  ASSUME LimiterTypeOK, Ordered, LimiterTick
  PROVE  /\ admitted' \in Seq(Admissions)
         /\ \A i, j \in DOMAIN admitted' : i <= j => admitted'[i].age >= admitted'[j].age
         /\ \A k \in CallerKeys, w \in 1..Hour :
              Cardinality(AdmittedUnder(k, w)') = Cardinality(AdmittedUnder(k, w - 1))
<1> USE LimiterAssumption
<1> DEFINE n == Len(admitted)
           older == [i \in DOMAIN admitted |-> [admitted[i] EXCEPT !.age = @ + 1]]
           young == {i \in DOMAIN older : older[i].age < Hour}
           Older == [client : Callers, key : CallerKeys, age : 0..Hour]
<1>1. n \in Nat /\ DOMAIN admitted = 1..n /\ admitted \in [1..n -> Admissions]
  BY LenProperties DEF LimiterTypeOK, Admissions
<1> HIDE DEF n
<1>2. /\ older \in [1..n -> Older] /\ DOMAIN older = 1..n
      /\ \A i \in 1..n : /\ older[i].key = admitted[i].key /\ older[i].client = admitted[i].client
                         /\ older[i].age = admitted[i].age + 1
                         /\ admitted[i].age \in 0..(Hour - 1) /\ admitted[i].key \in CallerKeys
                         /\ admitted[i].client \in Callers
  BY <1>1 DEF Admissions
<1>3. admitted' = PopLeft(older, young)
  BY DEF LimiterTick
<1> HIDE DEF older
<1>4. older \in Seq(Older) /\ Len(older) = n /\ young \in SUBSET (1..n)
  <2>1. older \in Seq(Older)
    <3> HIDE DEF Older
    <3> QED BY <1>1, <1>2, SeqDef
  <2> QED BY <1>1, <1>2, <2>1, LenProperties
<1>5. PICK d \in 0..n :
        /\ admitted' \in Seq(Older) /\ Len(admitted') = n - d
        /\ \A i \in 1..(n - d) : admitted'[i] = older[i + d]
        /\ \A j \in young : j > d
        /\ d < n => d + 1 \in young
  <2>1. young \in SUBSET (1..Len(older))
    BY <1>4
  <2> HIDE DEF Older, young
  <2>2. \E d \in 0..Len(older) :
          /\ PopLeft(older, young) \in Seq(Older) /\ Len(PopLeft(older, young)) = Len(older) - d
          /\ \A i \in 1..(Len(older) - d) : PopLeft(older, young)[i] = older[i + d]
          /\ \A j \in young : j > d
          /\ d < Len(older) => d + 1 \in young
    BY <1>4, <2>1, PopLeftDrops
  <2> QED BY <1>3, <1>4, <2>2
<1>6. DOMAIN admitted' = 1..(n - d)
  BY <1>5, LenProperties
<1>7. ASSUME NEW i \in 1..n, NEW j \in 1..n, i <= j PROVE older[i].age >= older[j].age
  <2>1. admitted[i].age >= admitted[j].age
    BY <1>1, <1>7 DEF Ordered
  <2>2. /\ older[i].age = admitted[i].age + 1 /\ older[j].age = admitted[j].age + 1
        /\ admitted[i].age \in Int /\ admitted[j].age \in Int
    BY <1>2
  <2> QED BY <2>1, <2>2
<1>8. \A i, j \in DOMAIN admitted' : i <= j => admitted'[i].age >= admitted'[j].age
  <2> SUFFICES ASSUME NEW i \in 1..(n - d), NEW j \in 1..(n - d), i <= j
               PROVE  admitted'[i].age >= admitted'[j].age
    BY <1>6
  <2>1. i + d \in 1..n /\ j + d \in 1..n /\ i + d <= j + d
    BY <1>1
  <2>2. admitted'[i] = older[i + d] /\ admitted'[j] = older[j + d]
    BY <1>5
  <2> QED BY <1>7, <2>1, <2>2
<1>9. ASSUME NEW i \in 1..(n - d) PROVE admitted'[i].age < Hour
  <2>1. d + 1 \in 1..n /\ i + d \in 1..n /\ d + 1 <= i + d
    BY <1>1
  <2>2. older[d + 1].age < Hour
    <3>1. d < n
      BY <1>1, <2>1
    <3> QED BY <1>5, <3>1
  <2>3. older[d + 1].age >= older[i + d].age
    BY <1>7, <2>1
  <2>4. admitted'[i] = older[i + d]
    BY <1>5
  <2>5. older[d + 1].age \in 0..Hour /\ older[i + d].age \in 0..Hour
    BY <1>2, <2>1
  <2> QED BY <2>2, <2>3, <2>4, <2>5
<1>10. admitted' \in Seq(Admissions)
  <2>1. ASSUME NEW i \in 1..(n - d) PROVE admitted'[i] \in Admissions
    <3>1. admitted'[i] \in Older /\ admitted'[i].age < Hour
      BY <1>1, <1>2, <1>5, <1>9
    <3> QED BY <3>1 DEF Admissions
  <2>2. admitted' \in [1..(n - d) -> Older] /\ n - d \in Nat
    <3> HIDE DEF Older
    <3> QED BY <1>1, <1>5, LenProperties
  <2>3. admitted' \in [1..(n - d) -> Admissions]
    BY <2>1, <2>2
  <2> QED BY <2>2, <2>3, SeqDef
<1>11. ASSUME NEW k \in CallerKeys, NEW w \in 1..Hour
       PROVE  Cardinality(AdmittedUnder(k, w)') = Cardinality(AdmittedUnder(k, w - 1))
  <2> DEFINE S == AdmittedUnder(k, w - 1)
             T == AdmittedUnder(k, w)'
  <2>1. S \in SUBSET (1..n) /\ T \in SUBSET Nat
    BY <1>1, <1>6 DEF AdmittedUnder
  <2>2. S \in SUBSET Nat /\ IsFiniteSet(S)
    BY <1>1, <2>1, SegmentCounts, FS_Subset
  <2>3. \A j \in S : j \in 1..n /\ j \in young
    BY <1>1, <1>2 DEF AdmittedUnder
  <2>4. ASSUME NEW i \in Nat, i \in T PROVE i + d \in S
    <3>1. i \in 1..(n - d) /\ admitted'[i].key = k /\ admitted'[i].age < w
      BY <1>6, <2>4 DEF AdmittedUnder
    <3>2. i + d \in 1..n
      BY <1>1, <3>1
    <3>3. admitted'[i] = older[i + d]
      BY <1>5, <3>1
    <3>4. admitted[i + d].key = k /\ admitted[i + d].age + 1 < w /\ admitted[i + d].age \in Int
      BY <1>2, <3>1, <3>2, <3>3
    <3>5. admitted[i + d].age < w - 1
      BY <3>4
    <3> QED BY <1>1, <3>2, <3>4, <3>5 DEF AdmittedUnder
  <2>5. ASSUME NEW i \in Nat, i + d \in S PROVE i \in T
    <3>1. i + d \in 1..n /\ i + d > d /\ admitted[i + d].key = k /\ admitted[i + d].age < w - 1
      BY <1>1, <1>5, <2>3, <2>5 DEF AdmittedUnder
    <3>2. i \in 1..(n - d)
      BY <1>1, <3>1
    <3>3. admitted'[i] = older[i + d]
      BY <1>5, <3>2
    <3>4. admitted'[i].key = k /\ admitted'[i].age < w
      BY <1>2, <3>1, <3>3
    <3> QED BY <1>6, <3>2, <3>4 DEF AdmittedUnder
  <2>6. \A j \in S : j >= d
    BY <1>1, <1>5, <2>3
  <2>7. d \in Nat /\ \A i \in Nat : i \in T <=> i + d \in S
    BY <1>1, <2>4, <2>5
  <2> HIDE DEF S, T
  <2>8. Cardinality(T) = Cardinality(S)
    BY <2>1, <2>2, <2>6, <2>7, ShiftCounts
  <2> QED BY <2>8 DEF S, T
<1> QED BY <1>8, <1>10, <1>11

LEMMA TickKeeps == ASSUME LimiterInv, LimiterTick PROVE LimiterInv'
<1> USE LimiterAssumption DEF LimiterInv
<1>1. \A k \in CallerKeys : times'[k] = Aged(times[k])
  BY DEF LimiterTick, Aged
<1>2. \A k \in CallerKeys : Ages(times[k])
  BY DEF Ordered
<1>3. ASSUME NEW k \in CallerKeys
      PROVE  /\ Ages(times'[k]) /\ Len(times'[k]) = Len(times[k])
             /\ Within(times'[k], 0) = {} /\ Within(times[k], 0) = {}
             /\ \A w \in 1..Hour : Within(times'[k], w) = Within(times[k], w - 1)
  BY <1>1, <1>2, AgedShape
<1>4. /\ admitted' \in Seq(Admissions)
      /\ \A i, j \in DOMAIN admitted' : i <= j => admitted'[i].age >= admitted'[j].age
      /\ \A k \in CallerKeys, w \in 1..Hour :
           Cardinality(AdmittedUnder(k, w)') = Cardinality(AdmittedUnder(k, w - 1))
  BY HistoryTick
<1>5. LimiterTypeOK'
  <2>1. times' \in [CallerKeys -> Seq(0..Hour)]
    <3>1. \A k \in CallerKeys : times'[k] \in Seq(0..Hour)
      BY <1>3 DEF Ages
    <3> QED BY <3>1 DEF LimiterTick
  <2>2. ASSUME NEW k \in CallerKeys
        PROVE  Len(times'[k]) <= PerHour /\ (k \notin tracked' => times'[k] = <<>>)
    <3>1. Len(times'[k]) <= PerHour
      BY <1>3 DEF LimiterTypeOK
    <3>2. k \notin tracked' => Len(times'[k]) = 0
      BY <1>3, EmptySeq DEF LimiterTick, LimiterTypeOK
    <3>3. Len(times'[k]) = 0 => times'[k] = <<>>
      BY <2>1, EmptySeq
    <3> QED BY <3>1, <3>2, <3>3
  <2>3. cleanup' \in 0..CleanupInterval /\ tracked' = tracked
    BY DEF LimiterTick, LimiterTypeOK
  <2>4. promise' \in [CallerKeys -> -1..Hour]
    BY DEF LimiterTick, LimiterTypeOK
  <2> QED BY <1>4, <2>1, <2>2, <2>3, <2>4 DEF LimiterTypeOK, Admissions
<1>6. Ordered'
  BY <1>3, <1>4 DEF Ordered
<1>7. Remembered'
  <2> SUFFICES ASSUME NEW k \in CallerKeys, NEW w \in 0..Hour
               PROVE  Cardinality(AdmittedUnder(k, w)') = Cardinality(Within(times[k], w)')
    BY DEF Remembered
  <2>1. CASE w = 0
    <3>1. AdmittedUnder(k, w)' = {}
      <4>1. \A i \in DOMAIN admitted' : admitted'[i].age \in Nat
        <5>1. \A i \in DOMAIN admitted' : admitted'[i] \in Admissions
          BY <1>4, LenProperties
        <5> QED BY <5>1 DEF Admissions
      <4> QED BY <2>1, <4>1 DEF AdmittedUnder
    <3> QED BY <1>3, <2>1, <3>1
  <2>2. CASE w \in 1..Hour
    <3>1. w - 1 \in 0..Hour
      BY <2>2
    <3>2. Cardinality(AdmittedUnder(k, w - 1)) = Cardinality(Within(times[k], w - 1))
      BY <3>1 DEF Remembered
    <3> QED BY <1>3, <1>4, <2>2, <3>2
  <2> QED BY <2>1, <2>2
<1>8. ASSUME NEW k \in CallerKeys
      PROVE  /\ Cardinality(Within(times[k], Hour)) <= PerHour
             /\ Cardinality(Within(times[k], Minute)) <= PerMinute
  <2>1. /\ Cardinality(Within(times[k], Hour)) <= Len(times[k])
        /\ Cardinality(Within(times[k], Hour)) \in Nat
        /\ Len(times[k]) \in Nat
    BY <1>2, WithinFinite, LenProperties DEF Ages
  <2> QED BY <2>1 DEF LimiterTypeOK, MinuteKept
<1>9. ASSUME NEW k \in CallerKeys
      PROVE  /\ Cardinality(Within(times'[k], Minute)) <= PerMinute
             /\ \A t \in AllWaits(times'[k]) : t + 1 \in AllWaits(times[k])
             /\ \A t \in AllWaits(times[k]) : t > 1 => t - 1 \in AllWaits(times'[k])
  <2>1. Ages(times[k]) /\ times'[k] = Aged(times[k])
    BY <1>1, <1>2
  <2>2. /\ \A t \in WindowWait(times'[k], Hour, PerHour) : t + 1 \in WindowWait(times[k], Hour, PerHour)
        /\ \A t \in WindowWait(times[k], Hour, PerHour) :
             t > 1 => t - 1 \in WindowWait(times'[k], Hour, PerHour)
    BY <1>8, <2>1, AgedWaits
  <2>3. /\ Cardinality(Within(times'[k], Minute)) <= PerMinute
        /\ \A t \in WindowWait(times'[k], Minute, PerMinute) :
             t + 1 \in WindowWait(times[k], Minute, PerMinute)
        /\ \A t \in WindowWait(times[k], Minute, PerMinute) :
             t > 1 => t - 1 \in WindowWait(times'[k], Minute, PerMinute)
    BY <1>8, <2>1, AgedWaits
  <2> QED BY <2>2, <2>3 DEF AllWaits
<1>10. MinuteKept'
  BY <1>9 DEF MinuteKept
<1>11. SharedHasRoom'
  BY DEF SharedHasRoom, LimiterTick
<1>12. PromiseKept'
  <2> SUFFICES ASSUME NEW k \in CallerKeys, promise'[k] # NoPromise
               PROVE  /\ \A t \in AllWaits(times'[k]) : t <= promise'[k]
                      /\ promise'[k] > 0 => promise'[k] \in AllWaits(times'[k])
    BY DEF PromiseKept
  <2>1. /\ promise'[k] = IF promise[k] > 0 THEN promise[k] - 1 ELSE promise[k]
        /\ promise[k] \in -1..Hour
    BY DEF LimiterTick, LimiterTypeOK
  <2>2. promise[k] # NoPromise
    BY <2>1 DEF NoPromise
  <2>3. /\ \A t \in AllWaits(times[k]) : t <= promise[k]
        /\ promise[k] > 0 => promise[k] \in AllWaits(times[k])
    BY <2>2 DEF PromiseKept
  <2>4. ASSUME NEW t \in AllWaits(times'[k]) PROVE t <= promise'[k]
    <3>1. t \in Nat \ {0}
      BY <1>3, WaitsArePositive DEF AllWaits
    <3>2. t + 1 <= promise[k]
      BY <1>9, <2>3
    <3> QED BY <2>1, <3>1, <3>2
  <2>5. promise'[k] > 0 => promise'[k] \in AllWaits(times'[k])
    BY <1>9, <2>1, <2>3
  <2> QED BY <2>4, <2>5
<1> QED BY <1>5, <1>6, <1>7, <1>10, <1>11, <1>12

-----------------------------------------------------------------------------
(* check().                                                                *)

\* Only keys with nothing left to remember are cleaned up.
LEMMA CleanedUpIsIdle ==
  ASSUME LimiterInv, NEW k \in CallerKeys, k \notin CleanedKeys
  PROVE  Pruned(times[k]) = <<>>
<1> USE DEF LimiterInv
<1>1. Ages(times[k])
  BY DEF Ordered
<1>2. CASE k \in tracked
  BY <1>2 DEF CleanedKeys, Idle
<1>3. CASE k \notin tracked
  <2>1. Len(times[k]) = 0
    BY <1>3, EmptySeq DEF LimiterTypeOK
  <2>2. Len(Pruned(times[k])) \in Nat /\ Len(Pruned(times[k])) <= 0 /\ Pruned(times[k]) \in Seq(0..Hour)
    BY <1>1, <2>1, PrunedKeeps, LenProperties DEF Ages
  <2> QED BY <2>2, EmptySeq
<1> QED BY <1>2, <1>3

\* Keys and the request that check() is about.
LEMMA KeyShape ==
  ASSUME LimiterInv, NEW c \in Callers
  PROVE  LET key == EffectiveKey(c, CleanedKeys) IN
         /\ key \in CallerKeys /\ CleanedKeys \in SUBSET tracked
         /\ IsFiniteSet(CleanedKeys \cup {key})
         /\ Cardinality((CleanedKeys \cup {key}) \ {Overflow}) <= MaxTracked
<1> DEFINE key == EffectiveKey(c, CleanedKeys)
<1> USE LimiterAssumption, OverflowAssumption DEF LimiterInv
<1>1. CleanedKeys \in SUBSET tracked /\ key \in {c, Overflow} /\ key \in CallerKeys
  BY DEF CleanedKeys, EffectiveKey, CallerKeys
<1>2. IsFiniteSet(CleanedKeys) /\ IsFiniteSet(CleanedKeys \cup {key})
  BY <1>1, FS_Subset, FS_AddElement DEF SharedHasRoom
<1> DEFINE others == CleanedKeys \ {Overflow}
<1>3. others \in SUBSET (tracked \ {Overflow}) /\ IsFiniteSet(tracked \ {Overflow})
  BY <1>1, FS_RemoveElement DEF SharedHasRoom
<1>4. IsFiniteSet(others) /\ Cardinality(others) <= Cardinality(tracked \ {Overflow})
  BY <1>3, FS_Subset
<1>5. /\ Cardinality(others) \in Nat /\ Cardinality(tracked \ {Overflow}) \in Nat
      /\ Cardinality(CleanedKeys) \in Nat
  BY <1>2, <1>3, <1>4, FS_CardinalityType
<1>6. Cardinality(others) <= MaxTracked
  BY <1>4, <1>5 DEF SharedHasRoom
<1>7. Cardinality(others) <= Cardinality(CleanedKeys)
  BY <1>2, FS_Subset
<1> HIDE DEF others
<1>8. CASE key \in CleanedKeys \/ key = Overflow
  <2>1. (CleanedKeys \cup {key}) \ {Overflow} = others
    BY <1>8 DEF others
  <2> QED BY <1>1, <1>2, <1>6, <2>1
<1>9. CASE key \notin CleanedKeys /\ key # Overflow
  <2>1. key = c /\ ~(Cardinality(CleanedKeys) >= MaxTracked)
    BY <1>9 DEF EffectiveKey
  <2>2. (CleanedKeys \cup {key}) \ {Overflow} = others \cup {key} /\ key \notin others
    BY <1>9 DEF others
  <2>3. Cardinality(others \cup {key}) = Cardinality(others) + 1
    BY <1>4, <2>2, FS_AddElement
  <2> QED BY <1>1, <1>2, <1>5, <1>7, <2>1, <2>2, <2>3
<1> QED BY <1>8, <1>9

\* What the limiter remembers of a request that it counts.
LEMMA AppendedAges ==
  ASSUME NEW s, Ages(s)
  PROVE  /\ Ages(Append(s, 0)) /\ Len(Append(s, 0)) = Len(s) + 1
         /\ Within(Append(s, 0), 0) = {} /\ Within(s, 0) = {}
         /\ \A w \in 1..Hour :
              Cardinality(Within(Append(s, 0), w)) = Cardinality(Within(s, w)) + 1
<1> USE LimiterAssumption
<1> DEFINE n == Len(s)
           a == Append(s, 0)
<1>1. n \in Nat /\ DOMAIN s = 1..n /\ s \in [1..n -> 0..Hour] /\ 0 \in 0..Hour /\ s \in Seq(0..Hour)
  BY LenProperties DEF Ages
<1>2. /\ a \in Seq(0..Hour) /\ Len(a) = n + 1
      /\ \A i \in 1..n : a[i] = s[i]
      /\ a[n + 1] = 0
  BY <1>1, AppendProperties
<1>3. DOMAIN a = 1..(n + 1)
  BY <1>2, LenProperties
<1> HIDE DEF n, a
<1>4. Ages(a)
  <2> SUFFICES ASSUME NEW i \in 1..(n + 1), NEW j \in 1..(n + 1), i <= j PROVE a[i] >= a[j]
    BY <1>2, <1>3 DEF Ages
  <2>1. CASE j = n + 1
    <3>1. a[i] \in 0..Hour
      BY <1>2, <1>3, ElementOfSeq
    <3> QED BY <1>2, <2>1, <3>1
  <2>2. CASE j # n + 1
    <3>1. i \in 1..n /\ j \in 1..n
      BY <1>1, <2>2
    <3> QED BY <1>1, <1>2, <3>1 DEF Ages
  <2> QED BY <2>1, <2>2
<1>5. ASSUME NEW w \in 1..Hour PROVE Cardinality(Within(a, w)) = Cardinality(Within(s, w)) + 1
  <2>1. Within(a, w) = Within(s, w) \cup {n + 1} /\ n + 1 \notin Within(s, w)
    BY <1>1, <1>2, <1>3 DEF Within
  <2>2. IsFiniteSet(Within(s, w))
    BY <1>1, WithinFinite
  <2> QED BY <2>1, <2>2, FS_AddElement
<1>6. Within(a, 0) = {} /\ Within(s, 0) = {}
  BY <1>1, <1>2, <1>3 DEF Within
<1> QED BY <1>2, <1>4, <1>5, <1>6 DEF n, a

\* Retry-After is the longer of the waits.
LEMMA RetryAfterIsLongest ==
  ASSUME NEW s, Ages(s), AllWaits(s) # {}
  PROVE  /\ RetryAfter(AllWaits(s)) \in AllWaits(s) /\ RetryAfter(AllWaits(s)) \in 1..Hour
         /\ \A t \in AllWaits(s) : t <= RetryAfter(AllWaits(s))
<1> USE LimiterAssumption
<1> DEFINE h == WindowWait(s, Hour, PerHour)
           m == WindowWait(s, Minute, PerMinute)
<1>1. \A t \in h \cup m : t \in 1..Hour
  <2>1. \A t \in h : t \in 1..Hour
    BY WaitsArePositive
  <2>2. \A t \in m : t \in 1..Minute
    BY WaitsArePositive
  <2> QED BY <2>1, <2>2
<1>2. /\ \A t, u \in h : t = u
      /\ \A t, u \in m : t = u
  BY DEF WindowWait
<1> HIDE DEF h, m
<1>3. \E t \in h \cup m : \A u \in h \cup m : t >= u
  <2>1. h \cup m # {}
    BY DEF AllWaits, h, m
  <2>2. CASE h = {} \/ m = {}
    <3>1. PICK t \in h \cup m : TRUE
      BY <2>1
    <3>2. \A u \in h \cup m : u = t
      BY <1>2, <2>2
    <3> QED BY <1>1, <3>2
  <2>3. CASE h # {} /\ m # {}
    <3>1. PICK t \in h, u \in m : TRUE
      BY <2>3
    <3>2. \A x \in h \cup m : x = t \/ x = u
      BY <1>2
    <3> QED BY <1>1, <3>1, <3>2
  <2> QED BY <2>2, <2>3
<1>4. AllWaits(s) = h \cup m
  BY DEF AllWaits, h, m
<1>5. /\ RetryAfter(h \cup m) \in h \cup m
      /\ \A t \in h \cup m : RetryAfter(h \cup m) >= t
  BY <1>3 DEF RetryAfter
<1> QED BY <1>1, <1>4, <1>5

\* What check() does, in terms of what was remembered before.
LEMMA CheckEffect ==
  ASSUME LimiterInv, NEW c \in Callers, Check(c)
  PROVE  \E key \in CallerKeys :
           /\ tracked' = CleanedKeys \cup {key} /\ key = EffectiveKey(c, CleanedKeys)
           /\ cleanup' = IF cleanup = 0 THEN CleanupInterval ELSE cleanup
           /\ times' \in [CallerKeys -> Seq(0..Hour)]
           /\ \A k \in CallerKeys \ {key} : times'[k] = times[k] \/ times'[k] = Pruned(times[k])
           /\ \A k \in CallerKeys : k \notin tracked' => times'[k] = <<>>
           /\ \/ /\ AllWaits(times[key]) = {}
                 /\ times'[key] = Append(Pruned(times[key]), 0)
                 /\ Len(Pruned(times[key])) < PerHour
                 /\ Cardinality(Within(times[key], Minute)) < PerMinute
                 /\ admitted' = Append(admitted, [client |-> c, key |-> key, age |-> 0])
                 /\ promise' = [promise EXCEPT ![key] = NoPromise]
              \/ /\ AllWaits(times[key]) # {}
                 /\ times'[key] = Pruned(times[key])
                 /\ admitted' = admitted
                 /\ promise' = [promise EXCEPT ![key] = RetryAfter(AllWaits(times[key]))]
<1> USE LimiterAssumption
<1> DEFINE keys == CleanedKeys
           key == EffectiveKey(c, keys)
           ages == IF key \in keys THEN Pruned(times[key]) ELSE <<>>
           waits == Waits(ages)
           kept == [k \in CallerKeys |-> IF k = key THEN ages
                                   ELSE IF k \notin keys THEN <<>>
                                   ELSE IF cleanup = 0 THEN Pruned(times[k]) ELSE times[k]]
<1>1. /\ tracked' = keys \cup {key}
      /\ cleanup' = IF cleanup = 0 THEN CleanupInterval ELSE cleanup
      /\ \/ /\ waits = {}
            /\ times' = [kept EXCEPT ![key] = Append(@, 0)]
            /\ admitted' = Append(admitted, [client |-> c, key |-> key, age |-> 0])
            /\ promise' = [promise EXCEPT ![key] = NoPromise]
         \/ /\ waits # {}
            /\ times' = kept
            /\ promise' = [promise EXCEPT ![key] = RetryAfter(waits)]
            /\ UNCHANGED admitted
  BY DEF Check
<1>2. key \in CallerKeys
  BY KeyShape
<1>3. \A k \in CallerKeys : Ages(times[k]) /\ times[k] \in Seq(0..Hour)
  BY DEF LimiterInv, Ordered, Ages
<1>4. \A k \in CallerKeys : Ages(Pruned(times[k])) /\ Pruned(times[k]) \in Seq(0..Hour)
  BY <1>3, PrunedKeeps DEF Ages
<1>5. \A k \in CallerKeys : k \notin keys => Pruned(times[k]) = <<>>
  BY CleanedUpIsIdle
<1>6. ages = Pruned(times[key])
  BY <1>2, <1>5
<1>7. waits = AllWaits(times[key])
  BY <1>2, <1>3, <1>6, PrunedWaits
<1> HIDE DEF waits, ages, key, keys
<1>8. /\ kept \in [CallerKeys -> Seq(0..Hour)] /\ kept[key] = Pruned(times[key])
      /\ \A k \in CallerKeys \ {key} : kept[k] = times[k] \/ kept[k] = Pruned(times[k])
      /\ \A k \in CallerKeys : k # key /\ k \notin keys => kept[k] = <<>>
  BY <1>2, <1>3, <1>4, <1>5, <1>6, EmptySeq
<1> HIDE DEF kept
<1>9. 0 \in 0..Hour
  OBVIOUS
<1>10. times' \in [CallerKeys -> Seq(0..Hour)]
  <2>1. Append(Pruned(times[key]), 0) \in Seq(0..Hour)
    BY <1>2, <1>4, <1>9, AppendProperties
  <2> QED BY <1>1, <1>2, <1>8, <2>1
<1>11. \A k \in CallerKeys \ {key} : times'[k] = kept[k]
  BY <1>1, <1>8
<1>12. \A k \in CallerKeys : k \notin tracked' => times'[k] = <<>>
  BY <1>1, <1>8, <1>11
<1>13. ASSUME waits = {}
       PROVE  /\ Len(Pruned(times[key])) < PerHour
              /\ Cardinality(Within(times[key], Minute)) < PerMinute
  <2>1. ~(Len(ages) >= PerHour) /\ ~(Cardinality(Within(ages, Minute)) >= PerMinute)
    BY <1>13 DEF waits, Waits
  <2>2. Cardinality(Within(ages, Minute)) = Cardinality(Within(times[key], Minute))
    BY <1>2, <1>3, <1>6, PrunedKeeps
  <2>3. Len(ages) \in Nat /\ Cardinality(Within(ages, Minute)) \in Nat
    BY <1>2, <1>4, <1>6, LenProperties, WithinFinite
  <2> QED BY <1>6, <2>1, <2>2, <2>3
<1>14. \/ /\ AllWaits(times[key]) = {}
          /\ times'[key] = Append(Pruned(times[key]), 0)
          /\ Len(Pruned(times[key])) < PerHour
          /\ Cardinality(Within(times[key], Minute)) < PerMinute
          /\ admitted' = Append(admitted, [client |-> c, key |-> key, age |-> 0])
          /\ promise' = [promise EXCEPT ![key] = NoPromise]
       \/ /\ AllWaits(times[key]) # {}
          /\ times'[key] = Pruned(times[key])
          /\ admitted' = admitted
          /\ promise' = [promise EXCEPT ![key] = RetryAfter(AllWaits(times[key]))]
  BY <1>1, <1>2, <1>7, <1>8, <1>13
<1> QED BY <1>1, <1>2, <1>8, <1>10, <1>11, <1>12, <1>14 DEF key, keys

\* Waits and windows do not depend on what has been pruned.
LEMMA PrunedIsAsGood ==
  ASSUME NEW s, Ages(s), NEW t, t = s \/ t = Pruned(s)
  PROVE  /\ Ages(t) /\ Len(t) <= Len(s) /\ AllWaits(t) = AllWaits(s)
         /\ \A w \in 0..Hour : Cardinality(Within(t, w)) = Cardinality(Within(s, w))
<1>1. Len(s) \in Nat
  BY LenProperties DEF Ages
<1> QED BY <1>1, PrunedKeeps, LimiterAssumption DEF AllWaits

\* A request that is admitted counts under its key, in every window.
LEMMA HistoryGrows ==
  ASSUME LimiterTypeOK, Ordered, NEW c \in Callers, NEW key \in CallerKeys,
         admitted' = Append(admitted, [client |-> c, key |-> key, age |-> 0])
  PROVE  /\ admitted' \in Seq(Admissions)
         /\ \A i, j \in DOMAIN admitted' : i <= j => admitted'[i].age >= admitted'[j].age
         /\ \A k \in CallerKeys : AdmittedUnder(k, 0)' = {}
         /\ \A k \in CallerKeys, w \in 1..Hour :
              Cardinality(AdmittedUnder(k, w)') =
                Cardinality(AdmittedUnder(k, w)) + (IF k = key THEN 1 ELSE 0)
<1> USE LimiterAssumption
<1> DEFINE n == Len(admitted)
           e == [client |-> c, key |-> key, age |-> 0]
<1>1. /\ n \in Nat /\ DOMAIN admitted = 1..n /\ admitted \in [1..n -> Admissions]
      /\ admitted \in Seq(Admissions)
  BY LenProperties DEF LimiterTypeOK, Admissions
<1>2. e \in Admissions
  BY DEF Admissions
<1>3. /\ admitted' \in Seq(Admissions) /\ Len(admitted') = n + 1
      /\ \A i \in 1..n : admitted'[i] = admitted[i]
      /\ admitted'[n + 1] = e
  BY <1>1, <1>2, AppendProperties
<1>4. DOMAIN admitted' = 1..(n + 1) /\ e.age = 0 /\ e.key = key
  BY <1>3, LenProperties
<1> HIDE DEF n, e
<1>5. \A i \in 1..n : admitted[i].age \in 0..(Hour - 1)
  BY <1>1 DEF Admissions
<1>6. \A i, j \in DOMAIN admitted' : i <= j => admitted'[i].age >= admitted'[j].age
  <2> SUFFICES ASSUME NEW i \in 1..(n + 1), NEW j \in 1..(n + 1), i <= j
               PROVE  admitted'[i].age >= admitted'[j].age
    BY <1>4
  <2>1. CASE j = n + 1
    <3>1. admitted'[i].age \in Nat
      BY <1>1, <1>3, <1>4, <1>5
    <3> QED BY <1>3, <1>4, <2>1, <3>1
  <2>2. CASE j # n + 1
    <3>1. i \in 1..n /\ j \in 1..n
      BY <1>1, <2>2
    <3> QED BY <1>1, <1>3, <3>1 DEF Ordered
  <2> QED BY <2>1, <2>2
<1>7. \A k \in CallerKeys : AdmittedUnder(k, 0)' = {}
  BY <1>1, <1>3, <1>4, <1>5 DEF AdmittedUnder
<1>8. ASSUME NEW k \in CallerKeys, NEW w \in 1..Hour
      PROVE  Cardinality(AdmittedUnder(k, w)') =
               Cardinality(AdmittedUnder(k, w)) + (IF k = key THEN 1 ELSE 0)
  <2>1. AdmittedUnder(k, w) \in SUBSET (1..n) /\ n + 1 \notin AdmittedUnder(k, w)
    BY <1>1 DEF AdmittedUnder
  <2>2. IsFiniteSet(AdmittedUnder(k, w)) /\ Cardinality(AdmittedUnder(k, w)) \in Nat
    BY <1>1, <2>1, SegmentCounts, FS_Subset, FS_CardinalityType
  <2>3. AdmittedUnder(k, w)' = AdmittedUnder(k, w) \cup (IF k = key THEN {n + 1} ELSE {})
    BY <1>1, <1>3, <1>4 DEF AdmittedUnder
  <2>4. CASE k = key
    BY <2>1, <2>2, <2>3, <2>4, FS_AddElement
  <2>5. CASE k # key
    BY <2>2, <2>3, <2>5
  <2> QED BY <2>4, <2>5
<1> QED BY <1>3, <1>6, <1>7, <1>8

LEMMA CheckKeeps == ASSUME LimiterInv, NEW c \in Callers, Check(c) PROVE LimiterInv'
<1> USE LimiterAssumption DEF LimiterInv
<1>1. PICK key \in CallerKeys :
        /\ tracked' = CleanedKeys \cup {key} /\ key = EffectiveKey(c, CleanedKeys)
        /\ cleanup' = IF cleanup = 0 THEN CleanupInterval ELSE cleanup
        /\ times' \in [CallerKeys -> Seq(0..Hour)]
        /\ \A k \in CallerKeys \ {key} : times'[k] = times[k] \/ times'[k] = Pruned(times[k])
        /\ \A k \in CallerKeys : k \notin tracked' => times'[k] = <<>>
        /\ \/ /\ AllWaits(times[key]) = {}
              /\ times'[key] = Append(Pruned(times[key]), 0)
              /\ Len(Pruned(times[key])) < PerHour
              /\ Cardinality(Within(times[key], Minute)) < PerMinute
              /\ admitted' = Append(admitted, [client |-> c, key |-> key, age |-> 0])
              /\ promise' = [promise EXCEPT ![key] = NoPromise]
           \/ /\ AllWaits(times[key]) # {}
              /\ times'[key] = Pruned(times[key])
              /\ admitted' = admitted
              /\ promise' = [promise EXCEPT ![key] = RetryAfter(AllWaits(times[key]))]
  BY CheckEffect
<1>2. \A k \in CallerKeys : /\ Ages(times[k]) /\ times[k] \in Seq(0..Hour)
                      /\ Len(times[k]) \in Nat /\ Len(times[k]) <= PerHour
  BY LenProperties DEF Ordered, Ages, LimiterTypeOK
<1>3. /\ tracked' \in SUBSET CallerKeys /\ SharedHasRoom' /\ Cardinality(tracked') <= MaxTracked + 1
  <2>1. /\ tracked' \in SUBSET CallerKeys /\ IsFiniteSet(tracked')
        /\ Cardinality(tracked' \ {Overflow}) <= MaxTracked
    BY <1>1, KeyShape DEF LimiterTypeOK
  <2>2. IsFiniteSet(tracked' \ {Overflow}) /\ tracked' \subseteq (tracked' \ {Overflow}) \cup {Overflow}
    BY <2>1, FS_RemoveElement
  <2>3. /\ IsFiniteSet((tracked' \ {Overflow}) \cup {Overflow})
        /\ Cardinality((tracked' \ {Overflow}) \cup {Overflow}) = Cardinality(tracked' \ {Overflow}) + 1
    BY <2>2, FS_AddElement
  <2>4. Cardinality(tracked') <= Cardinality((tracked' \ {Overflow}) \cup {Overflow})
    BY <2>2, <2>3, FS_Subset
  <2>5. Cardinality(tracked') \in Nat /\ Cardinality(tracked' \ {Overflow}) \in Nat
    BY <2>1, <2>2, FS_CardinalityType
  <2> QED BY <2>1, <2>3, <2>4, <2>5 DEF SharedHasRoom
<1>4. ASSUME NEW k \in CallerKeys, times'[k] = times[k] \/ times'[k] = Pruned(times[k])
      PROVE  /\ Ages(times'[k]) /\ Len(times'[k]) <= PerHour /\ AllWaits(times'[k]) = AllWaits(times[k])
             /\ \A w \in 0..Hour : Cardinality(Within(times'[k], w)) = Cardinality(Within(times[k], w))
  <2>1. /\ Ages(times'[k]) /\ Len(times'[k]) <= Len(times[k])
        /\ AllWaits(times'[k]) = AllWaits(times[k])
        /\ \A w \in 0..Hour : Cardinality(Within(times'[k], w)) = Cardinality(Within(times[k], w))
    BY <1>2, <1>4, PrunedIsAsGood
  <2>2. Len(times'[k]) \in Nat
    BY <2>1, LenProperties DEF Ages
  <2> QED BY <1>2, <2>1, <2>2
<1>5. cleanup' \in 0..CleanupInterval
  BY <1>1 DEF LimiterTypeOK
<1>6. CASE AllWaits(times[key]) = {}
  <2>1. /\ times'[key] = Append(Pruned(times[key]), 0)
        /\ Len(Pruned(times[key])) < PerHour
        /\ Cardinality(Within(times[key], Minute)) < PerMinute
        /\ admitted' = Append(admitted, [client |-> c, key |-> key, age |-> 0])
        /\ promise' = [promise EXCEPT ![key] = NoPromise]
    BY <1>1, <1>6
  <2>2. /\ admitted' \in Seq(Admissions)
        /\ \A i, j \in DOMAIN admitted' : i <= j => admitted'[i].age >= admitted'[j].age
        /\ \A k \in CallerKeys : AdmittedUnder(k, 0)' = {}
        /\ \A k \in CallerKeys, w \in 1..Hour :
             Cardinality(AdmittedUnder(k, w)') =
               Cardinality(AdmittedUnder(k, w)) + (IF k = key THEN 1 ELSE 0)
    BY <2>1, HistoryGrows
  <2>3. /\ Ages(Pruned(times[key])) /\ Len(Pruned(times[key])) \in Nat
        /\ \A w \in 0..Hour :
             Cardinality(Within(Pruned(times[key]), w)) = Cardinality(Within(times[key], w))
    BY <1>2, PrunedKeeps, LenProperties DEF Ages
  <2>4. /\ Ages(times'[key]) /\ Len(times'[key]) = Len(Pruned(times[key])) + 1
        /\ Within(times'[key], 0) = {}
        /\ \A w \in 1..Hour :
             Cardinality(Within(times'[key], w)) = Cardinality(Within(Pruned(times[key]), w)) + 1
    BY <2>1, <2>3, AppendedAges
  <2>5. \A w \in 1..Hour : Cardinality(Within(times'[key], w)) = Cardinality(Within(times[key], w)) + 1
    BY <2>3, <2>4
  <2>6. \A k \in CallerKeys : Len(times'[k]) <= PerHour /\ Ages(times'[k])
    <3> SUFFICES ASSUME NEW k \in CallerKeys PROVE Len(times'[k]) <= PerHour /\ Ages(times'[k])
      OBVIOUS
    <3>1. CASE k = key
      <4>1. Len(times'[key]) <= PerHour
        BY <2>1, <2>3, <2>4
      <4> QED BY <2>4, <3>1, <4>1
    <3>2. CASE k # key
      <4>1. times'[k] = times[k] \/ times'[k] = Pruned(times[k])
        BY <1>1, <3>2
      <4> QED BY <1>4, <4>1
    <3> QED BY <3>1, <3>2
  <2>7. Ordered'
    BY <2>2, <2>6 DEF Ordered
  <2>8. Remembered'
    <3> SUFFICES ASSUME NEW k \in CallerKeys, NEW w \in 0..Hour
                 PROVE  Cardinality(AdmittedUnder(k, w)') = Cardinality(Within(times[k], w)')
      BY DEF Remembered
    <3>1. Cardinality(AdmittedUnder(k, w)) = Cardinality(Within(times[k], w))
      BY DEF Remembered
    <3>2. CASE w = 0
      <4>1. Within(times'[k], 0) = {}
        <5>1. CASE k = key
          BY <2>4, <5>1
        <5>2. CASE k # key
          <6>1. Ages(times'[k])
            BY <2>6
          <6> QED BY <6>1, AgedShape
        <5> QED BY <5>1, <5>2
      <4> QED BY <2>2, <3>2, <4>1
    <3>3. CASE w \in 1..Hour /\ k = key
      BY <2>2, <2>5, <3>1, <3>3
    <3>4. CASE w \in 1..Hour /\ k # key
      <4>1. Cardinality(AdmittedUnder(k, w)) \in Nat
        <5>1. AdmittedUnder(k, w) \in SUBSET (1..Len(admitted)) /\ Len(admitted) \in Nat
          BY LenProperties DEF LimiterTypeOK, AdmittedUnder
        <5> QED BY <5>1, SegmentCounts, FS_Subset, FS_CardinalityType
      <4>2. Cardinality(AdmittedUnder(k, w)') = Cardinality(AdmittedUnder(k, w))
        BY <2>2, <3>4, <4>1
      <4>3. times'[k] = times[k] \/ times'[k] = Pruned(times[k])
        BY <1>1, <3>4
      <4>4. Cardinality(Within(times'[k], w)) = Cardinality(Within(times[k], w))
        BY <1>4, <4>3
      <4> QED BY <3>1, <4>2, <4>4
    <3> QED BY <3>2, <3>3, <3>4
  <2>9. MinuteKept'
    <3>1. Cardinality(Within(times[key], Minute)) \in Nat
      BY <1>2, WithinFinite
    <3>2. Minute \in 1..Hour /\ Minute \in 0..Hour
      OBVIOUS
    <3> SUFFICES ASSUME NEW k \in CallerKeys PROVE Cardinality(Within(times'[k], Minute)) <= PerMinute
      BY DEF MinuteKept
    <3>3. CASE k = key
      <4>1. Cardinality(Within(times'[key], Minute)) = Cardinality(Within(times[key], Minute)) + 1
        BY <2>5, <3>2
      <4>2. Cardinality(Within(times[key], Minute)) + 1 <= PerMinute
        BY <2>1, <3>1
      <4> QED BY <3>3, <4>1, <4>2
    <3>4. CASE k # key
      <4>1. times'[k] = times[k] \/ times'[k] = Pruned(times[k])
        BY <1>1, <3>4
      <4>2. Cardinality(Within(times'[k], Minute)) = Cardinality(Within(times[k], Minute))
        BY <1>4, <3>2, <4>1
      <4> QED BY <4>2 DEF MinuteKept
    <3> QED BY <3>3, <3>4
  <2>10. PromiseKept'
    <3> SUFFICES ASSUME NEW k \in CallerKeys, promise'[k] # NoPromise
                 PROVE  /\ \A t \in AllWaits(times'[k]) : t <= promise'[k]
                        /\ promise'[k] > 0 => promise'[k] \in AllWaits(times'[k])
      BY DEF PromiseKept
    <3>1. k # key /\ promise'[k] = promise[k]
      BY <2>1 DEF LimiterTypeOK
    <3> QED BY <1>1, <1>4, <3>1 DEF PromiseKept
  <2>11. promise' \in [CallerKeys -> -1..Hour]
    BY <2>1 DEF LimiterTypeOK, NoPromise
  <2>12. LimiterTypeOK'
    BY <1>1, <1>3, <1>5, <2>2, <2>6, <2>11 DEF LimiterTypeOK, Admissions
  <2> QED BY <1>3, <2>7, <2>8, <2>9, <2>10, <2>12
<1>7. CASE AllWaits(times[key]) # {}
  <2>1. /\ times'[key] = Pruned(times[key])
        /\ admitted' = admitted
        /\ promise' = [promise EXCEPT ![key] = RetryAfter(AllWaits(times[key]))]
    BY <1>1, <1>7
  <2>2. \A k \in CallerKeys :
          /\ Ages(times'[k]) /\ Len(times'[k]) <= PerHour /\ AllWaits(times'[k]) = AllWaits(times[k])
          /\ \A w \in 0..Hour : Cardinality(Within(times'[k], w)) = Cardinality(Within(times[k], w))
    BY <1>1, <1>4, <2>1
  <2>3. /\ RetryAfter(AllWaits(times[key])) \in AllWaits(times[key])
        /\ RetryAfter(AllWaits(times[key])) \in 1..Hour
        /\ \A t \in AllWaits(times[key]) : t <= RetryAfter(AllWaits(times[key]))
    BY <1>2, <1>7, RetryAfterIsLongest
  <2>4. Ordered'
    BY <2>1, <2>2 DEF Ordered
  <2>5. Remembered'
    BY <2>1, <2>2 DEF Remembered, AdmittedUnder
  <2>6. MinuteKept'
    BY <2>2 DEF MinuteKept
  <2>7. PromiseKept'
    <3> SUFFICES ASSUME NEW k \in CallerKeys, promise'[k] # NoPromise
                 PROVE  /\ \A t \in AllWaits(times'[k]) : t <= promise'[k]
                        /\ promise'[k] > 0 => promise'[k] \in AllWaits(times'[k])
      BY DEF PromiseKept
    <3>1. CASE k = key
      BY <2>1, <2>2, <2>3, <3>1 DEF LimiterTypeOK
    <3>2. CASE k # key
      BY <2>1, <2>2, <3>2 DEF LimiterTypeOK, PromiseKept
    <3> QED BY <3>1, <3>2
  <2>8. promise' \in [CallerKeys -> -1..Hour]
    BY <2>1, <2>3 DEF LimiterTypeOK
  <2>9. LimiterTypeOK'
    BY <1>1, <1>3, <1>5, <2>1, <2>2, <2>8 DEF LimiterTypeOK
  <2> QED BY <1>3, <2>4, <2>5, <2>6, <2>7, <2>9
<1> QED BY <1>6, <1>7

-----------------------------------------------------------------------------
(* The theorems.                                                           *)

LEMMA LimiterInvInit == LimiterInit => LimiterInv
<1> SUFFICES ASSUME LimiterInit PROVE LimiterInv
  OBVIOUS
<1> USE LimiterAssumption
<1>1. /\ <<>> \in Seq(0..Hour) /\ Len(<<>>) = 0 /\ DOMAIN <<>> = {}
      /\ admitted \in Seq([client : Callers, key : CallerKeys, age : 0..(Hour - 1)])
  BY EmptySeq DEF LimiterInit
<1>2. /\ tracked = {} /\ times = [k \in CallerKeys |-> <<>>] /\ cleanup = CleanupInterval
      /\ admitted = <<>> /\ promise = [k \in CallerKeys |-> NoPromise]
  BY DEF LimiterInit
<1>3. IsFiniteSet(tracked) /\ Cardinality(tracked) = 0 /\ tracked \ {Overflow} = {}
  BY <1>2, FS_EmptySet
<1>4. \A w : Within(<<>>, w) = {}
  BY <1>1 DEF Within
<1>5. \A k, w : AdmittedUnder(k, w) = {}
  BY <1>1, <1>2 DEF AdmittedUnder
<1>6. Cardinality({}) = 0
  BY FS_EmptySet
<1>7. LimiterTypeOK
  <2>1. cleanup \in 0..CleanupInterval /\ promise \in [CallerKeys -> -1..Hour]
    BY <1>2 DEF NoPromise
  <2>2. \A k \in CallerKeys : Len(times[k]) <= PerHour /\ (k \notin tracked => times[k] = <<>>)
    BY <1>1, <1>2
  <2> QED BY <1>1, <1>2, <1>3, <2>1, <2>2 DEF LimiterTypeOK
<1>8. Ordered
  BY <1>1, <1>2 DEF Ordered, Ages
<1>9. Remembered
  BY <1>2, <1>4, <1>5 DEF Remembered
<1>10. MinuteKept
  <2>1. \A k \in CallerKeys : Within(times[k], Minute) = {}
    BY <1>2, <1>4
  <2> QED BY <1>6, <2>1 DEF MinuteKept
<1>11. SharedHasRoom
  BY <1>3, <1>6, FS_EmptySet DEF SharedHasRoom
<1>12. PromiseKept
  BY <1>2 DEF PromiseKept
<1> QED BY <1>7, <1>8, <1>9, <1>10, <1>11, <1>12 DEF LimiterInv

LEMMA LimiterInvNext == LimiterInv /\ [LimiterNext]_limiterVars => LimiterInv'
<1> SUFFICES ASSUME LimiterInv, [LimiterNext]_limiterVars PROVE LimiterInv'
  OBVIOUS
<1>1. CASE LimiterTick
  BY <1>1, TickKeeps
<1>2. ASSUME NEW c \in Callers, Check(c) PROVE LimiterInv'
  BY <1>2, CheckKeeps
<1>3. CASE UNCHANGED limiterVars
  BY <1>3 DEF limiterVars, LimiterInv, LimiterTypeOK, Ordered, Remembered, MinuteKept, SharedHasRoom,
              PromiseKept, AdmittedUnder
<1> QED BY <1>1, <1>2, <1>3 DEF LimiterNext

LEMMA LimiterInvariant == LimiterSpec => []LimiterInv
BY LimiterInvInit, LimiterInvNext, PTL DEF LimiterSpec

\* The table of clients and what it remembers stay within their limits,
\* MAX_TRACKED_CLIENTS and the shared key included.
THEOREM LimiterTypeCorrect == LimiterSpec => []LimiterTypeOK
<1>1. LimiterInv => LimiterTypeOK
  BY DEF LimiterInv
<1> QED BY <1>1, LimiterInvariant, PTL

\* No pruning, cleanup or refusal lets a key be admitted more often than the
\* limits allow: what has been forgotten no longer counts.
THEOREM KeyLimitsAlwaysKept == LimiterSpec => []KeyLimits
<1>1. LimiterInv => KeyLimits
  <2> SUFFICES ASSUME LimiterInv, NEW k \in CallerKeys
               PROVE  /\ Cardinality(AdmittedUnder(k, Minute)) <= PerMinute
                      /\ Cardinality(AdmittedUnder(k, Hour)) <= PerHour
    BY DEF KeyLimits
  <2> USE LimiterAssumption
  <2>1. times[k] \in Seq(0..Hour) /\ Len(times[k]) \in Nat /\ Len(times[k]) <= PerHour
    BY LenProperties DEF LimiterInv, LimiterTypeOK
  <2>2. Minute \in 0..Hour /\ Hour \in 0..Hour
    OBVIOUS
  <2>3. /\ Cardinality(AdmittedUnder(k, Minute)) = Cardinality(Within(times[k], Minute))
        /\ Cardinality(AdmittedUnder(k, Hour)) = Cardinality(Within(times[k], Hour))
    BY <2>2 DEF LimiterInv, Remembered
  <2>4. Cardinality(Within(times[k], Minute)) <= PerMinute
    BY DEF LimiterInv, MinuteKept
  <2>5. Cardinality(Within(times[k], Hour)) <= Len(times[k]) /\ Cardinality(Within(times[k], Hour)) \in Nat
    BY <2>1, WithinFinite
  <2> QED BY <2>1, <2>3, <2>4, <2>5
<1> QED BY <1>1, LimiterInvariant, PTL

\* Whoever is refused is told the exact time to wait.  The promise that the
\* fuller window makes is kept by every later request and every cleanup.
THEOREM RetryAfterAlwaysExact == LimiterSpec => RetryAfterIsExact
<1>1. ASSUME LimiterInv, [LimiterNext]_limiterVars
      PROVE  [\A k \in CallerKeys : promise[k] # NoPromise =>
                /\ promise'[k] = NoPromise => promise[k] = 0
                /\ promise'[k] <= promise[k]]_limiterVars
  <2> SUFFICES ASSUME LimiterNext, NEW k \in CallerKeys, promise[k] # NoPromise
               PROVE  /\ promise'[k] = NoPromise => promise[k] = 0
                      /\ promise'[k] <= promise[k]
    BY <1>1
  <2> USE LimiterAssumption
  <2>1. promise \in [CallerKeys -> -1..Hour] /\ promise[k] \in 0..Hour /\ NoPromise = -1
    BY <1>1 DEF LimiterInv, LimiterTypeOK, NoPromise
  <2>2. CASE LimiterTick
    BY <2>1, <2>2 DEF LimiterTick
  <2>3. ASSUME NEW c \in Callers, Check(c)
        PROVE  /\ promise'[k] = NoPromise => promise[k] = 0
               /\ promise'[k] <= promise[k]
    <3>1. PICK key \in CallerKeys :
            \/ /\ AllWaits(times[key]) = {}
               /\ promise' = [promise EXCEPT ![key] = NoPromise]
            \/ /\ AllWaits(times[key]) # {}
               /\ promise' = [promise EXCEPT ![key] = RetryAfter(AllWaits(times[key]))]
      BY <1>1, <2>3, CheckEffect
    <3>2. CASE k # key
      BY <2>1, <3>1, <3>2
    <3>3. CASE k = key /\ AllWaits(times[key]) = {}
      <4>1. promise[k] = 0
        BY <1>1, <2>1, <3>3 DEF LimiterInv, PromiseKept
      <4> QED BY <2>1, <3>1, <3>3, <4>1
    <3>4. CASE k = key /\ AllWaits(times[key]) # {}
      <4>1. Ages(times[key])
        BY <1>1 DEF LimiterInv, Ordered
      <4>2. /\ RetryAfter(AllWaits(times[key])) \in AllWaits(times[key])
            /\ RetryAfter(AllWaits(times[key])) \in 1..Hour
        BY <3>4, <4>1, RetryAfterIsLongest
      <4>3. RetryAfter(AllWaits(times[key])) <= promise[k]
        BY <1>1, <3>4, <4>2 DEF LimiterInv, PromiseKept
      <4>4. promise'[k] = RetryAfter(AllWaits(times[key]))
        BY <2>1, <3>1, <3>4
      <4> QED BY <2>1, <4>2, <4>3, <4>4
    <3> QED BY <3>2, <3>3, <3>4
  <2> QED BY <2>2, <2>3 DEF LimiterNext
<1> QED BY <1>1, LimiterInvariant, PTL DEF LimiterSpec, RetryAfterIsExact
=============================================================================
