-------------------------- MODULE LeadIntakeProofs ---------------------------
(***************************************************************************)
(* Proofs about the way of POST /leads: BodyLimit, for any limit and any   *)
(* messages; ClientAddress, for any addresses and any header; and          *)
(* LeadIntake, for any submissions and messages, any length of the         *)
(* duplicate window, and any number of abandoned inserts.                  *)
(***************************************************************************)
EXTENDS LeadIntake, BodyLimit, ClientAddress, FiniteSetTheorems, SequenceTheorems,
        NaturalsInduction, WellFoundedInduction, TLAPS

-----------------------------------------------------------------------------
(* Sets of natural numbers.                                                *)

\* A set of natural numbers has a smallest one.
LEMMA Smallest ==
  ASSUME NEW S \in SUBSET Nat, S # {}
  PROVE  \E n \in S : \A m \in S : n <= m
<1> DEFINE R == OpToRel(<, Nat)
<1>1. IsWellFoundedOn(R, Nat)
  BY NatLessThanWellFounded
<1>2. \A x, y \in Nat : <<x, y>> \in R <=> x < y
  BY DEF OpToRel
<1> HIDE DEF R
<1>3. PICK n \in S : \A m \in S : ~(<<m, n>> \in R)
  BY <1>1, WFMin
<1>4. \A m \in S : n <= m
  <2>1. \A m \in S : ~(m < n)
    BY <1>2, <1>3
  <2> QED BY <2>1
<1> QED BY <1>4

\* Induction over the natural numbers, for a set of them.
LEMMA NatSetInduction ==
  ASSUME NEW S \in SUBSET Nat, 0 \in S, \A n \in S : n + 1 \in S
  PROVE  S = Nat
<1> SUFFICES ASSUME Nat \ S # {} PROVE FALSE
  OBVIOUS
<1>1. PICK n \in Nat \ S : \A m \in Nat \ S : n <= m
  <2>1. Nat \ S \in SUBSET Nat
    OBVIOUS
  <2> QED BY <2>1, Smallest
<1>2. n - 1 \in Nat /\ n - 1 + 1 = n /\ ~(n <= n - 1)
  OBVIOUS
<1>3. n - 1 \in S
  BY <1>1, <1>2
<1> QED BY <1>2, <1>3


\* Places in a sequence have a last one.
LEMMA Largest ==
  ASSUME NEW n \in Nat, NEW S \in SUBSET (1..n), S # {}
  PROVE  \E m \in S : \A i \in S : m >= i
<1> DEFINE J == {n - i : i \in S}
<1>1. \A i \in S : i \in 1..n /\ n - i \in Nat /\ n - (n - i) = i
  OBVIOUS
<1>2. PICK j \in J : \A i \in J : j <= i
  <2>1. J \in SUBSET Nat /\ J # {}
    BY <1>1
  <2> HIDE DEF J
  <2> QED BY <2>1, Smallest
<1>3. PICK m \in S : j = n - m
  OBVIOUS
<1>4. \A i \in S : m >= i
  <2> SUFFICES ASSUME NEW i \in S PROVE m >= i
    OBVIOUS
  <2>1. n - m <= n - i
    BY <1>2, <1>3
  <2> QED BY <1>1, <2>1
<1> QED BY <1>4

-----------------------------------------------------------------------------
(* The size of messages, by induction over their number.                   *)

\* The first k partial sums.
PartSums(t, s, k) ==
  t = [n \in 0..k |-> IF n = 0 THEN 0 ELSE t[n - 1] + s[n].size]

LEMMA PartSumsExist ==
  ASSUME NEW s \in Seq(Messages), NEW k \in Nat
  PROVE  \E t : PartSums(t, s, k)
<1> DEFINE S == {m \in Nat : \E t : PartSums(t, s, m)}
<1>1. 0 \in S
  <2>1. PartSums([n \in 0..0 |-> 0], s, 0)
    BY DEF PartSums
  <2> QED BY <2>1
<1>2. ASSUME NEW m \in S PROVE m + 1 \in S
  <2>1. PICK f : PartSums(f, s, m)
    OBVIOUS
  <2> DEFINE g == [n \in 0..(m + 1) |-> IF n = m + 1 THEN f[m] + s[m + 1].size ELSE f[n]]
  <2>2. \A n \in 0..m : f[n] = IF n = 0 THEN 0 ELSE f[n - 1] + s[n].size
    BY <2>1 DEF PartSums
  <2>3. ASSUME NEW n \in 0..(m + 1) PROVE g[n] = IF n = 0 THEN 0 ELSE g[n - 1] + s[n].size
    <3>1. CASE n = m + 1
      <4>1. n # 0 /\ n - 1 \in 0..(m + 1) /\ n - 1 = m /\ m # m + 1
        BY <3>1
      <4>2. g[n] = f[m] + s[m + 1].size /\ g[n - 1] = f[m]
        BY <3>1, <4>1
      <4> QED BY <3>1, <4>1, <4>2
    <3>2. CASE n # m + 1
      <4>1. n \in 0..m /\ g[n] = f[n]
        BY <3>2
      <4>2. CASE n = 0
        BY <2>2, <4>1, <4>2
      <4>3. CASE n # 0
        <5>1. n - 1 \in 0..(m + 1) /\ n - 1 # m + 1
          BY <4>1, <4>3
        <5>2. g[n - 1] = f[n - 1]
          BY <5>1
        <5> HIDE DEF g
        <5> QED BY <2>2, <4>1, <4>3, <5>2
      <4> QED BY <4>2, <4>3
    <3> QED BY <3>1, <3>2
  <2>4. g = [n \in 0..(m + 1) |-> g[n]]
    OBVIOUS
  <2>5. PartSums(g, s, m + 1)
    <3> HIDE DEF g
    <3> QED BY <2>3, <2>4 DEF PartSums
  <2> HIDE DEF g
  <2> QED BY <2>5
<1> HIDE DEF S
<1>3. S = Nat
  <2>1. S \in SUBSET Nat
    BY DEF S
  <2> QED BY <1>1, <1>2, <2>1, NatSetInduction
<1> QED BY <1>3 DEF S

\* Partial sums depend on the messages they sum only.
LEMMA PartSumsAgree ==
  ASSUME NEW s \in Seq(Messages), NEW r \in Seq(Messages), NEW k \in Nat, NEW j \in Nat,
         NEW t, NEW u, PartSums(t, s, k), PartSums(u, r, j), j <= k, j <= Len(r),
         \A n \in 1..j : s[n] = r[n]
  PROVE  \A n \in 0..j : t[n] = u[n] /\ u[n] \in Nat
<1> DEFINE S == {n \in Nat : n <= j => t[n] = u[n] /\ u[n] \in Nat}
<1>1. /\ \A n \in 0..j : t[n] = IF n = 0 THEN 0 ELSE t[n - 1] + s[n].size
      /\ \A n \in 0..j : u[n] = IF n = 0 THEN 0 ELSE u[n - 1] + r[n].size
  <2>1. \A n \in 0..j : n \in 0..k
    OBVIOUS
  <2> QED BY <2>1 DEF PartSums
<1>2. \A n \in 1..j : r[n].size \in Nat
  <2>1. \A m \in Messages : m.size \in Nat
    BY BodyAssumption DEF Messages, Chunks, Sizes, Message
  <2> QED BY <2>1
<1>3. 0 \in S
  <2>1. 0 \in 0..j
    OBVIOUS
  <2>2. t[0] = 0 /\ u[0] = 0
    BY <1>1, <2>1
  <2> QED BY <2>2
<1>4. ASSUME NEW n \in 1..j, t[n - 1] = u[n - 1], u[n - 1] \in Nat
      PROVE  t[n] = u[n] /\ u[n] \in Nat
  <2>1. n \in 0..j /\ n # 0
    OBVIOUS
  <2>2. t[n] = t[n - 1] + s[n].size /\ u[n] = u[n - 1] + r[n].size
    BY <1>1, <2>1
  <2> QED BY <1>2, <1>4, <2>2
<1>5. ASSUME NEW n \in S PROVE n + 1 \in S
  <2> SUFFICES ASSUME n + 1 <= j PROVE t[n + 1] = u[n + 1] /\ u[n + 1] \in Nat
    OBVIOUS
  <2>1. n <= j /\ n + 1 \in 1..j /\ n + 1 - 1 = n /\ t[n] = u[n] /\ u[n] \in Nat
    OBVIOUS
  <2> QED BY <1>4, <2>1
<1> HIDE DEF S
<1>6. S = Nat
  <2>1. S \in SUBSET Nat
    BY DEF S
  <2> QED BY <1>3, <1>5, <2>1, NatSetInduction
<1> QED BY <1>6 DEF S

\* The size of a message sequence is its last partial sum.
LEMMA SizeIsSum ==
  ASSUME NEW s \in Seq(Messages), NEW t, PartSums(t, s, Len(s))
  PROVE  SizeOf(s) = t[Len(s)] /\ SizeOf(s) \in Nat
<1> DEFINE sum == CHOOSE u : PartSums(u, s, Len(s))
<1>1. SizeOf(s) = sum[Len(s)]
  BY DEF SizeOf, PartSums
<1>2. PartSums(sum, s, Len(s))
  OBVIOUS
<1> HIDE DEF sum
<1>3. Len(s) \in Nat /\ Len(s) \in 0..Len(s)
  OBVIOUS
<1>4. \A n \in 0..Len(s) : t[n] = sum[n] /\ sum[n] \in Nat
  BY <1>2, <1>3, PartSumsAgree
<1> QED BY <1>1, <1>3, <1>4

LEMMA SizeOfNothing == SizeOf(<<>>) = 0
<1>1. <<>> \in Seq(Messages) /\ Len(<<>>) = 0
  OBVIOUS
<1>2. PartSums([n \in 0..0 |-> 0], <<>>, 0)
  BY DEF PartSums
<1>3. SizeOf(<<>>) = [n \in 0..0 |-> 0][0]
  BY <1>1, <1>2, SizeIsSum
<1> QED BY <1>3

LEMMA SizeOfAppend ==
  ASSUME NEW s \in Seq(Messages), NEW m \in Messages
  PROVE  /\ SizeOf(Append(s, m)) = SizeOf(s) + m.size
         /\ SizeOf(s) \in Nat /\ m.size \in Nat
<1> DEFINE r == Append(s, m)
<1>1. r \in Seq(Messages) /\ Len(r) = Len(s) + 1 /\ r[Len(r)] = m /\ Len(s) \in Nat
  OBVIOUS
<1>2. \A n \in 1..Len(s) : r[n] = s[n]
  OBVIOUS
<1> HIDE DEF r
<1>3. PICK t : PartSums(t, r, Len(r))
  BY <1>1, PartSumsExist
<1>4. PICK u : PartSums(u, s, Len(s))
  BY <1>1, PartSumsExist
<1>5. t[Len(s)] = u[Len(s)]
  <2>1. /\ Len(s) <= Len(r) /\ Len(s) <= Len(s) /\ Len(r) \in Nat /\ Len(s) \in 0..Len(s)
    BY <1>1
  <2> QED BY <1>1, <1>2, <1>3, <1>4, <2>1, PartSumsAgree
<1>6. t[Len(r)] = t[Len(s)] + m.size
  <2>1. Len(r) \in 0..Len(r) /\ Len(r) # 0 /\ Len(r) - 1 = Len(s)
    BY <1>1
  <2> QED BY <1>1, <1>3, <2>1 DEF PartSums
<1>7. SizeOf(r) = t[Len(r)] /\ SizeOf(s) = u[Len(s)] /\ SizeOf(s) \in Nat
  BY <1>1, <1>3, <1>4, SizeIsSum
<1>8. m.size \in Nat
  BY BodyAssumption DEF Messages, Chunks, Sizes, Message
<1> QED BY <1>5, <1>6, <1>7, <1>8 DEF r

\* What is left of a buffer is no larger than the buffer.
LEMMA SizeOfTail ==
  ASSUME NEW s \in Seq(Messages), s # <<>>
  PROVE  SizeOf(Tail(s)) <= SizeOf(s) /\ SizeOf(Tail(s)) \in Nat /\ SizeOf(s) \in Nat
<1> DEFINE r == Tail(s)
<1>1. r \in Seq(Messages) /\ Len(r) = Len(s) - 1 /\ Len(s) \in Nat /\ Len(r) \in Nat
  OBVIOUS
<1>2. \A n \in 1..Len(r) : r[n] = s[n + 1] /\ r[n].size \in Nat
  <2>1. \A m \in Messages : m.size \in Nat
    BY BodyAssumption DEF Messages, Chunks, Sizes, Message
  <2>2. \A n \in 1..Len(r) : r[n] \in Messages /\ r[n] = s[n + 1]
    BY <1>1
  <2> QED BY <2>1, <2>2
<1> HIDE DEF r
<1>3. PICK t : PartSums(t, s, Len(s))
  BY <1>1, PartSumsExist
<1>4. PICK u : PartSums(u, r, Len(r))
  BY <1>1, PartSumsExist
<1>5. /\ \A n \in 0..Len(s) : t[n] \in Nat
      /\ \A n \in 0..Len(r) : u[n] \in Nat
  <2>1. Len(s) <= Len(s) /\ Len(r) <= Len(r)
    BY <1>1
  <2> QED BY <1>1, <1>3, <1>4, <2>1, PartSumsAgree
<1>6. /\ \A n \in 0..Len(s) : t[n] = IF n = 0 THEN 0 ELSE t[n - 1] + s[n].size
      /\ \A n \in 0..Len(r) : u[n] = IF n = 0 THEN 0 ELSE u[n - 1] + r[n].size
  BY <1>3, <1>4 DEF PartSums
<1> DEFINE S == {n \in Nat : n <= Len(r) => u[n] <= t[n + 1]}
<1>7. 0 \in S
  <2>1. 0 \in 0..Len(r) /\ 1 \in 0..Len(s)
    BY <1>1
  <2> QED BY <1>5, <1>6, <2>1
<1>8. ASSUME NEW n \in 1..Len(r), u[n - 1] <= t[n]
      PROVE  u[n] <= t[n + 1]
  <2>1. /\ n \in 0..Len(r) /\ n - 1 \in 0..Len(r) /\ n # 0 /\ n + 1 # 0 /\ n + 1 - 1 = n
        /\ n + 1 \in 0..Len(s) /\ n \in 0..Len(s)
    BY <1>1
  <2>2. u[n] = u[n - 1] + r[n].size /\ t[n + 1] = t[n] + s[n + 1].size
    BY <1>6, <2>1
  <2> QED BY <1>2, <1>5, <1>8, <2>1, <2>2
<1>9. ASSUME NEW n \in S PROVE n + 1 \in S
  <2> SUFFICES ASSUME n + 1 <= Len(r) PROVE u[n + 1] <= t[n + 1 + 1]
    OBVIOUS
  <2>1. n <= Len(r) /\ n + 1 \in 1..Len(r) /\ n + 1 - 1 = n /\ u[n] <= t[n + 1]
    BY <1>1
  <2> QED BY <1>8, <2>1
<1> HIDE DEF S
<1>10. S = Nat
  <2>1. S \in SUBSET Nat
    BY DEF S
  <2> QED BY <1>7, <1>9, <2>1, NatSetInduction
<1>11. u[Len(r)] <= t[Len(s)]
  <2>1. Len(r) + 1 = Len(s)
    BY <1>1
  <2> QED BY <1>1, <1>10, <2>1 DEF S
<1>12. SizeOf(s) = t[Len(s)] /\ SizeOf(r) = u[Len(r)] /\ SizeOf(s) \in Nat /\ SizeOf(r) \in Nat
  BY <1>1, <1>3, <1>4, SizeIsSum
<1> QED BY <1>11, <1>12 DEF r

-----------------------------------------------------------------------------
(* The body limit.  While the middleware buffers, it has all that arrived; *)
(* then the two halves of that are with it and the application.            *)

BodyTypes ==
  /\ bodyScope \in {"http", "websocket"}
  /\ bodyDeclared \in Int /\ bodyBytes \in Nat
  /\ bodyArrived \in Seq(Messages) /\ bodyBuffer \in Seq(Messages) /\ bodyRead \in Seq(Messages)

Ends(m) == m.type = "http.request" /\ ~m.more

\* The body ends with the k-th message, and its size is within the limit.
EndsAt(k) ==
  /\ k \in 1..Len(bodyArrived) /\ Ends(bodyArrived[k])
  /\ \A i \in 1..(k - 1) : ~Ends(bodyArrived[i])
  /\ SizeOf(SubSeq(bodyArrived, 1, k)) <= MaxBytes

NothingYet == bodyArrived = <<>> /\ bodyBuffer = <<>> /\ bodyBytes = 0 /\ bodyRead = <<>>

Buffering ==
  /\ bodyScope = "http" /\ bodyBuffer = bodyArrived /\ bodyRead = <<>>
  /\ bodyBytes = SizeOf(bodyArrived)
  /\ \A i \in 1..Len(bodyArrived) : ~Ends(bodyArrived[i])

PassingOn ==
  /\ bodyRead \o bodyBuffer = bodyArrived
  /\ bodyScope = "http" => \E k \in Nat : EndsAt(k)

BodyStages ==
  /\ bodyAt \in {"none", "buffering", "app", "refused", "dropped"}
  /\ SizeOf(bodyBuffer) <= MaxBytes
  /\ bodyAt = "none" => NothingYet
  /\ bodyAt = "buffering" => Buffering
  /\ bodyAt = "app" => PassingOn
  /\ bodyAt # "app" => bodyRead = <<>>
  /\ bodyAt = "refused" => SizeOf(bodyArrived) > MaxBytes \/ bodyDeclared > MaxBytes

BodyInv == BodyTypes /\ BodyStages

LEMMA BodyEnd ==
  ASSUME BodyTypes, NEW k \in Nat, EndsAt(k)
  PROVE  Body = k
<1> DEFINE I == {i \in 1..Len(bodyArrived) : bodyArrived[i].type = "http.request" /\ ~bodyArrived[i].more}
<1>1. k \in I /\ \A i \in I : k <= i
  BY DEF EndsAt, Ends, BodyTypes
<1>2. Min(I) = k
  <2>1. \A x \in I : (\A y \in I : x <= y) => x = k
    BY <1>1
  <2> QED BY <1>1, <2>1 DEF Min
<1>3. Body = IF I # {} THEN Min(I) ELSE 0
  BY DEF Body, SelectInSeq
<1> QED BY <1>1, <1>2, <1>3

LEMMA BodyIsPassedOn == BodyInv => BodyPassedOn
<1> SUFFICES ASSUME BodyInv PROVE BodyPassedOn
  OBVIOUS
<1>1. bodyAt = "app" /\ bodyScope = "http" =>
        Body > 0 /\ SizeOf(SubSeq(bodyArrived, 1, Body)) <= MaxBytes
  <2> SUFFICES ASSUME bodyAt = "app", bodyScope = "http"
               PROVE  Body > 0 /\ SizeOf(SubSeq(bodyArrived, 1, Body)) <= MaxBytes
    OBVIOUS
  <2>1. PICK k \in Nat : EndsAt(k)
    BY DEF BodyInv, BodyStages, PassingOn
  <2>2. Body = k
    BY <2>1, BodyEnd DEF BodyInv
  <2>3. k > 0 /\ SizeOf(SubSeq(bodyArrived, 1, k)) <= MaxBytes
    BY <2>1 DEF EndsAt
  <2> QED BY <2>2, <2>3
<1> QED BY <1>1 DEF BodyInv, BodyStages, PassingOn, BodyPassedOn

\* What counts as a declared length is one, or none.
LEMMA LengthDeclared ==
  ASSUME NEW headers \in BoundedSeq(Sizes \cup {NoLength}, 2)
  PROVE  ContentLength(headers) \in Sizes \cup {NoLength}
<1>1. CASE headers = <<>>
  BY <1>1 DEF ContentLength
<1>2. CASE headers # <<>>
  <2>1. PICK n \in 0..2 : headers \in [1..n -> Sizes \cup {NoLength}]
    BY DEF BoundedSeq, SeqOf
  <2>2. n # 0
    <3>1. ASSUME n = 0 PROVE headers = <<>>
      BY <2>1, <3>1
    <3> QED BY <1>2, <3>1
  <2>3. 1 \in 1..n
    BY <2>2
  <2> QED BY <2>1, <2>3 DEF ContentLength
<1> QED BY <1>1, <1>2

LEMMA StartPasses == ASSUME BodyInv, BodyStart PROVE BodyInv'
<1>1. PICK scope \in {"http", "websocket"}, headers \in BoundedSeq(Sizes \cup {NoLength}, 2) :
        /\ bodyScope' = scope
        /\ bodyDeclared' = ContentLength(headers)
        /\ bodyAt' = IF scope # "http" THEN "app"
                     ELSE IF bodyDeclared' > MaxBytes THEN "refused"
                     ELSE "buffering"
  BY DEF BodyStart
<1>2. NothingYet /\ UNCHANGED <<bodyArrived, bodyBuffer, bodyBytes, bodyRead>>
  BY DEF BodyStart, BodyInv, BodyStages
<1>3. bodyDeclared' \in Int
  <2>1. Sizes \cup {NoLength} \subseteq Int
    BY BodyAssumption DEF Sizes, NoLength
  <2> QED BY <1>1, <2>1, LengthDeclared
<1>4. BodyTypes'
  BY <1>1, <1>2, <1>3 DEF BodyInv, BodyTypes
<1>5. NothingYet' /\ SizeOf(bodyArrived') = 0 /\ SizeOf(bodyBuffer') = 0 /\ 0 <= MaxBytes
  BY <1>2, SizeOfNothing, BodyAssumption DEF NothingYet
<1>6. CASE scope # "http"
  <2>1. bodyAt' = "app" /\ bodyScope' # "http"
    BY <1>1, <1>6
  <2>2. PassingOn'
    BY <1>5, <2>1 DEF PassingOn, NothingYet
  <2> QED BY <1>4, <1>5, <2>1, <2>2 DEF BodyInv, BodyStages
<1>7. CASE scope = "http" /\ bodyDeclared' > MaxBytes
  <2>1. bodyAt' = "refused"
    BY <1>1, <1>7
  <2> QED BY <1>4, <1>5, <1>7, <2>1 DEF BodyInv, BodyStages, NothingYet
<1>8. CASE scope = "http" /\ ~(bodyDeclared' > MaxBytes)
  <2>1. bodyAt' = "buffering" /\ bodyScope' = "http"
    BY <1>1, <1>8
  <2>2. Buffering'
    BY <1>5, <2>1 DEF Buffering, NothingYet
  <2> QED BY <1>4, <1>5, <2>1, <2>2 DEF BodyInv, BodyStages, NothingYet
<1> QED BY <1>6, <1>7, <1>8

LEMMA ReceivesPasses ==
  ASSUME BodyInv, NEW m \in Messages, BodyReceives(m)
  PROVE  BodyInv'
<1>1. /\ bodyAt = "buffering" /\ bodyArrived' = Append(bodyArrived, m)
      /\ UNCHANGED <<bodyScope, bodyDeclared, bodyRead>>
      /\ bodyBuffer = bodyArrived /\ bodyRead = <<>> /\ bodyScope = "http"
      /\ bodyBytes = SizeOf(bodyArrived)
      /\ \A i \in 1..Len(bodyArrived) : ~Ends(bodyArrived[i])
      /\ SizeOf(bodyBuffer) <= MaxBytes
  BY DEF BodyReceives, Delivered, BodyInv, BodyStages, Buffering
<1>2. /\ SizeOf(bodyArrived') = SizeOf(bodyArrived) + m.size
      /\ SizeOf(bodyArrived) \in Nat /\ m.size \in Nat
  BY <1>1, SizeOfAppend DEF BodyInv, BodyTypes
<1>3. bodyArrived \in Seq(Messages) /\ bodyArrived' \in Seq(Messages) /\ Len(bodyArrived) \in Nat
  BY <1>1 DEF BodyInv, BodyTypes
<1>4. /\ Len(bodyArrived') = Len(bodyArrived) + 1
      /\ bodyArrived'[Len(bodyArrived')] = m
      /\ \A i \in 1..Len(bodyArrived) : ~Ends(bodyArrived'[i])
  BY <1>1, <1>3
<1>5. ~Ends(m) => \A i \in 1..Len(bodyArrived') : ~Ends(bodyArrived'[i])
  BY <1>3, <1>4
<1>6. MaxBytes \in Nat
  BY BodyAssumption
<1>7. m.type \in {"http.disconnect", "other", "http.request"}
  BY DEF Messages, Chunks, Message
<1>8. CASE m.type = "http.disconnect"
  <2>1. bodyAt' = "dropped" /\ UNCHANGED <<bodyBuffer, bodyBytes>>
    BY <1>8 DEF BodyReceives
  <2>2. BodyTypes'
    BY <1>1, <1>3, <2>1 DEF BodyInv, BodyTypes
  <2> QED BY <1>1, <2>1, <2>2 DEF BodyInv, BodyStages
<1>9. CASE m.type = "other"
  <2>1. bodyBuffer' = Append(bodyBuffer, m) /\ UNCHANGED <<bodyAt, bodyBytes>>
    BY <1>9 DEF BodyReceives
  <2>2. m.size = 0 /\ ~Ends(m)
    BY <1>9 DEF Messages, Chunks, Message, Ends
  <2>3. BodyTypes'
    BY <1>1, <1>3, <2>1 DEF BodyInv, BodyTypes
  <2>4. bodyBuffer' = bodyArrived' /\ SizeOf(bodyArrived') = SizeOf(bodyArrived)
    BY <1>1, <1>2, <2>1, <2>2
  <2>5. Buffering'
    BY <1>1, <1>5, <2>1, <2>2, <2>4 DEF Buffering
  <2> QED BY <1>1, <2>1, <2>3, <2>4, <2>5 DEF BodyInv, BodyStages
<1>10. CASE m.type = "http.request"
  <2>1. /\ bodyBytes' = bodyBytes + m.size
        /\ IF bodyBytes' > MaxBytes
           THEN bodyAt' = "refused" /\ UNCHANGED bodyBuffer
           ELSE /\ bodyBuffer' = Append(bodyBuffer, m)
                /\ bodyAt' = IF m.more THEN "buffering" ELSE "app"
    BY <1>10 DEF BodyReceives, ReceivedBytes
  <2>2. bodyBytes' = SizeOf(bodyArrived') /\ bodyBytes' \in Nat
    BY <1>1, <1>2, <2>1
  <2>3. CASE bodyBytes' > MaxBytes
    <3>1. bodyAt' = "refused" /\ UNCHANGED bodyBuffer
      BY <2>1, <2>3
    <3>2. BodyTypes'
      BY <1>1, <1>3, <2>2, <3>1 DEF BodyInv, BodyTypes
    <3> QED BY <1>1, <2>2, <2>3, <3>1, <3>2 DEF BodyInv, BodyStages
  <2>4. CASE ~(bodyBytes' > MaxBytes) /\ m.more
    <3>1. bodyBuffer' = Append(bodyBuffer, m) /\ bodyAt' = "buffering"
      BY <2>1, <2>4
    <3>2. BodyTypes'
      BY <1>1, <1>3, <2>2, <3>1 DEF BodyInv, BodyTypes
    <3>3. bodyBuffer' = bodyArrived' /\ ~Ends(m)
      BY <1>1, <2>4, <3>1 DEF Ends
    <3>4. Buffering'
      BY <1>1, <1>5, <2>2, <3>3 DEF Buffering
    <3>5. SizeOf(bodyBuffer') <= MaxBytes
      BY <1>6, <2>2, <2>4, <3>3
    <3> QED BY <1>1, <3>1, <3>2, <3>4, <3>5 DEF BodyInv, BodyStages
  <2>5. CASE ~(bodyBytes' > MaxBytes) /\ ~m.more
    <3>1. bodyBuffer' = Append(bodyBuffer, m) /\ bodyAt' = "app"
      BY <2>1, <2>5
    <3>2. BodyTypes'
      BY <1>1, <1>3, <2>2, <3>1 DEF BodyInv, BodyTypes
    <3>3. bodyBuffer' = bodyArrived' /\ Ends(m)
      BY <1>1, <1>10, <2>5, <3>1 DEF Ends
    <3>4. SizeOf(bodyBuffer') <= MaxBytes
      BY <1>6, <2>2, <2>5, <3>3
    <3>5. EndsAt(Len(bodyArrived))'
      <4>1. SubSeq(bodyArrived', 1, Len(bodyArrived')) = bodyArrived'
        BY <1>3
      <4>2. /\ Len(bodyArrived') \in 1..Len(bodyArrived')
            /\ Len(bodyArrived') - 1 = Len(bodyArrived)
        BY <1>3, <1>4
      <4> QED BY <1>4, <3>3, <3>4, <4>1, <4>2 DEF EndsAt
    <3>6. PassingOn'
      <4>1. Len(bodyArrived') \in Nat
        BY <1>3
      <4>2. bodyRead' \o bodyBuffer' = bodyArrived'
        BY <1>1, <1>3, <3>3
      <4>3. \E k \in Nat : EndsAt(k)'
        BY <3>5, <4>1 DEF EndsAt
      <4> QED BY <4>2, <4>3 DEF PassingOn
    <3> QED BY <3>1, <3>2, <3>4, <3>6 DEF BodyInv, BodyStages
  <2> QED BY <2>3, <2>4, <2>5
<1> QED BY <1>7, <1>8, <1>9, <1>10

LEMMA BufferPasses == ASSUME BodyInv, AppReadsBuffer PROVE BodyInv'
<1>1. /\ bodyAt = "app" /\ bodyBuffer # <<>>
      /\ bodyRead' = Append(bodyRead, Head(bodyBuffer))
      /\ bodyBuffer' = Tail(bodyBuffer)
      /\ UNCHANGED <<bodyAt, bodyScope, bodyDeclared, bodyArrived, bodyBytes>>
  BY DEF AppReadsBuffer
<1>2. bodyRead \in Seq(Messages) /\ bodyBuffer \in Seq(Messages)
  BY DEF BodyInv, BodyTypes
<1>3. bodyRead' \in Seq(Messages) /\ bodyBuffer' \in Seq(Messages)
  BY <1>1, <1>2
<1>4. BodyTypes'
  BY <1>1, <1>3 DEF BodyInv, BodyTypes
<1>5. bodyRead' \o bodyBuffer' = bodyRead \o bodyBuffer
  BY <1>1, <1>2
<1>6. SizeOf(bodyBuffer') <= MaxBytes
  <2>1. SizeOf(bodyBuffer') <= SizeOf(bodyBuffer) /\ SizeOf(bodyBuffer') \in Nat /\ SizeOf(bodyBuffer) \in Nat
    BY <1>1, <1>2, SizeOfTail
  <2> QED BY <2>1, BodyAssumption DEF BodyInv, BodyStages
<1>7. PassingOn'
  BY <1>1, <1>5 DEF BodyInv, BodyStages, PassingOn, EndsAt
<1> QED BY <1>1, <1>4, <1>6, <1>7 DEF BodyInv, BodyStages

LEMMA ServerPasses ==
  ASSUME BodyInv, NEW m \in Messages, AppReadsServer(m)
  PROVE  BodyInv'
<1>1. /\ bodyAt = "app" /\ bodyBuffer = <<>>
      /\ bodyArrived' = Append(bodyArrived, m) /\ bodyRead' = Append(bodyRead, m)
      /\ UNCHANGED <<bodyAt, bodyScope, bodyDeclared, bodyBuffer, bodyBytes>>
  BY DEF AppReadsServer, Delivered
<1>2. bodyRead \in Seq(Messages) /\ bodyArrived \in Seq(Messages)
  BY DEF BodyInv, BodyTypes
<1>3. bodyRead' \in Seq(Messages) /\ bodyArrived' \in Seq(Messages)
  BY <1>1, <1>2
<1>4. BodyTypes'
  BY <1>1, <1>3 DEF BodyInv, BodyTypes
<1>5. bodyRead' \o bodyBuffer' = bodyArrived'
  <2>1. bodyRead = bodyArrived
    <3>1. bodyRead \o <<>> = bodyArrived
      BY <1>1 DEF BodyInv, BodyStages, PassingOn
    <3> QED BY <1>2, <3>1
  <2> QED BY <1>1, <1>2, <1>3, <2>1
<1>6. ASSUME NEW k \in Nat, EndsAt(k) PROVE EndsAt(k)'
  <2>1. /\ k \in 1..Len(bodyArrived) /\ Len(bodyArrived') = Len(bodyArrived) + 1
        /\ Len(bodyArrived) \in Nat
    BY <1>1, <1>2, <1>6 DEF EndsAt
  <2>2. \A i \in 1..k : bodyArrived'[i] = bodyArrived[i]
    BY <1>1, <1>2, <2>1
  <2>3. SubSeq(bodyArrived', 1, k) = SubSeq(bodyArrived, 1, k)
    BY <1>2, <1>3, <2>1, <2>2
  <2>4. k \in 1..Len(bodyArrived')
    BY <2>1
  <2>5. k \in 1..k /\ \A i \in 1..(k - 1) : i \in 1..k
    BY <2>1
  <2>6. Ends(bodyArrived'[k]) /\ \A i \in 1..(k - 1) : ~Ends(bodyArrived'[i])
    BY <1>6, <2>2, <2>5 DEF EndsAt
  <2> QED BY <1>6, <2>3, <2>4, <2>6 DEF EndsAt
<1>7. PassingOn'
  BY <1>1, <1>5, <1>6 DEF BodyInv, BodyStages, PassingOn
<1> QED BY <1>1, <1>4, <1>7 DEF BodyInv, BodyStages

LEMMA BodyHolds == BodySpec => []BodyInv
<1>1. BodyInit => BodyInv
  <2> SUFFICES ASSUME BodyInit PROVE BodyInv
    OBVIOUS
  <2>1. <<>> \in Seq(Messages)
    OBVIOUS
  <2>2. BodyTypes
    BY <2>1, BodyAssumption DEF BodyInit, BodyTypes, NoLength
  <2>3. BodyStages
    BY SizeOfNothing, BodyAssumption DEF BodyInit, BodyStages, NothingYet
  <2> QED BY <2>2, <2>3 DEF BodyInv
<1>2. BodyInv /\ [BodyNext]_bodyVars => BodyInv'
  <2> SUFFICES ASSUME BodyInv, [BodyNext]_bodyVars PROVE BodyInv'
    OBVIOUS
  <2>1. ASSUME NEW m \in Messages, BodyReceives(m) \/ AppReadsServer(m) PROVE BodyInv'
    BY <2>1, ReceivesPasses, ServerPasses
  <2>2. CASE UNCHANGED bodyVars
    <3>1. UNCHANGED <<bodyAt, bodyScope, bodyDeclared, bodyArrived, bodyBuffer, bodyBytes, bodyRead>>
      BY <2>2 DEF bodyVars
    <3> QED BY <3>1 DEF BodyInv, BodyTypes, BodyStages, NothingYet, Buffering, PassingOn, EndsAt
  <2> QED BY <2>1, <2>2, StartPasses, BufferPasses DEF BodyNext
<1> QED BY <1>1, <1>2, PTL DEF BodySpec

\* The types, as far as the invariant leaves them open: a length is a length, and one
\* message more than the buffer holds is counted at most.
LEMMA BodyTyped == BodySpec => []BodyTypeOK
<1>1. BodyInit => BodyTypeOK
  BY BodyAssumption, EmptySeq DEF BodyInit, BodyTypeOK, NoLength, Sizes
<1>2. BodyInv /\ BodyInv' /\ BodyTypeOK /\ [BodyNext]_bodyVars => BodyTypeOK'
  <2> SUFFICES ASSUME BodyInv, BodyInv', BodyTypeOK, [BodyNext]_bodyVars PROVE BodyTypeOK'
    OBVIOUS
  <2>1. /\ BodyTypes' /\ bodyAt' \in {"none", "buffering", "app", "refused", "dropped"}
        /\ Len(bodyArrived) <= MaxMessages /\ bodyBytes \in 0..(2 * MaxBytes + 1)
        /\ bodyDeclared \in Sizes \cup {NoLength}
        /\ MaxBytes \in Nat /\ MaxMessages \in Nat
    BY BodyAssumption DEF BodyInv, BodyStages, BodyTypeOK
  <2>2. Len(bodyArrived') <= MaxMessages
    <3>1. CASE UNCHANGED bodyArrived
      BY <2>1, <3>1
    <3>2. ASSUME NEW m \in Messages, Delivered(m) PROVE Len(bodyArrived') <= MaxMessages
      <4>1. Len(bodyArrived') = Len(bodyArrived) + 1 /\ Len(bodyArrived) \in Nat
        BY <3>2 DEF Delivered, BodyInv, BodyTypes
      <4> QED BY <2>1, <3>2, <4>1 DEF Delivered
    <3> QED BY <3>1, <3>2 DEF BodyNext, BodyStart, BodyReceives, AppReadsServer,
                              AppReadsBuffer, bodyVars
  <2>3. bodyBytes' \in 0..(2 * MaxBytes + 1)
    <3>1. CASE UNCHANGED bodyBytes
      BY <2>1, <3>1
    <3>2. ASSUME NEW m \in Messages, BodyReceives(m), bodyBytes' = bodyBytes + m.size
          PROVE  bodyBytes' \in 0..(2 * MaxBytes + 1)
      <4>1. bodyBytes <= MaxBytes /\ bodyBytes \in Nat
        BY <3>2 DEF BodyReceives, BodyInv, BodyTypes, BodyStages, Buffering
      <4>2. m.size \in 0..(MaxBytes + 1)
        BY <2>1 DEF Messages, Chunks, Sizes, Message
      <4> QED BY <2>1, <3>2, <4>1, <4>2
    <3> QED BY <3>1, <3>2 DEF BodyNext, BodyStart, BodyReceives, ReceivedBytes,
                              AppReadsServer, AppReadsBuffer, bodyVars
  <2>4. bodyDeclared' \in Sizes \cup {NoLength}
    <3>1. CASE UNCHANGED bodyDeclared
      BY <2>1, <3>1
    <3>2. CASE BodyStart
      BY <3>2, LengthDeclared DEF BodyStart
    <3> QED BY <3>1, <3>2 DEF BodyNext, BodyReceives, AppReadsServer, AppReadsBuffer, bodyVars
  <2> QED BY <2>1, <2>2, <2>3, <2>4 DEF BodyTypes, BodyTypeOK
<1> QED BY <1>1, <1>2, BodyHolds, PTL DEF BodySpec

\* Whatever the server delivers in whatever order, the middleware holds no more than
\* its limit and passes every message on once and in order, for any limit.
THEOREM BodyAlwaysPassedOn == BodySpec => []BodyPassedOn
BY BodyHolds, BodyIsPassedOn, PTL

-----------------------------------------------------------------------------
(* The client's address.  The header is what the client has claimed, its   *)
(* own address as the first proxy saw it, and proxies.                     *)

AddressTypes ==
  /\ addrAt \in {"none", "sent", "resolved"}
  /\ addrClaim \in Seq(Entries) /\ addrHeader \in Seq(Entries)
  /\ addrOrigin \in Entries /\ addrPeer \in Entries
  /\ addrHops \in 0..MaxProxies

OnItsWay ==
  /\ Len(addrHeader) = Len(addrClaim) + addrHops
  /\ \A i \in 1..Len(addrClaim) : addrHeader[i] = addrClaim[i]
  /\ addrHops = 0 => addrPeer = addrOrigin
  /\ addrHops > 0 =>
       /\ addrPeer \in Proxies
       /\ addrHeader[Len(addrClaim) + 1] = addrOrigin
       /\ \A i \in (Len(addrClaim) + 2)..Len(addrHeader) : addrHeader[i] \in Proxies

AddressInv ==
  /\ AddressTypes
  /\ addrAt = "none" => addrHops = 0
  /\ addrAt # "none" => OnItsWay
  /\ addrAt = "resolved" => addrKey = ResolveClient(addrPeer, addrHeader)

LEMMA BoundsAreNumbers == MaxHops \in Nat /\ MaxClaimed \in Nat /\ MaxProxies \in Nat
<1>1. {MaxHops, MaxClaimed, MaxProxies} \subseteq Nat
  BY AddressAssumption
<1> QED BY <1>1

LEMMA NearestIs ==
  ASSUME NEW header, NEW n \in 1..Len(header), Len(header) \in Nat,
         ~Trusted(header[n]), \A i \in (n + 1)..Len(header) : Trusted(header[i])
  PROVE  Nearest(header) = n
<1> DEFINE I == {i \in 1..Len(header) : ~Trusted(header[i])}
<1>1. n \in I /\ I \subseteq 1..Len(header)
  OBVIOUS
<1>2. \A i \in I : n >= i
  <2> SUFFICES ASSUME NEW i \in 1..Len(header), ~Trusted(header[i]), ~(n >= i) PROVE FALSE
    OBVIOUS
  <2>1. i \in (n + 1)..Len(header)
    OBVIOUS
  <2> QED BY <2>1
<1>3. Nearest(header) = Max(I)
  BY <1>1 DEF Nearest, SelectLastInSeq
<1> HIDE DEF I
<1>4. \A m \in I : (\A i \in I : m >= i) => m = n
  BY <1>1, <1>2
<1>5. Max(I) = n
  BY <1>1, <1>2, <1>4 DEF Max
<1> QED BY <1>3, <1>5

LEMMA AddressStep == AddressInv /\ [AddressNext]_addrVars => AddressInv'
<1> SUFFICES ASSUME AddressInv, [AddressNext]_addrVars PROVE AddressInv'
  OBVIOUS
<1> USE DEF AddressInv
<1>1. CASE Connect
  <2>1. addrClaim' \in Seq(Entries)
    <3>1. PICK m \in 0..MaxClaimed : addrClaim' \in [1..m -> Entries]
      BY <1>1 DEF Connect, BoundedSeq, SeqOf
    <3>2. m \in Nat
      BY BoundsAreNumbers
    <3> QED BY <3>1, <3>2, SeqDef
  <2>2. Len(addrClaim') \in Nat
    BY <2>1, LenProperties
  <2>3. /\ addrAt = "none" /\ addrAt' = "sent" /\ addrHops' = addrHops
        /\ addrHeader' = addrClaim' /\ addrPeer' = addrOrigin' /\ addrOrigin' \in Entries
    BY <1>1 DEF Connect
  <2> QED BY <2>1, <2>2, <2>3 DEF AddressTypes, OnItsWay
<1>2. ASSUME NEW p \in Proxies, Forward(p) PROVE AddressInv'
  <2>1. /\ addrAt = "sent" /\ addrAt' = "sent" /\ addrHops' = addrHops + 1
        /\ addrHeader' = Append(addrHeader, addrPeer) /\ addrPeer' = p
        /\ UNCHANGED <<addrOrigin, addrClaim>>
    BY <1>2 DEF Forward
  <2> DEFINE n == Len(addrHeader)
             m == Len(addrClaim)
  <2>2. n \in Nat /\ m \in Nat /\ addrHops \in Nat /\ addrHops' \in 0..MaxProxies
    BY <1>2, LenProperties, BoundsAreNumbers DEF AddressTypes, Forward
  <2>3. /\ addrHeader' \in Seq(Entries) /\ Len(addrHeader') = n + 1
        /\ \A i \in 1..n : addrHeader'[i] = addrHeader[i]
        /\ addrHeader'[n + 1] = addrPeer
    BY <2>1, AppendProperties DEF AddressTypes
  <2>4. p \in Entries
    BY DEF Entries, Addresses
  <2>5. AddressTypes'
    BY <2>1, <2>2, <2>3, <2>4 DEF AddressTypes
  <2> HIDE DEF n, m
  <2>6. n = m + addrHops /\ \A i \in 1..m : addrHeader[i] = addrClaim[i]
    BY <2>1 DEF OnItsWay, n, m
  <2>7. /\ Len(addrHeader') = m + addrHops' /\ addrHops' > 0
        /\ \A i \in 1..m : addrHeader'[i] = addrClaim[i]
    BY <2>1, <2>2, <2>3, <2>6
  <2>8. addrHeader'[m + 1] = addrOrigin /\ \A i \in (m + 2)..(n + 1) : addrHeader'[i] \in Proxies
    <3>1. CASE addrHops = 0
      <4>1. addrPeer = addrOrigin /\ n = m
        BY <2>1, <2>2, <2>6, <3>1 DEF OnItsWay
      <4> QED BY <2>2, <2>3, <4>1
    <3>2. CASE addrHops > 0
      <4>1. /\ addrPeer \in Proxies /\ addrHeader[m + 1] = addrOrigin
            /\ \A i \in (m + 2)..n : addrHeader[i] \in Proxies
        BY <2>1, <3>2 DEF OnItsWay, n, m
      <4>2. m + 1 \in 1..n
        BY <2>2, <2>6, <3>2
      <4>3. \A i \in (m + 2)..(n + 1) : i = n + 1 \/ (i \in (m + 2)..n /\ i \in 1..n)
        BY <2>2
      <4> QED BY <2>3, <4>1, <4>2, <4>3
    <3> QED BY <2>2, <3>1, <3>2
  <2>9. OnItsWay'
    BY <2>1, <2>3, <2>7, <2>8 DEF OnItsWay, m
  <2> QED BY <2>1, <2>5, <2>9
<1>3. CASE Resolve
  <2>1. OnItsWay'
    BY <1>3 DEF Resolve, OnItsWay
  <2> QED BY <1>3, <2>1 DEF Resolve, AddressTypes
<1>4. CASE UNCHANGED addrVars
  BY <1>4 DEF addrVars, AddressTypes, OnItsWay
<1> QED BY <1>1, <1>2, <1>3, <1>4 DEF AddressNext

LEMMA AddressHolds == AddressSpec => []AddressInv
<1>1. AddressInit => AddressInv
  <2>1. <<>> \in Seq(Entries) /\ 0 \in 0..MaxProxies /\ "" \in Entries
    BY BoundsAreNumbers, EmptySeq DEF Entries
  <2> QED BY <2>1 DEF AddressInit, AddressInv, AddressTypes
<1> QED BY <1>1, AddressStep, PTL DEF AddressSpec

\* The key is an address, the socket's own text, or "unknown".
LEMMA ResolvedIsKey ==
  ASSUME NEW peer \in Entries, NEW header \in Seq(Entries)
  PROVE  ResolveClient(peer, header) \in Addresses \cup {"", "junk", "unknown"}
<1>1. CASE peer \notin Addresses
  BY <1>1 DEF ResolveClient, Entries
<1>2. CASE peer \in Addresses /\ Trusted(peer) /\ Usable(header) /\ Nearest(header) > 0
  <2> DEFINE I == {i \in 1..Len(header) : ~Trusted(header[i])}
  <2>1. Len(header) \in Nat /\ DOMAIN header = 1..Len(header)
    BY LenProperties
  <2>2. Nearest(header) = IF I # {} THEN Max(I) ELSE 0
    BY DEF Nearest, SelectLastInSeq
  <2>3. I # {}
    BY <1>2, <2>2
  <2>4. \E m \in I : \A i \in I : m >= i
    BY <2>1, <2>3, Largest
  <2> HIDE DEF I
  <2>5. Max(I) \in I
    BY <2>4 DEF Max
  <2>6. Nearest(header) \in 1..Len(header)
    BY <2>2, <2>3, <2>5 DEF I
  <2>7. header[Nearest(header)] \in Addresses
    BY <1>2, <2>1, <2>6 DEF Usable
  <2> QED BY <1>2, <2>7 DEF ResolveClient
<1>3. CASE peer \in Addresses /\ ~(Trusted(peer) /\ Usable(header) /\ Nearest(header) > 0)
  BY <1>3 DEF ResolveClient
<1> QED BY <1>1, <1>2, <1>3

HeaderFits ==
  /\ Len(addrClaim) <= MaxClaimed
  /\ addrAt # "none" => Len(addrHeader) = Len(addrClaim) + addrHops
  /\ addrAt = "none" => Len(addrHeader) = 0

KeyFits == addrKey \in Addresses \cup {"", "junk", "unknown"}

LEMMA AddressTyped == AddressSpec => []AddressTypeOK
<1>1. AddressInit => HeaderFits /\ KeyFits
  <2> SUFFICES ASSUME AddressInit PROVE HeaderFits /\ KeyFits
    OBVIOUS
  <2>1. Len(addrClaim) = 0 /\ Len(addrHeader) = 0 /\ addrAt = "none"
    BY EmptySeq DEF AddressInit
  <2>2. 0 <= MaxClaimed
    BY BoundsAreNumbers
  <2>3. KeyFits
    BY DEF AddressInit, KeyFits
  <2> QED BY <2>1, <2>2, <2>3 DEF HeaderFits
<1>2. AddressInv /\ AddressInv' /\ HeaderFits /\ [AddressNext]_addrVars => HeaderFits'
  <2> SUFFICES ASSUME AddressInv, AddressInv', HeaderFits, [AddressNext]_addrVars
               PROVE  HeaderFits'
    OBVIOUS
  <2>1. Len(addrClaim') <= MaxClaimed
    <3>1. CASE Connect
      <4>1. PICK m \in 0..MaxClaimed : addrClaim' \in [1..m -> Entries]
        BY <3>1 DEF Connect, BoundedSeq, SeqOf
      <4>2. m \in Nat /\ m <= MaxClaimed
        BY BoundsAreNumbers
      <4>3. Len(addrClaim') = m
        <5>1. addrClaim' \in Seq(Entries) /\ DOMAIN addrClaim' = 1..m
          BY <4>1 DEF AddressInv, AddressTypes
        <5>2. Len(addrClaim') \in Nat /\ 1..Len(addrClaim') = 1..m
          BY <5>1, LenProperties
        <5> QED BY <4>2, <5>2
      <4> QED BY <4>2, <4>3
    <3>2. CASE UNCHANGED addrClaim
      BY <3>2 DEF HeaderFits
    <3> QED BY <3>1, <3>2 DEF AddressNext, Forward, Resolve, addrVars
  <2>2. addrAt' # "none" => Len(addrHeader') = Len(addrClaim') + addrHops'
    BY DEF AddressInv, OnItsWay
  <2>3. addrAt' = "none" => Len(addrHeader') = 0
    BY DEF AddressNext, Connect, Forward, Resolve, addrVars, HeaderFits
  <2> QED BY <2>1, <2>2, <2>3 DEF HeaderFits
<1>3. AddressInv /\ KeyFits /\ [AddressNext]_addrVars => KeyFits'
  <2> SUFFICES ASSUME AddressInv, KeyFits, [AddressNext]_addrVars PROVE KeyFits'
    OBVIOUS
  <2>1. CASE Resolve
    BY <2>1, ResolvedIsKey DEF Resolve, AddressInv, AddressTypes, KeyFits
  <2>2. CASE UNCHANGED addrKey
    BY <2>2 DEF KeyFits
  <2> QED BY <2>1, <2>2 DEF AddressNext, Connect, Forward, addrVars
<1>4. AddressInv /\ HeaderFits /\ KeyFits => AddressTypeOK
  <2> SUFFICES ASSUME AddressInv, HeaderFits, KeyFits PROVE AddressTypeOK
    OBVIOUS
  <2>1. Len(addrHeader) <= MaxClaimed + MaxProxies
    <3>1. Len(addrClaim) \in Nat /\ addrHops \in 0..MaxProxies
      BY LenProperties DEF AddressInv, AddressTypes
    <3>2. Len(addrClaim) <= MaxClaimed
      BY DEF HeaderFits
    <3>3. /\ Len(addrClaim) + addrHops <= MaxClaimed + MaxProxies
          /\ 0 <= MaxClaimed + MaxProxies
      BY <3>1, <3>2, BoundsAreNumbers
    <3> QED BY <3>3 DEF HeaderFits
  <2> QED BY <2>1 DEF AddressInv, AddressTypes, AddressTypeOK, KeyFits
<1> QED BY <1>1, <1>2, <1>3, <1>4, AddressHolds, PTL DEF AddressSpec

\* No header makes a client pass for another: it is counted under its own address,
\* or, if its own header has made the chain unusable, under the last proxy's.
THEOREM KeyAlwaysTheClients == AddressSpec => []KeyIsTheClients
<1>1. AddressInv => KeyIsTheClients
  <2> SUFFICES ASSUME AddressInv, addrAt = "resolved", addrOrigin \in Clients
               PROVE  \/ addrKey = addrOrigin
                      \/ /\ addrHops > 0 /\ addrKey = addrPeer
                         /\ \/ Len(addrClaim) + addrHops > MaxHops
                            \/ \E i \in DOMAIN addrClaim : addrClaim[i] \notin Addresses
    BY DEF KeyIsTheClients
  <2> DEFINE n == Len(addrHeader)
             m == Len(addrClaim)
  <2>1. /\ n \in Nat /\ m \in Nat /\ addrHops \in Nat /\ MaxHops \in Nat
        /\ DOMAIN addrHeader = 1..n /\ DOMAIN addrClaim = 1..m
    BY LenProperties, BoundsAreNumbers DEF AddressInv, AddressTypes
  <2>2. OnItsWay /\ addrKey = ResolveClient(addrPeer, addrHeader)
    BY DEF AddressInv
  <2>3. ~Trusted(addrOrigin) /\ addrOrigin \in Addresses
    BY AddressAssumption DEF Trusted, Addresses
  <2>4. CASE addrHops = 0
    BY <2>2, <2>3, <2>4 DEF OnItsWay, ResolveClient
  <2>5. CASE addrHops > 0
    <3>1. /\ addrPeer \in Proxies /\ addrHeader[m + 1] = addrOrigin
          /\ \A i \in (m + 2)..n : addrHeader[i] \in Proxies
          /\ \A i \in 1..m : addrHeader[i] = addrClaim[i]
          /\ n = m + addrHops
      BY <2>2, <2>5 DEF OnItsWay
    <3>2. addrPeer \in Addresses /\ Trusted(addrPeer) /\ Proxies \subseteq Addresses
      BY <3>1 DEF Trusted, Addresses
    <3> HIDE DEF n, m
    <3>3. m + 1 \in 1..n /\ m + 1 > 0
      BY <2>1, <2>5, <3>1
    <3>4. CASE Usable(addrHeader)
      <4>1. \A i \in (m + 1 + 1)..n : Trusted(addrHeader[i])
        BY <2>1, <3>1 DEF Trusted
      <4>2. Nearest(addrHeader) = m + 1
        <5> USE DEF n
        <5>1. m + 1 \in 1..Len(addrHeader) /\ Len(addrHeader) \in Nat /\ ~Trusted(addrHeader[m + 1])
          BY <2>1, <2>3, <3>1, <3>3
        <5> QED BY <4>1, <5>1, NearestIs
      <4> QED BY <2>2, <3>1, <3>2, <3>3, <3>4, <4>2 DEF ResolveClient
    <3>5. CASE ~Usable(addrHeader)
      <4>1. addrKey = addrPeer
        BY <2>2, <3>2, <3>5 DEF ResolveClient
      <4>2. CASE ~(n \in 1..MaxHops)
        BY <2>1, <2>5, <3>1, <3>3, <4>1, <4>2 DEF m
      <4>3. CASE n \in 1..MaxHops
        <5>1. PICK i \in 1..n : addrHeader[i] \notin Addresses
          BY <2>1, <3>5, <4>3 DEF Usable, n
        <5>2. i # m + 1 /\ i \notin (m + 2)..n
          BY <2>3, <3>1, <3>2, <5>1
        <5>3. i \in 1..m
          BY <2>1, <5>2
        <5> QED BY <2>1, <2>5, <3>1, <4>1, <5>1, <5>3
      <4> QED BY <4>2, <4>3
    <3> QED BY <3>4, <3>5
  <2> QED BY <2>1, <2>4, <2>5
<1> QED BY <1>1, AddressHolds, PTL

-----------------------------------------------------------------------------
(* Intake: the inductive invariant.                                        *)

\* A lead's bucket is that of the day of its submission; until it is answered, a
\* submission is not abandoned.
SubmissionShape ==
  \A s \in Submissions :
    /\ stage[s] # "none" => /\ lead[s] \in Leads
                            /\ lead[s][2] = BucketOf(submittedOn[s])
    /\ stage[s] # "done" => answer[s] = Pending
    /\ s \in late => stage[s] = "done"

\* A row is the submitted lead's own, and its insert is over.
RowShape ==
  \A l \in Leads :
    storedBy[l] # Nobody =>
      /\ stage[storedBy[l]] = "done" /\ storedBy[l] \notin late
      /\ lead[storedBy[l]] = l

\* AnswersAgree without the days, which follow.
AnswerIsRow ==
  \A s \in Submissions :
    Accepted(s) => /\ stage[s] = "done"
                   /\ storedBy[lead[s]] \in Submissions
                   /\ answer[s].row = storedBy[lead[s]]

IntakeInv == TypeOK /\ SubmissionShape /\ RowShape /\ AnswerIsRow

-----------------------------------------------------------------------------
(* Days and buckets.                                                       *)

\* A bucket begins on or before its days, which are less than a window away.
LEMMA BucketBounds ==
  ASSUME NEW day \in Nat
  PROVE  /\ BucketOf(day) \in Nat
         /\ BucketOf(day) <= day /\ day < BucketOf(day) + Window
<1>1. Window \in Nat \ {0}
  BY WindowAssumption
<1>2. day \div Window \in Nat
  BY <1>1
<1>3. /\ day = Window * (day \div Window) + (day % Window)
      /\ day % Window \in 0..(Window - 1)
  BY <1>1
<1> QED
  BY <1>1, <1>2, <1>3 DEF BucketOf

LEMMA SameBucket ==
  ASSUME NEW a \in Nat, NEW b \in Nat, BucketOf(a) = BucketOf(b)
  PROVE  a - b < Window /\ b - a < Window
<1>1. Window \in Nat
  BY WindowAssumption
<1> QED
  BY <1>1, BucketBounds

LEMMA LeadOfSubmission ==
  ASSUME NEW k \in Keys, NEW day \in 0..LastDay
  PROVE  <<k, BucketOf(day)>> \in Leads
BY DEF Leads

-----------------------------------------------------------------------------
(* The invariant holds.                                                    *)

LEMMA IntakeInit == Init => IntakeInv
<1> SUFFICES ASSUME Init PROVE IntakeInv
  OBVIOUS
<1>1. TypeOK
  BY BoundsAssumption DEF Init, TypeOK, Pending, Answers
<1>2. SubmissionShape
  BY DEF Init, SubmissionShape
<1>3. RowShape
  BY DEF Init, RowShape
<1>4. AnswerIsRow
  BY DEF Init, AnswerIsRow, Accepted, Pending
<1> QED BY <1>1, <1>2, <1>3, <1>4 DEF IntakeInv

\* A step that answers s and changes neither rows nor leads.
LEMMA RespondKeeps ==
  ASSUME IntakeInv, NEW s \in Submissions, NEW what \in Answers,
         stage[s] \in {"finding", "inserting", "finding again"},
         Respond(s, what),
         what = Refused \/ (what.row = storedBy[lead[s]] /\ what.row # Nobody),
         late' \in SUBSET (late \cup {s}),
         UNCHANGED <<today, storedBy, lead, submittedOn>>
  PROVE  IntakeInv'
<1> USE DEF IntakeInv
<1>1. TypeOK'
  BY DEF TypeOK, Respond
<1>2. SubmissionShape'
  BY <1>1 DEF SubmissionShape, TypeOK, Respond, Pending, BucketOf
<1>3. RowShape'
  <2> SUFFICES ASSUME NEW l \in Leads, storedBy[l] # Nobody
               PROVE  /\ stage'[storedBy[l]] = "done" /\ storedBy[l] \notin late'
                      /\ lead[storedBy[l]] = l
    BY DEF RowShape
  <2>1. storedBy[l] \in Submissions
    BY DEF TypeOK
  <2>2. /\ stage[storedBy[l]] = "done"
        /\ storedBy[l] \notin late /\ lead[storedBy[l]] = l
    BY DEF RowShape
  <2>3. storedBy[l] # s
    BY <2>2
  <2> QED BY <2>1, <2>2, <2>3 DEF Respond, TypeOK
<1>4. AnswerIsRow'
  <2> SUFFICES ASSUME NEW t \in Submissions, Accepted(t)'
               PROVE  /\ stage'[t] = "done"
                      /\ storedBy'[lead'[t]] \in Submissions
                      /\ answer'[t].row = storedBy'[lead'[t]]
    BY DEF AnswerIsRow
  <2>1. CASE t = s
    <3>1. answer'[t] = what
      BY <2>1 DEF Respond, TypeOK
    <3>2. what # Refused
      <4>1. what.kind \in {"created", "duplicate"}
        BY <3>1 DEF Accepted
      <4>2. Refused.kind = "refused"
        BY DEF Refused
      <4> QED BY <4>1, <4>2
    <3>3. lead[s] \in Leads /\ storedBy[lead[s]] \in Submissions
      BY <3>2 DEF SubmissionShape, TypeOK
    <3> QED
      BY <2>1, <3>1, <3>2, <3>3 DEF Respond, TypeOK
  <2>2. CASE t # s
    BY <2>2 DEF AnswerIsRow, Accepted, Respond, TypeOK
  <2> QED BY <2>1, <2>2
<1> QED BY <1>1, <1>2, <1>3, <1>4

\* A step that only moves an unanswered submission on.
LEMMA MoveKeeps ==
  ASSUME IntakeInv, NEW s \in Submissions, NEW where \in {"inserting", "finding again"},
         stage[s] \in {"finding", "inserting"},
         stage' = [stage EXCEPT ![s] = where],
         UNCHANGED <<today, storedBy, lead, answer, late, submittedOn>>
  PROVE  IntakeInv'
<1> USE DEF IntakeInv
<1>1. TypeOK'
  BY DEF TypeOK
<1>2. SubmissionShape'
  BY DEF SubmissionShape, TypeOK, BucketOf
<1>3. RowShape'
  BY DEF RowShape, TypeOK
<1>4. AnswerIsRow'
  BY DEF AnswerIsRow, Accepted, SubmissionShape, TypeOK
<1> QED BY <1>1, <1>2, <1>3, <1>4

\* A step that stores the row of s, whose insert is over with it.
LEMMA StoreKeeps ==
  ASSUME IntakeInv, NEW s \in Submissions,
         stage[s] # "none", storedBy[lead[s]] = Nobody,
         storedBy' = [storedBy EXCEPT ![lead[s]] = s],
         stage' \in {stage, [stage EXCEPT ![s] = "done"]},
         stage'[s] = "done", late' \in SUBSET late, s \notin late',
         \/ answer' = [answer EXCEPT ![s] = [kind |-> "created", row |-> s]]
         \/ answer' = [answer EXCEPT ![s] = Refused]
         \/ UNCHANGED <<answer, stage>> /\ ~Accepted(s),
         UNCHANGED <<today, lead, submittedOn>>
  PROVE  IntakeInv'
<1> USE DEF IntakeInv
<1>1. TypeOK'
  <2>1. /\ [kind |-> "created", row |-> s] \in Answers
        /\ Refused \in Answers
    BY DEF Answers, Refused
  <2>2. answer' \in [Submissions -> Answers]
    BY <2>1 DEF TypeOK
  <2>3. stage' \in [Submissions -> {"none", "finding", "inserting", "finding again", "done"}]
    BY DEF TypeOK
  <2> QED BY <2>2, <2>3 DEF TypeOK
<1>2. SubmissionShape'
  <2> SUFFICES ASSUME NEW t \in Submissions
               PROVE  /\ stage'[t] # "none" =>
                           /\ lead[t] \in Leads
                           /\ lead[t][2] = BucketOf(submittedOn[t])
                      /\ stage'[t] # "done" => answer'[t] = Pending
                      /\ t \in late' => stage'[t] = "done"
    BY DEF SubmissionShape, BucketOf
  <2>1. CASE t = s
    BY <2>1 DEF SubmissionShape, TypeOK
  <2>2. CASE t # s
    BY <2>2 DEF SubmissionShape, TypeOK
  <2> QED BY <2>1, <2>2
<1>3. RowShape'
  <2> SUFFICES ASSUME NEW l \in Leads, storedBy'[l] # Nobody
               PROVE  /\ stage'[storedBy'[l]] = "done" /\ storedBy'[l] \notin late'
                      /\ lead[storedBy'[l]] = l
    BY DEF RowShape
  <2>1. CASE l = lead[s]
    BY <2>1 DEF TypeOK
  <2>2. CASE l # lead[s]
    <3>1. storedBy'[l] = storedBy[l] /\ storedBy[l] \in Submissions
      BY <2>2 DEF TypeOK
    <3>2. /\ stage[storedBy[l]] = "done" /\ storedBy[l] \notin late
          /\ lead[storedBy[l]] = l
      BY <3>1 DEF RowShape
    <3> QED BY <3>1, <3>2 DEF TypeOK
  <2> QED BY <2>1, <2>2
<1>4. AnswerIsRow'
  <2>0. lead[s] \in Leads
    BY DEF SubmissionShape
  <2> SUFFICES ASSUME NEW t \in Submissions, Accepted(t)'
               PROVE  /\ stage'[t] = "done"
                      /\ storedBy'[lead[t]] \in Submissions
                      /\ answer'[t].row = storedBy'[lead[t]]
    BY DEF AnswerIsRow
  <2>1. CASE t = s
    <3>1. answer'[s].kind \in {"created", "duplicate"}
      BY <2>1 DEF Accepted
    <3>2. answer'[s] # Refused
      BY <3>1 DEF Refused
    <3>3. ~UNCHANGED answer \/ Accepted(s)
      BY <3>1 DEF Accepted
    <3>4. answer' = [answer EXCEPT ![s] = [kind |-> "created", row |-> s]]
      BY <3>2, <3>3 DEF TypeOK
    <3>5. answer'[s].row = s /\ storedBy'[lead[s]] = s
      BY <2>0, <3>4 DEF TypeOK
    <3> QED BY <2>1, <3>5
  <2>2. CASE t # s
    <3>1. Accepted(t) /\ answer'[t] = answer[t]
      BY <2>2 DEF Accepted, TypeOK
    <3>2. /\ stage[t] = "done" /\ storedBy[lead[t]] \in Submissions
          /\ answer[t].row = storedBy[lead[t]]
      BY <3>1 DEF AnswerIsRow
    <3>3. lead[t] # lead[s]
      BY <3>2, NobodyAssumption
    <3> QED
      BY <3>1, <3>2, <3>3 DEF TypeOK, SubmissionShape
  <2> QED BY <2>1, <2>2
<1> QED BY <1>1, <1>2, <1>3, <1>4

LEMMA IntakeNext == IntakeInv /\ [Next]_vars => IntakeInv'
<1> SUFFICES ASSUME IntakeInv, [Next]_vars PROVE IntakeInv'
  OBVIOUS
<1> USE DEF IntakeInv
<1>1. CASE UNCHANGED vars
  BY <1>1 DEF vars, TypeOK, SubmissionShape, RowShape, AnswerIsRow, Accepted, BucketOf
<1>2. CASE NextDay
  <2>0. today \in 0..LastDay
    BY DEF TypeOK
  <2>1. today' \in 0..LastDay
    BY <1>2, <2>0, BoundsAssumption DEF NextDay
  <2> QED
    BY <1>2, <2>1 DEF NextDay, TypeOK, SubmissionShape, RowShape, AnswerIsRow, Accepted,
                      BucketOf
<1>3. ASSUME NEW s \in Submissions, NEW k \in Keys, Submit(s, k)
      PROVE  IntakeInv'
  <2>1. <<k, BucketOf(today)>> \in Leads
    BY LeadOfSubmission DEF TypeOK
  <2>2. TypeOK'
    BY <1>3, <2>1 DEF Submit, TypeOK
  <2>3. SubmissionShape'
    <3> SUFFICES ASSUME NEW t \in Submissions
                 PROVE  /\ stage'[t] # "none" =>
                             /\ lead'[t] \in Leads
                             /\ lead'[t][2] = BucketOf(submittedOn'[t])
                        /\ stage'[t] # "done" => answer'[t] = Pending
                        /\ t \in late' => stage'[t] = "done"
      BY DEF SubmissionShape, BucketOf
    <3>1. CASE t = s
      BY <1>3, <2>1, <3>1 DEF Submit, SubmissionShape, TypeOK
    <3>2. CASE t # s
      BY <1>3, <3>2 DEF Submit, SubmissionShape, TypeOK
    <3> QED BY <3>1, <3>2
  <2>4. RowShape'
    BY <1>3 DEF Submit, RowShape, TypeOK
  <2>5. AnswerIsRow'
    BY <1>3 DEF Submit, AnswerIsRow, Accepted, TypeOK
  <2> QED BY <2>2, <2>3, <2>4, <2>5
<1>4. ASSUME NEW s \in Submissions,
             \/ FindExisting(s) \/ FindNothing(s) \/ FindFails(s)
             \/ Insert(s) \/ InsertConflicts(s) \/ InsertFails(s)
             \/ LateInsert(s)
      PROVE  IntakeInv'
  <2>1. lead[s] \in Leads /\ storedBy[lead[s]] \in Submissions \cup {Nobody}
    BY <1>4 DEF FindExisting, FindNothing, FindFails, Insert, InsertConflicts, InsertFails,
                LateInsert, SubmissionShape, TypeOK
  <2>2. Refused \in Answers
    BY DEF Refused, Answers
  <2>3. CASE FindExisting(s)
    <3> DEFINE found == [kind |-> "duplicate", row |-> storedBy[lead[s]]]
    <3>1. found \in Answers
      BY <2>1 DEF Answers
    <3> QED
      BY <2>3, <3>1, RespondKeeps DEF FindExisting
  <2>4. CASE FindNothing(s)
    BY <2>4, MoveKeeps DEF FindNothing
  <2>5. CASE FindFails(s)
    BY <2>2, <2>5, RespondKeeps DEF FindFails
  <2>6. CASE Insert(s)
    <3>1. s \notin late /\ stage'[s] = "done" /\ stage[s] # "none"
      BY <2>6 DEF Insert, Respond, SubmissionShape, TypeOK
    <3> QED
      BY <2>1, <2>6, <3>1, StoreKeeps DEF Insert, Respond, UniqueInsert
  <2>7. CASE InsertConflicts(s)
    BY <2>7, MoveKeeps DEF InsertConflicts
  <2>8. CASE InsertFails(s)
    BY <2>2, <2>8, RespondKeeps DEF InsertFails
  <2>9. CASE LateInsert(s)
    <3>1. CASE UniqueInsert(s)
      <4>1. stage[s] = "done" /\ ~Accepted(s)
        BY <2>9, <3>1, NobodyAssumption DEF LateInsert, UniqueInsert, SubmissionShape, AnswerIsRow
      <4> QED
        BY <2>1, <2>9, <3>1, <4>1, StoreKeeps DEF LateInsert, UniqueInsert
    <3>2. CASE ~UniqueInsert(s)
      BY <2>9, <3>2 DEF LateInsert, TypeOK, SubmissionShape, RowShape, AnswerIsRow, Accepted,
                        BucketOf
    <3> QED BY <3>1, <3>2
  <2> QED
    BY <1>4, <2>3, <2>4, <2>5, <2>6, <2>7, <2>8, <2>9
<1> QED
  BY <1>1, <1>2, <1>3, <1>4 DEF Next

-----------------------------------------------------------------------------
(* The theorems.                                                           *)

\* Whoever is told that a lead is stored is told of its one row, which was submitted
\* less than a window away.
THEOREM AnswersAlwaysAgree == Spec => []AnswersAgree
<1>1. IntakeInv => AnswersAgree
  <2> SUFFICES ASSUME IntakeInv, NEW s \in Submissions, Accepted(s)
               PROVE  /\ answer[s].row = storedBy[lead[s]]
                      /\ \A days \in Apart(s, answer[s].row) : days < Window
    BY DEF AnswersAgree
  <2> DEFINE t == answer[s].row
  <2>1. /\ stage[s] = "done" /\ t \in Submissions /\ t = storedBy[lead[s]]
    BY DEF IntakeInv, AnswerIsRow
  <2>2. lead[s] \in Leads /\ t # Nobody
    BY <2>1, NobodyAssumption DEF IntakeInv, SubmissionShape
  <2>3. stage[t] = "done" /\ lead[t] = lead[s]
    BY <2>1, <2>2 DEF IntakeInv, RowShape
  <2>4. BucketOf(submittedOn[s]) = BucketOf(submittedOn[t])
    BY <2>1, <2>3 DEF IntakeInv, SubmissionShape
  <2>5. submittedOn[s] \in Nat /\ submittedOn[t] \in Nat
    <3>1. submittedOn[s] \in 0..LastDay /\ submittedOn[t] \in 0..LastDay
      BY <2>1 DEF IntakeInv, TypeOK
    <3> QED BY <3>1, BoundsAssumption
  <2>6. submittedOn[s] - submittedOn[t] < Window /\ submittedOn[t] - submittedOn[s] < Window
    BY <2>4, <2>5, SameBucket
  <2> QED BY <2>1, <2>6 DEF Apart
<1> QED
  BY IntakeInit, IntakeNext, <1>1, PTL DEF Spec

\* An insert of s finds that s has no row.
LEMMA NoRowYet ==
  ASSUME IntakeInv, NEW s \in Submissions, stage[s] # "done" \/ s \in late
  PROVE  \A l \in Leads : storedBy[l] # s
BY NobodyAssumption DEF IntakeInv, RowShape

\* Every step of intake is a step of the abstract store, or none.
LEMMA IntakeRefines == IntakeInv /\ [Next]_vars => [Store!StoreNext]_<<storedBy, answer>>
<1> SUFFICES ASSUME IntakeInv, [Next]_vars
             PROVE  Store!StoreNext \/ UNCHANGED <<storedBy, answer>>
  OBVIOUS
<1> USE DEF IntakeInv
<1>1. CASE UNCHANGED vars \/ NextDay
  BY <1>1 DEF vars, NextDay
<1>2. ASSUME NEW s \in Submissions, NEW k \in Keys, Submit(s, k)
      PROVE  UNCHANGED <<storedBy, answer>>
  BY <1>2 DEF Submit
<1>3. ASSUME NEW s \in Submissions,
             \/ FindExisting(s) \/ FindNothing(s) \/ FindFails(s)
             \/ Insert(s) \/ InsertConflicts(s) \/ InsertFails(s)
             \/ LateInsert(s)
      PROVE  Store!StoreNext \/ UNCHANGED <<storedBy, answer>>
  <2>1. lead[s] \in Leads
    BY <1>3 DEF FindExisting, FindNothing, FindFails, Insert, InsertConflicts, InsertFails,
                LateInsert, SubmissionShape
  <2>2. stage[s] # "done" => answer[s] = Store!Pending
    BY DEF SubmissionShape, Pending, Store!Pending
  <2>3. Refused = Store!Refused
    BY DEF Refused, Store!Refused
  <2>4. CASE FindExisting(s)
    <3>1. stage[s] # "done" /\ storedBy[lead[s]] # Nobody
      BY <2>4 DEF FindExisting
    <3>2. storedBy[lead[s]] # s
      BY <2>1, <3>1, NoRowYet
    <3>3. Store!Accept(lead[s], s)
      BY <2>2, <2>4, <3>1, <3>2 DEF FindExisting, Respond, Store!Accept, Store!Duplicate
    <3> QED BY <2>1, <3>3 DEF Store!StoreNext
  <2>5. CASE FindNothing(s) \/ InsertConflicts(s)
    BY <2>5 DEF FindNothing, InsertConflicts
  <2>6. CASE FindFails(s) \/ InsertFails(s)
    <3>1. stage[s] # "done" /\ Respond(s, Refused) /\ UNCHANGED storedBy
      BY <2>6 DEF FindFails, InsertFails
    <3>2. Store!Refuse(s)
      BY <2>2, <2>3, <3>1 DEF Respond, Store!Refuse
    <3> QED BY <3>2 DEF Store!StoreNext
  <2>7. CASE Insert(s)
    <3>1. stage[s] # "done" /\ storedBy[lead[s]] = Nobody
      BY <2>7 DEF Insert, UniqueInsert
    <3>2. \A l \in Leads : storedBy[l] # s
      BY <3>1, NoRowYet
    <3>3. storedBy' = [storedBy EXCEPT ![lead[s]] = s]
      BY <2>7 DEF Insert
    <3>4. CASE Respond(s, [kind |-> "created", row |-> s])
      <4>1. Store!StoreAndAccept(lead[s], s)
        BY <2>2, <3>1, <3>2, <3>3, <3>4 DEF Respond, Store!StoreAndAccept, Store!Created
      <4> QED BY <2>1, <4>1 DEF Store!StoreNext
    <3>5. CASE Respond(s, Refused)
      <4>1. Store!StoreAndRefuse(lead[s], s)
        BY <2>2, <2>3, <3>1, <3>2, <3>3, <3>5 DEF Respond, Store!StoreAndRefuse
      <4> QED BY <2>1, <4>1 DEF Store!StoreNext
    <3> QED BY <2>7, <3>4, <3>5 DEF Insert
  <2>8. CASE LateInsert(s)
    <3>1. CASE UniqueInsert(s)
      <4>1. \A l \in Leads : storedBy[l] # s
        BY <2>8, NoRowYet DEF LateInsert
      <4>2. Store!Store(lead[s], s)
        BY <2>8, <3>1, <4>1 DEF LateInsert, UniqueInsert, Store!Store
      <4> QED BY <2>1, <4>2 DEF Store!StoreNext
    <3>2. CASE ~UniqueInsert(s)
      BY <2>8, <3>2 DEF LateInsert
    <3> QED BY <3>1, <3>2
  <2> QED
    BY <1>3, <2>4, <2>5, <2>6, <2>7, <2>8
<1> QED
  BY <1>1, <1>2, <1>3 DEF Next

\* Find, insert and find again, with lost and late requests, look like one atomic
\* get-or-create.
THEOREM ImplementsStore == Spec => StoreSpec
<1>1. Init => Store!StoreInit
  BY DEF Init, Store!StoreInit, Pending, Store!Pending
<1> QED
  BY IntakeInit, IntakeNext, IntakeRefines, <1>1, PTL DEF Spec, StoreSpec, Store!StoreSpec
=============================================================================
