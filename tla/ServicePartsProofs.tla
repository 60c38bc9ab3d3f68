------------------------- MODULE ServicePartsProofs --------------------------
(***************************************************************************)
(* Proofs about the other small parts of the service, LeadPages,           *)
(* QueueMetrics, ResponseParser and Startup, and about the composition     *)
(* MCServiceParts, for all values of their constants.                      *)
(***************************************************************************)
EXTENDS MCServiceParts, LeadIntakeProofs, RateLimiterProofs, Integers

-----------------------------------------------------------------------------
(* Page reads.  A lead that is owed and has not been seen is still to      *)
(* come: as many newer rows match as have been passed.                     *)

PagesTypes ==
  /\ pageTime \in [PageLeads -> 0..MaxTime]
  /\ pageStatus \in [PageLeads -> Statuses]
  /\ pageQuery \in Queries
  /\ pageOffset \in Nat /\ pageSeen \in SUBSET PageLeads
  /\ pageWalk = "none" => pageOffset = 0

Newer(l) == {m \in Matching(pageQuery) : pageTime[m] > pageTime[l]}

StillToCome(l) == l \in Matching(pageQuery) /\ pageOffset <= Cardinality(Newer(l))

Owed ==
  /\ pageWalk \in {"reading", "finished"} => pageOwed \in SUBSET {l \in PageLeads : pageTime[l] > 0}
  /\ pageWalk = "reading" /\ pageQuery.status # "pending" =>
       \A l \in pageOwed : l \in pageSeen \/ Tied(l) \/ StillToCome(l)

PagesInv == PagesTypes /\ Owed /\ WalkMissesNothing

LEMMA SmallerOfTwo ==
  ASSUME NEW a \in Int, NEW b \in Int
  PROVE  Min({a, b}) = IF a <= b THEN a ELSE b
<1> DEFINE m == IF a <= b THEN a ELSE b
<1>1. m \in {a, b} /\ \A y \in {a, b} : m <= y
  OBVIOUS
<1>2. \A x \in {a, b} : (\A y \in {a, b} : x <= y) => x = m
  OBVIOUS
<1> QED BY <1>1, <1>2 DEF Min

LEMMA RowsCount ==
  ASSUME NEW S \in SUBSET PageLeads
  PROVE  IsFiniteSet(S) /\ Cardinality(S) \in Nat
BY PagesAssumption, FS_Subset, FS_CardinalityType

\* A request meets a lead that is still to come, or leaves it to come.
LEMMA PageMeets ==
  ASSUME PagesTypes, NEW l \in PageLeads, StillToCome(l), ~Tied(l),
         NEW page \in PagesAt(pageOffset, pageQuery.limit, Matching(pageQuery)), l \notin page
  PROVE  /\ Cardinality(page) = pageQuery.limit
         /\ pageOffset + pageQuery.limit <= Cardinality(Newer(l))
         /\ Cardinality(Newer(l)) < Cardinality(Matching(pageQuery))
<1> DEFINE rows == Matching(pageQuery)
           limit == pageQuery.limit
           newer == Newer(l)
<1>1. PICK skipped \in SUBSET (rows \ page) :
        /\ Cardinality(skipped) = Min({pageOffset, Cardinality(rows)})
        /\ Cardinality(page) = Min({limit, Cardinality(rows) - Cardinality(skipped)})
        /\ Ahead(skipped, rows)
        /\ Ahead(page, rows \ skipped)
  BY DEF PagesAt
<1>2. /\ page \in SUBSET rows /\ rows \in SUBSET PageLeads /\ newer \in SUBSET rows
      /\ skipped \in SUBSET rows /\ l \in rows /\ l \notin newer /\ limit \in Nat /\ pageOffset \in Nat
  BY PagesAssumption DEF PagesAt, Matching, Newer, StillToCome, PagesTypes, Queries
<1>3. \A m \in rows : pageTime[m] \in Int
  BY <1>2 DEF PagesTypes
<1>4. \A m \in rows \ {l} : pageTime[m] >= pageTime[l] => m \in newer
  BY <1>2, <1>3 DEF Newer, Tied
<1>5. /\ \A m \in newer : pageTime[m] > pageTime[l]
      /\ pageOffset <= Cardinality(newer)
  BY DEF Newer, StillToCome
<1>6. /\ \A a \in skipped, b \in rows \ skipped : pageTime[a] >= pageTime[b]
      /\ \A a \in page, b \in (rows \ skipped) \ page : pageTime[a] >= pageTime[b]
  BY <1>1 DEF Ahead, MayPrecede
<1> HIDE DEF rows, limit, newer
<1>7. /\ IsFiniteSet(rows) /\ IsFiniteSet(newer) /\ IsFiniteSet(skipped) /\ IsFiniteSet(page)
      /\ Cardinality(rows) \in Nat /\ Cardinality(newer) \in Nat
      /\ Cardinality(skipped) \in Nat /\ Cardinality(page) \in Nat
  BY <1>2, RowsCount
<1>8. Cardinality(newer) < Cardinality(rows)
  <2>1. newer \subseteq rows \ {l} /\ IsFiniteSet(rows \ {l})
    BY <1>2, <1>7, FS_RemoveElement
  <2>2. Cardinality(rows \ {l}) = Cardinality(rows) - 1
    BY <1>2, <1>7, FS_RemoveElement
  <2>3. Cardinality(newer) <= Cardinality(rows \ {l})
    BY <2>1, FS_Subset
  <2> QED BY <1>7, <2>2, <2>3
<1>9. Cardinality(skipped) = pageOffset
  BY <1>1, <1>2, <1>5, <1>7, <1>8, SmallerOfTwo
<1>10. l \notin skipped
  <2> SUFFICES ASSUME l \in skipped PROVE FALSE
    OBVIOUS
  <2>1. newer \cup {l} \subseteq skipped
    BY <1>2, <1>3, <1>5, <1>6
  <2>2. Cardinality(newer \cup {l}) = Cardinality(newer) + 1
    BY <1>2, <1>7, FS_AddElement
  <2>3. Cardinality(newer \cup {l}) <= Cardinality(skipped)
    BY <1>7, <2>1, FS_Subset
  <2> QED BY <1>2, <1>5, <1>7, <1>9, <2>2, <2>3
<1>11. skipped \cup page \subseteq newer /\ skipped \cap page = {}
  BY <1>1, <1>2, <1>4, <1>6, <1>10
<1>12. Cardinality(skipped \cup page) = pageOffset + Cardinality(page)
  <2>1. Cardinality(skipped \cup page)
          = Cardinality(skipped) + Cardinality(page) - Cardinality(skipped \cap page)
    BY <1>7, FS_Union
  <2>2. Cardinality(skipped \cap page) = 0
    BY <1>11, FS_EmptySet
  <2> QED BY <1>7, <1>9, <2>1, <2>2
<1>13. pageOffset + Cardinality(page) <= Cardinality(newer)
  BY <1>7, <1>11, <1>12, FS_Subset
<1>14. Cardinality(page) = limit
  BY <1>1, <1>2, <1>7, <1>8, <1>9, <1>13, SmallerOfTwo
<1> QED BY <1>8, <1>13, <1>14 DEF rows, limit, newer

-----------------------------------------------------------------------------
(* The table moves.                                                        *)

\* A row keeps its created_at, and once settled stays settled: a lead that is owed
\* stays as far ahead as it was, or further, unless the walk is for pending leads.
LEMMA TableMoves ==
  ASSUME PagesInv, PagesTypes',
         UNCHANGED <<pageWalk, pageQuery, pageOffset, pageSeen, pageOwed>>,
         \A l \in PageLeads : pageTime[l] > 0 => pageTime'[l] = pageTime[l],
         \A l \in PageLeads : pageStatus'[l] \in {pageStatus[l], "settled"}
  PROVE  Owed' /\ WalkMissesNothing'
<1>1. /\ \A l \in PageLeads : pageTime[l] \in Nat /\ pageTime'[l] \in Nat
      /\ \A l \in PageLeads : pageStatus[l] \in {"pending", "settled"}
      /\ pageQuery.from \in Nat /\ pageQuery.to \in Nat /\ pageQuery.from > 0
      /\ pageQuery.status \in {"pending", "settled", "any"}
      /\ pageOffset \in Nat
  BY PagesAssumption DEF PagesInv, PagesTypes, Queries, Times, Statuses, AnyStatus
<1>2. pageWalk \in {"reading", "finished"} =>
        \A l \in pageOwed : l \in PageLeads /\ pageTime[l] > 0
  BY DEF PagesInv, Owed
<1>3. ASSUME NEW l \in PageLeads, pageTime[l] > 0, Tied(l)
      PROVE  Tied(l)'
  BY <1>1, <1>3 DEF Tied
<1>4. ASSUME NEW l \in PageLeads, pageTime[l] > 0, StillToCome(l), pageQuery.status # "pending"
      PROVE  StillToCome(l)'
  <2>1. Matching(pageQuery) \subseteq Matching(pageQuery)'
    BY <1>1, <1>4 DEF Matching, AnyStatus
  <2>2. \A m \in Matching(pageQuery) : m \in PageLeads /\ pageTime[m] > 0
    BY <1>1 DEF Matching
  <2>3. Newer(l) \subseteq Newer(l)'
    BY <1>4, <2>1, <2>2 DEF Newer
  <2>4. Newer(l) \in SUBSET PageLeads /\ Newer(l)' \in SUBSET PageLeads
    BY DEF Newer, Matching
  <2>5. /\ Cardinality(Newer(l)) <= Cardinality(Newer(l)')
        /\ Cardinality(Newer(l)) \in Nat /\ Cardinality(Newer(l)') \in Nat
    BY <2>3, <2>4, RowsCount, FS_Subset
  <2>6. pageOffset <= Cardinality(Newer(l)')
    BY <1>1, <1>4, <2>5 DEF StillToCome
  <2> QED BY <1>4, <2>1, <2>6 DEF StillToCome
<1>5. (pageWalk \in {"reading", "finished"} => pageOwed \in SUBSET {l \in PageLeads : pageTime[l] > 0})'
  BY <1>1, <1>2
<1>6. ASSUME pageWalk = "reading", pageQuery.status # "pending", NEW l \in pageOwed
      PROVE  l \in pageSeen \/ Tied(l)' \/ StillToCome(l)'
  BY <1>2, <1>3, <1>4, <1>6 DEF PagesInv, Owed
<1>7. ASSUME pageWalk = "finished", pageQuery.status # "pending", NEW l \in pageOwed
      PROVE  l \in pageSeen \/ Tied(l)'
  BY <1>2, <1>3, <1>7 DEF PagesInv, WalkMissesNothing
<1> QED BY <1>5, <1>6, <1>7 DEF Owed, WalkMissesNothing

LEMMA StoredKeepsWalk ==
  ASSUME PagesInv, NEW l \in PageLeads, NEW t \in Times, PageLeadStored(l, t)
  PROVE  PagesInv'
<1>1. PagesTypes'
  BY PagesAssumption DEF PagesInv, PagesTypes, PageLeadStored, Times
<1>2. Owed' /\ WalkMissesNothing'
  BY <1>1, TableMoves DEF PagesInv, PagesTypes, PageLeadStored
<1> QED BY <1>1, <1>2 DEF PagesInv

LEMMA SettledKeepsWalk ==
  ASSUME PagesInv, NEW l \in PageLeads, PageLeadSettled(l)
  PROVE  PagesInv'
<1>1. PagesTypes'
  BY DEF PagesInv, PagesTypes, PageLeadSettled, Statuses
<1>2. Owed' /\ WalkMissesNothing'
  BY <1>1, TableMoves DEF PagesInv, PagesTypes, PageLeadSettled
<1> QED BY <1>1, <1>2 DEF PagesInv

-----------------------------------------------------------------------------
(* The reader moves.                                                       *)

\* When a walk begins, every matching lead is still to come.
LEMMA BeginKeepsWalk ==
  ASSUME PagesInv, BeginWalk
  PROVE  PagesInv'
<1>1. UNCHANGED <<pageTime, pageStatus, pageOffset, pageSeen>> /\ pageOffset = 0
  BY DEF PagesInv, PagesTypes, BeginWalk
<1>2. CASE pageWalk' = "refused" /\ UNCHANGED <<pageQuery, pageOwed>>
  <2>1. PagesTypes'
    BY <1>1, <1>2 DEF PagesInv, PagesTypes
  <2> QED BY <1>2, <2>1 DEF PagesInv, Owed, WalkMissesNothing
<1>3. CASE \E q \in Queries, alias \in Statuses \cup {AnyStatus} :
             /\ pageWalk' = "reading"
             /\ pageQuery' = [q EXCEPT !.status = EffectiveStatus(q.status, alias)]
             /\ pageOwed' = Matching([q EXCEPT !.status = EffectiveStatus(q.status, alias)])
  <2>1. PICK q \in Queries, alias \in Statuses \cup {AnyStatus} :
             /\ pageWalk' = "reading"
             /\ pageQuery' = [q EXCEPT !.status = EffectiveStatus(q.status, alias)]
             /\ pageOwed' = Matching([q EXCEPT !.status = EffectiveStatus(q.status, alias)])
    BY <1>3
  <2>2. EffectiveStatus(q.status, alias) \in Statuses \cup {AnyStatus}
    BY DEF EffectiveStatus, Queries
  <2>3. pageQuery' \in Queries
    BY <2>1, <2>2 DEF Queries
  <2>4. PagesTypes'
    BY <1>1, <2>1, <2>3 DEF PagesInv, PagesTypes
  <2>5. pageOwed' = Matching(pageQuery') /\ pageOwed' = Matching(pageQuery)'
    BY <1>1, <2>1 DEF Matching
  <2>6. ASSUME NEW l \in pageOwed'
        PROVE  l \in PageLeads /\ pageTime'[l] > 0 /\ StillToCome(l)'
    <3>1. /\ l \in PageLeads /\ l \in Matching(pageQuery)'
          /\ pageTime'[l] \in pageQuery'.from..pageQuery'.to
      BY <1>1, <2>5, <2>6 DEF Matching
    <3>2. pageQuery'.from \in Nat /\ pageQuery'.from > 0 /\ pageQuery'.to \in Nat
      BY <2>3, PagesAssumption DEF Queries, Times
    <3>3. Cardinality(Newer(l)') \in Nat
      <4>1. Newer(l)' \in SUBSET PageLeads
        BY DEF Newer, Matching
      <4> QED BY <4>1, RowsCount
    <3>4. pageTime'[l] > 0
      BY <3>1, <3>2
    <3> QED BY <1>1, <3>1, <3>3, <3>4 DEF StillToCome
  <2> QED BY <2>1, <2>4, <2>6 DEF PagesInv, Owed, WalkMissesNothing
<1> QED BY <1>1, <1>2, <1>3 DEF BeginWalk

LEMMA ReadKeepsWalk ==
  ASSUME PagesInv, ReadPage
  PROVE  PagesInv'
<1>1. PICK page \in PagesAt(pageOffset, pageQuery.limit, Matching(pageQuery)) :
        /\ pageSeen' = pageSeen \cup page
        /\ pageOffset' = pageOffset + pageQuery.limit
        /\ pageWalk' = IF \/ Cardinality(page) < pageQuery.limit
                          \/ /\ pageQuery.total
                             /\ pageOffset' >= Cardinality(Matching(pageQuery))
                       THEN "finished" ELSE "reading"
  BY DEF ReadPage
<1>2. pageWalk = "reading" /\ UNCHANGED <<pageTime, pageStatus, pageQuery, pageOwed>>
  BY DEF ReadPage
<1>3. pageWalk' \in {"finished", "reading"}
  BY <1>1
<1>4. page \in SUBSET PageLeads /\ pageQuery.limit \in Nat /\ pageOffset \in Nat
  BY PagesAssumption DEF PagesAt, Matching, PagesInv, PagesTypes, Queries
<1>5. PagesTypes'
  BY <1>1, <1>2, <1>3, <1>4 DEF PagesInv, PagesTypes
<1>6. pageOwed' \in SUBSET {l \in PageLeads : pageTime'[l] > 0}
  BY <1>2 DEF PagesInv, Owed
<1>7. ASSUME pageQuery.status # "pending", NEW l \in pageOwed,
             l \notin pageSeen', ~Tied(l)
      PROVE  pageWalk' = "reading" /\ StillToCome(l)'
  <2>1. l \in PageLeads /\ StillToCome(l) /\ l \notin page /\ PagesTypes
    BY <1>1, <1>2, <1>7 DEF PagesInv, Owed
  <2>2. /\ Cardinality(page) = pageQuery.limit
        /\ pageOffset + pageQuery.limit <= Cardinality(Newer(l))
        /\ Cardinality(Newer(l)) < Cardinality(Matching(pageQuery))
    BY <1>7, <2>1, PageMeets
  <2>3. Cardinality(Newer(l)) \in Nat /\ Cardinality(Matching(pageQuery)) \in Nat
    <3>1. Newer(l) \in SUBSET PageLeads /\ Matching(pageQuery) \in SUBSET PageLeads
      BY DEF Newer, Matching
    <3> QED BY <3>1, RowsCount
  <2>4. pageWalk' = "reading"
    BY <1>1, <1>4, <2>2, <2>3
  <2>5. Matching(pageQuery)' = Matching(pageQuery) /\ Newer(l)' = Newer(l)
    BY <1>2 DEF Matching, Newer
  <2> QED BY <1>1, <2>1, <2>2, <2>4, <2>5 DEF StillToCome
<1>8. ASSUME NEW l \in pageOwed, Tied(l) PROVE Tied(l)'
  BY <1>2, <1>8 DEF Tied
<1>9. Owed'
  <2>1. ASSUME pageWalk' = "reading", pageQuery'.status # "pending", NEW l \in pageOwed'
        PROVE  l \in pageSeen' \/ Tied(l)' \/ StillToCome(l)'
    BY <1>2, <1>7, <1>8, <2>1
  <2> QED BY <1>6, <2>1 DEF Owed
<1>10. WalkMissesNothing'
  <2>1. ASSUME pageWalk' = "finished", pageQuery'.status # "pending", NEW l \in pageOwed'
        PROVE  l \in pageSeen' \/ Tied(l)'
    BY <1>2, <1>7, <1>8, <2>1
  <2> QED BY <2>1 DEF WalkMissesNothing
<1> QED BY <1>5, <1>9, <1>10 DEF PagesInv

LEMMA PagesStep == PagesInv /\ [PagesNext]_pageVars => PagesInv'
<1> SUFFICES ASSUME PagesInv, [PagesNext]_pageVars PROVE PagesInv'
  OBVIOUS
<1>1. ASSUME NEW l \in PageLeads, NEW t \in Times, PageLeadStored(l, t) PROVE PagesInv'
  BY <1>1, StoredKeepsWalk
<1>2. ASSUME NEW l \in PageLeads, PageLeadSettled(l) PROVE PagesInv'
  BY <1>2, SettledKeepsWalk
<1>3. CASE BeginWalk
  BY <1>3, BeginKeepsWalk
<1>4. CASE ReadPage
  BY <1>4, ReadKeepsWalk
<1>5. CASE ReadPageFails
  <2>1. pageWalk' = "failed" /\ pageWalk = "reading"
        /\ UNCHANGED <<pageTime, pageStatus, pageQuery, pageOffset, pageSeen, pageOwed>>
    BY <1>5 DEF ReadPageFails
  <2> QED BY <2>1 DEF PagesInv, PagesTypes, Owed, WalkMissesNothing
<1>6. CASE UNCHANGED pageVars
  <2>1. UNCHANGED <<pageTime, pageStatus, pageWalk, pageQuery, pageOffset, pageSeen, pageOwed>>
    BY <1>6 DEF pageVars
  <2>2. PagesTypes'
    BY <2>1 DEF PagesInv, PagesTypes
  <2>3. Owed' /\ WalkMissesNothing'
    BY <2>1, <2>2, TableMoves DEF PagesInv, PagesTypes
  <2> QED BY <2>2, <2>3 DEF PagesInv
<1> QED BY <1>1, <1>2, <1>3, <1>4, <1>5, <1>6 DEF PagesNext

LEMMA PagesHold == PagesSpec => []PagesInv
<1>1. PagesInit => PagesInv
  <2> SUFFICES ASSUME PagesInit PROVE PagesInv
    OBVIOUS
  <2>1. NoQuery \in Queries
    BY PagesAssumption DEF NoQuery, Queries, Times
  <2>2. PagesTypes
    BY <2>1, PagesAssumption DEF PagesInit, PagesTypes, Statuses
  <2> QED BY <2>2 DEF PagesInit, PagesInv, Owed, WalkMissesNothing
<1> QED BY <1>1, PagesStep, PTL DEF PagesSpec

LEMMA PagesTyped == PagesSpec => []PagesTypeOK
<1>1. PagesInv /\ PagesInit => PagesTypeOK
  BY DEF PagesInv, PagesTypes, PagesInit, PagesTypeOK
<1>2. PagesInv' /\ PagesTypeOK /\ [PagesNext]_pageVars => PagesTypeOK'
  <2> SUFFICES ASSUME PagesInv', PagesTypeOK, [PagesNext]_pageVars PROVE PagesTypeOK'
    OBVIOUS
  <2>1. pageWalk' \in {"none", "reading", "finished", "refused", "failed"}
    BY DEF PagesTypeOK, PagesNext, PageLeadStored, PageLeadSettled, BeginWalk, ReadPage,
           ReadPageFails, pageVars
  <2>2. pageOwed' \in SUBSET PageLeads
    BY DEF PagesTypeOK, PagesNext, PageLeadStored, PageLeadSettled, BeginWalk, Matching,
           ReadPage, ReadPageFails, pageVars
  <2> QED BY <2>1, <2>2 DEF PagesInv, PagesTypes, PagesTypeOK
<1> QED BY <1>1, <1>2, PagesHold, PTL DEF PagesSpec

\* A walk that ends has met every lead that matched when it began and shares its
\* created_at with no other, unless it filters for pending leads: for any number of
\* leads, any times and any limit.
THEOREM WalkNeverMisses == PagesSpec => []WalkMissesNothing
<1>1. PagesInv => WalkMissesNothing
  BY DEF PagesInv
<1> QED BY <1>1, PagesHold, PTL

-----------------------------------------------------------------------------
(* Queue metrics.  The counts say how many leads there were, and not       *)
(* which: the invariant says that there were such leads.                   *)

PendingNow == {l \in QueueLeads : CountedPending(countRow[l])}
BackoffNow == {l \in QueueLeads : CountedBackoff(countRow[l])}
ExhaustedNow == {l \in QueueLeads : CountedExhausted(countRow[l])}

MetricsTypes ==
  /\ countRow \in [QueueLeads -> Rows]
  /\ counts \in [pending : Nat, backoff : Nat, exhausted : Nat]
  /\ newcomers \in SUBSET QueueLeads /\ lastClaimed \in SUBSET QueueLeads

\* Between the first two counts: what is pending was counted, or came later.
AfterPending(P) ==
  /\ Cardinality(P) = counts.pending
  /\ PendingNow \subseteq P \cup newcomers

\* Between the last two: what was counted in backoff and is exhausted by now was
\* claimed meanwhile.
AfterBackoff(P, B) ==
  /\ AfterPending(P)
  /\ Cardinality(B) = counts.backoff
  /\ B \subseteq P \cup newcomers
  /\ B \cap ExhaustedNow \subseteq lastClaimed

CountedLeads ==
  /\ countStep = "backoff" => \E P \in SUBSET QueueLeads : AfterPending(P)
  /\ countStep = "exhausted" => \E P, B \in SUBSET QueueLeads : AfterBackoff(P, B)

MetricsInv == MetricsTypes /\ CountedLeads /\ MetricsOffByMovers

-----------------------------------------------------------------------------
(* Sets and their sizes.                                                   *)

LEMMA QueueSizes ==
  ASSUME NEW S \in SUBSET QueueLeads
  PROVE  IsFiniteSet(S) /\ Cardinality(S) \in Nat
BY MetricsAssumption, FS_Subset, FS_CardinalityType

LEMMA Larger ==
  ASSUME NEW S \in SUBSET QueueLeads, NEW T \in SUBSET QueueLeads, S \subseteq T
  PROVE  Cardinality(S) <= Cardinality(T)
BY QueueSizes, FS_Subset

\* What two counts may exceed a third one by.
LEMMA TwoCounts ==
  ASSUME NEW P \in SUBSET QueueLeads, NEW B \in SUBSET QueueLeads,
         NEW E \in SUBSET QueueLeads, NEW N \in SUBSET QueueLeads,
         NEW C \in SUBSET QueueLeads,
         B \cup E \subseteq P \cup N, B \cap E \subseteq C
  PROVE  Cardinality(B) + Cardinality(E)
           <= Cardinality(P) + Cardinality(N) + Cardinality(C)
<1>1. Cardinality(B) + Cardinality(E) = Cardinality(B \cup E) + Cardinality(B \cap E)
  <2>1. Cardinality(B \cup E) = Cardinality(B) + Cardinality(E) - Cardinality(B \cap E)
    BY QueueSizes, FS_Union
  <2> QED BY <2>1, QueueSizes
<1>2. Cardinality(P \cup N) <= Cardinality(P) + Cardinality(N)
  <2>1. Cardinality(P \cup N) = Cardinality(P) + Cardinality(N) - Cardinality(P \cap N)
    BY QueueSizes, FS_Union
  <2> QED BY <2>1, QueueSizes
<1>3. Cardinality(B \cup E) <= Cardinality(P \cup N)
  BY Larger
<1>4. Cardinality(B \cap E) <= Cardinality(C)
  BY Larger
<1>5. \A S \in {P, B, E, N, C, P \cup N, B \cup E, B \cap E} : Cardinality(S) \in Nat
  BY QueueSizes
<1> QED BY <1>1, <1>2, <1>3, <1>4, <1>5

-----------------------------------------------------------------------------
(* The queue moves.                                                        *)

\* What a move of a row does to the sets that are counted.
RowMoves ==
  /\ MetricsTypes'
  /\ UNCHANGED <<countStep, counts>>
  /\ countStep # "none" => PendingNow' \subseteq PendingNow \cup newcomers'
  /\ newcomers \subseteq newcomers' /\ lastClaimed \subseteq lastClaimed'
  /\ countStep = "exhausted" => ExhaustedNow' \subseteq ExhaustedNow \cup lastClaimed'

LEMMA MovesKeep == MetricsInv /\ RowMoves => MetricsInv'
<1> SUFFICES ASSUME MetricsInv, RowMoves PROVE MetricsInv'
  OBVIOUS
<1> USE DEF MetricsInv
<1>1. countStep = "backoff" => \E P \in SUBSET QueueLeads : AfterPending(P)'
  <2> SUFFICES ASSUME countStep = "backoff"
               PROVE  \E P \in SUBSET QueueLeads : AfterPending(P)'
    OBVIOUS
  <2>1. PICK P \in SUBSET QueueLeads : AfterPending(P)
    BY DEF CountedLeads
  <2>2. AfterPending(P)'
    BY <2>1 DEF AfterPending, RowMoves
  <2> QED BY <2>2
<1>2. countStep = "exhausted" => \E P, B \in SUBSET QueueLeads : AfterBackoff(P, B)'
  <2> SUFFICES ASSUME countStep = "exhausted"
               PROVE  \E P, B \in SUBSET QueueLeads : AfterBackoff(P, B)'
    OBVIOUS
  <2>1. PICK P \in SUBSET QueueLeads, B \in SUBSET QueueLeads : AfterBackoff(P, B)
    BY DEF CountedLeads
  <2>2. AfterBackoff(P, B)'
    BY <2>1 DEF AfterBackoff, AfterPending, RowMoves
  <2> QED BY <2>2
<1>3. MetricsOffByMovers'
  <2> SUFFICES ASSUME countStep = "done"
               PROVE  counts.backoff + counts.exhausted
                 <= counts.pending + Cardinality(newcomers') + Cardinality(lastClaimed')
    BY DEF MetricsOffByMovers, RowMoves
  <2>1. /\ Cardinality(newcomers) <= Cardinality(newcomers')
        /\ Cardinality(lastClaimed) <= Cardinality(lastClaimed')
    BY Larger DEF RowMoves, MetricsTypes
  <2>2. /\ Cardinality(newcomers) \in Nat /\ Cardinality(newcomers') \in Nat
        /\ Cardinality(lastClaimed) \in Nat /\ Cardinality(lastClaimed') \in Nat
    BY QueueSizes DEF RowMoves, MetricsTypes
  <2>3. counts.backoff \in Nat /\ counts.exhausted \in Nat /\ counts.pending \in Nat
    BY DEF MetricsTypes
  <2> QED BY <2>1, <2>2, <2>3 DEF MetricsOffByMovers
<1> QED BY <1>1, <1>2, <1>3 DEF RowMoves, CountedLeads

LEMMA RowsMove ==
  ASSUME MetricsTypes, NEW l \in QueueLeads,
         RowArrives(l) \/ RowClaimed(l) \/ RowReleased(l) \/ RowSettled(l),
         countClock \in 0..LastTick
  PROVE  RowMoves
<1>0. PICK r \in Rows : /\ RowBecomes(l, r)
                        /\ r.status = "pending" =>
                             \/ countRow[l].status = "pending"
                             \/ newcomers' = newcomers \cup {l} \/ countStep = "none"
                        /\ r.status = "pending" /\ r.tries >= CountAttempts =>
                             \/ CountedExhausted(countRow[l])
                             \/ countStep = "exhausted" => l \in lastClaimed'
  <2>1. countRow[l] \in Rows
    BY DEF MetricsTypes
  <2>2. CASE RowArrives(l)
    <3>1. [Absent EXCEPT !.status = "pending"] \in Rows
      BY MetricsAssumption DEF Absent, Rows
    <3>2. [Absent EXCEPT !.status = "pending"].tries = 0
      BY DEF Absent
    <3>3. ~([Absent EXCEPT !.status = "pending"].tries >= CountAttempts)
      BY <3>2, MetricsAssumption
    <3>4. /\ RowBecomes(l, [Absent EXCEPT !.status = "pending"])
          /\ newcomers' = newcomers \cup {l} \/ countStep = "none"
      BY <2>2 DEF RowArrives
    <3> QED BY <3>1, <3>3, <3>4
  <2>3. CASE RowClaimed(l)
    <3>1. [countRow[l] EXCEPT !.tries = @ + 1] \in Rows
      BY <2>1, <2>3, MetricsAssumption DEF RowClaimed, Rows
    <3>2. countStep = "exhausted" => l \in lastClaimed'
      BY <2>3 DEF RowClaimed
    <3>3. /\ countRow[l].status = "pending"
          /\ RowBecomes(l, [countRow[l] EXCEPT !.tries = @ + 1])
      BY <2>3 DEF RowClaimed
    <3> QED BY <3>1, <3>2, <3>3
  <2>4. CASE RowReleased(l)
    <3>1. /\ [countRow[l] EXCEPT !.next = countClock + BackoffTime] \in Rows
          /\ [countRow[l] EXCEPT !.next = countClock + BackoffTime].tries = countRow[l].tries
      BY <2>1, MetricsAssumption DEF Rows
    <3> QED BY <2>4, <3>1 DEF RowReleased, CountedExhausted, CountedPending
  <2>5. CASE RowSettled(l)
    <3>1. [countRow[l] EXCEPT !.status = "settled"] \in Rows
      BY <2>1 DEF Rows
    <3>2. 0 \in 0..(LastTick + BackoffTime)
      BY MetricsAssumption
    <3>3. PICK r \in Rows : r = [countRow[l] EXCEPT !.status = "settled", !.next = 0]
      BY <2>1, <3>1, <3>2 DEF Rows
    <3>4. r.status # "pending"
      BY <2>1, <3>3 DEF Rows
    <3>5. RowBecomes(l, r)
      BY <2>5, <3>3 DEF RowSettled
    <3> QED BY <3>4, <3>5
  <2> QED BY <2>2, <2>3, <2>4, <2>5
<1>1. /\ countRow'[l] = r
      /\ \A m \in QueueLeads : m # l => countRow'[m] = countRow[m]
      /\ countRow' \in [QueueLeads -> Rows]
      /\ UNCHANGED <<countStep, counts>>
  BY <1>0 DEF RowBecomes, MetricsTypes
<1>2. /\ newcomers' \in SUBSET QueueLeads /\ newcomers \subseteq newcomers'
      /\ lastClaimed' \in SUBSET QueueLeads /\ lastClaimed \subseteq lastClaimed'
  BY DEF MetricsTypes, RowArrives, RowClaimed, RowReleased, RowSettled, moved
<1>3. MetricsTypes'
  BY <1>1, <1>2 DEF MetricsTypes
<1>4. countStep # "none" => PendingNow' \subseteq PendingNow \cup newcomers'
  BY <1>0, <1>1 DEF PendingNow, CountedPending
<1>5. countStep = "exhausted" => ExhaustedNow' \subseteq ExhaustedNow \cup lastClaimed'
  BY <1>0, <1>1 DEF ExhaustedNow, CountedExhausted, CountedPending
<1> QED BY <1>1, <1>2, <1>3, <1>4, <1>5 DEF RowMoves

-----------------------------------------------------------------------------
(* The counts.                                                             *)

LEMMA MetricsStart == MetricsInit => MetricsInv /\ countClock \in 0..LastTick
<1> SUFFICES ASSUME MetricsInit PROVE MetricsInv /\ countClock \in 0..LastTick
  OBVIOUS
<1>1. Absent \in Rows
  BY MetricsAssumption DEF Absent, Rows
<1>2. MetricsTypes
  BY <1>1 DEF MetricsInit, MetricsTypes, NoCounts
<1> QED
  BY <1>2, MetricsAssumption DEF MetricsInit, MetricsInv, CountedLeads, MetricsOffByMovers

LEMMA MetricsStep ==
  MetricsInv /\ countClock \in 0..LastTick /\ [MetricsNext]_countVars =>
    MetricsInv' /\ countClock' \in 0..LastTick
<1> SUFFICES ASSUME MetricsInv, countClock \in 0..LastTick, [MetricsNext]_countVars
             PROVE  MetricsInv' /\ countClock' \in 0..LastTick
  OBVIOUS
<1> USE DEF MetricsInv
<1>0. \A S \in {PendingNow, BackoffNow, ExhaustedNow} :
        S \in SUBSET QueueLeads /\ Cardinality(S) \in Nat
  BY QueueSizes DEF PendingNow, BackoffNow, ExhaustedNow
<1>1. CASE UNCHANGED countVars \/ CountTick \/ CountFails
  <2>1. RowMoves \/ countStep' = "failed"
    BY <1>1 DEF countVars, CountTick, CountFails, moved, RowMoves, MetricsTypes, PendingNow,
                ExhaustedNow, CountedPending, CountedExhausted
  <2>2. countClock' \in 0..LastTick
    BY <1>1, MetricsAssumption DEF countVars, CountTick, CountFails
  <2>3. CASE countStep' = "failed"
    BY <1>1, <2>2, <2>3 DEF countVars, CountTick, CountFails, moved, MetricsTypes, CountedLeads,
                            MetricsOffByMovers
  <2> QED BY <2>1, <2>2, <2>3, MovesKeep
<1>2. ASSUME NEW l \in QueueLeads,
             RowArrives(l) \/ RowClaimed(l) \/ RowReleased(l) \/ RowSettled(l)
      PROVE  MetricsInv' /\ countClock' \in 0..LastTick
  <2>1. UNCHANGED countClock
    BY <1>2 DEF RowArrives, RowClaimed, RowReleased, RowSettled, RowBecomes
  <2> QED BY <1>2, <2>1, RowsMove, MovesKeep
<1>3. CASE CountPending
  <2>1. /\ counts' = [counts EXCEPT !.pending = Cardinality(PendingNow)]
        /\ countStep' = "backoff"
        /\ UNCHANGED <<countClock, countRow, newcomers, lastClaimed>>
    BY <1>3 DEF CountPending, Count, PendingNow, moved
  <2>2. MetricsTypes'
    BY <1>0, <2>1 DEF MetricsTypes
  <2>3. PICK P \in SUBSET QueueLeads : P = PendingNow
    BY <1>0
  <2>4. UNCHANGED PendingNow
    BY <2>1 DEF PendingNow
  <2>5. AfterPending(P)'
    BY <2>1, <2>3, <2>4 DEF AfterPending, MetricsTypes
  <2> QED
    BY <2>1, <2>2, <2>5 DEF CountedLeads, MetricsOffByMovers
<1>4. CASE CountBackoff
  <2>1. /\ counts' = [counts EXCEPT !.backoff = Cardinality(BackoffNow)]
        /\ countStep = "backoff" /\ countStep' = "exhausted"
        /\ UNCHANGED <<countClock, countRow, countNow, newcomers, lastClaimed>>
    BY <1>4 DEF CountBackoff, Count, BackoffNow, moved
  <2>2. MetricsTypes'
    BY <1>0, <2>1 DEF MetricsTypes
  <2>3. PICK P \in SUBSET QueueLeads : AfterPending(P)
    BY <2>1 DEF CountedLeads
  <2>4. /\ UNCHANGED <<PendingNow, ExhaustedNow>>
        /\ BackoffNow \subseteq PendingNow /\ BackoffNow \cap ExhaustedNow = {}
    BY <2>1, MetricsAssumption
       DEF PendingNow, BackoffNow, ExhaustedNow, CountedPending, CountedBackoff,
           CountedExhausted, MetricsTypes, Rows
  <2>5. PICK B \in SUBSET QueueLeads : B = BackoffNow
    BY <1>0
  <2>6. AfterBackoff(P, B)'
    BY <2>1, <2>3, <2>4, <2>5 DEF AfterBackoff, AfterPending, MetricsTypes
  <2> QED
    BY <2>1, <2>2, <2>6 DEF CountedLeads, MetricsOffByMovers
<1>5. CASE CountExhausted
  <2>1. /\ counts' = [counts EXCEPT !.exhausted = Cardinality(ExhaustedNow)]
        /\ countStep = "exhausted" /\ countStep' = "done"
        /\ UNCHANGED <<countClock, countRow, countNow, newcomers, lastClaimed>>
    BY <1>5 DEF CountExhausted, Count, ExhaustedNow, moved
  <2>2. MetricsTypes'
    BY <1>0, <2>1 DEF MetricsTypes
  <2>3. PICK P \in SUBSET QueueLeads, B \in SUBSET QueueLeads : AfterBackoff(P, B)
    BY <2>1 DEF CountedLeads
  <2>4. ExhaustedNow \subseteq PendingNow
    BY DEF ExhaustedNow, PendingNow, CountedExhausted
  <2>5. /\ B \cup ExhaustedNow \subseteq P \cup newcomers
        /\ B \cap ExhaustedNow \subseteq lastClaimed
    BY <2>3, <2>4 DEF AfterBackoff, AfterPending
  <2>6. Cardinality(B) + Cardinality(ExhaustedNow)
          <= Cardinality(P) + Cardinality(newcomers) + Cardinality(lastClaimed)
    BY <1>0, <2>5, TwoCounts DEF MetricsTypes
  <2>7. MetricsOffByMovers'
    BY <2>1, <2>3, <2>6 DEF MetricsOffByMovers, AfterBackoff, AfterPending, MetricsTypes
  <2> QED
    BY <2>1, <2>2, <2>7 DEF CountedLeads
<1> QED
  BY <1>1, <1>2, <1>3, <1>4, <1>5 DEF MetricsNext

LEMMA MetricsHold == MetricsSpec => [](MetricsInv /\ countClock \in 0..LastTick)
<1> DEFINE Clocked == MetricsInv /\ countClock \in 0..LastTick
<1>1. MetricsInit => Clocked
  BY MetricsStart
<1>2. Clocked /\ [MetricsNext]_countVars => Clocked'
  BY MetricsStep
<1> QED BY <1>1, <1>2, PTL DEF MetricsSpec

LEMMA MetricsTyped == MetricsSpec => []MetricsTypeOK
<1> DEFINE Clocked == MetricsInv /\ countClock \in 0..LastTick
<1>1. Clocked /\ MetricsInit => MetricsTypeOK
  <2> SUFFICES ASSUME Clocked, MetricsInit PROVE MetricsTypeOK
    OBVIOUS
  <2>1. QueueLeads \in SUBSET QueueLeads /\ 0 \in 0..LastTick
    BY MetricsAssumption
  <2>2. 0 \in 0..Cardinality(QueueLeads)
    BY <2>1, QueueSizes
  <2>3. \A c \in DOMAIN NoCounts : counts[c] = 0
    BY DEF MetricsInit, NoCounts
  <2> QED BY <2>1, <2>2, <2>3 DEF MetricsInv, MetricsTypes, MetricsInit, MetricsTypeOK
<1>2. Clocked /\ Clocked' /\ MetricsTypeOK /\ [MetricsNext]_countVars => MetricsTypeOK'
  <2> SUFFICES ASSUME Clocked, Clocked', MetricsTypeOK, [MetricsNext]_countVars
               PROVE  MetricsTypeOK'
    OBVIOUS
  <2>1. countStep' \in {"none", "backoff", "exhausted", "done", "failed"}
    BY DEF MetricsTypeOK, MetricsNext, CountTick, RowArrives, RowClaimed, RowReleased,
           RowSettled, RowBecomes, CountPending, CountBackoff, CountExhausted, CountFails,
           countVars
  <2>2. countNow' \in 0..LastTick
    <3>1. CASE CountPending
      <4>1. PICK read \in 0..countClock : countNow' = read
        BY <3>1 DEF CountPending
      <4> QED BY <4>1, MetricsAssumption
    <3>2. CASE UNCHANGED countNow
      BY <3>2 DEF MetricsTypeOK
    <3> QED BY <3>1, <3>2 DEF MetricsNext, CountTick, RowArrives, RowClaimed, RowReleased,
                              RowSettled, RowBecomes, CountBackoff, CountExhausted,
                              CountFails, countVars
  <2>3. \A c \in DOMAIN NoCounts : counts'[c] \in 0..Cardinality(QueueLeads)
    <3>1. \A S \in SUBSET QueueLeads : Cardinality(S) \in 0..Cardinality(QueueLeads)
      BY QueueSizes, Larger
    <3>2. PendingNow \in SUBSET QueueLeads /\ BackoffNow \in SUBSET QueueLeads
          /\ ExhaustedNow \in SUBSET QueueLeads
      BY DEF PendingNow, BackoffNow, ExhaustedNow
    <3>3. counts \in [pending : Nat, backoff : Nat, exhausted : Nat]
      BY DEF MetricsInv, MetricsTypes
    <3>4. DOMAIN NoCounts = {"pending", "backoff", "exhausted"}
      BY DEF NoCounts
    <3>5. ASSUME NEW S \in SUBSET QueueLeads,
                 \/ counts' = [counts EXCEPT !.pending = Cardinality(S)]
                 \/ counts' = [counts EXCEPT !.backoff = Cardinality(S)]
                 \/ counts' = [counts EXCEPT !.exhausted = Cardinality(S)]
          PROVE  \A c \in DOMAIN NoCounts : counts'[c] \in 0..Cardinality(QueueLeads)
      <4>1. Cardinality(S) \in 0..Cardinality(QueueLeads)
        BY <3>1
      <4>2. \A c \in DOMAIN NoCounts : counts'[c] \in {counts[c], Cardinality(S)}
        BY <3>3, <3>4, <3>5
      <4> QED BY <4>1, <4>2 DEF MetricsTypeOK
    <3>6. CASE UNCHANGED counts
      BY <3>6 DEF MetricsTypeOK
    <3>7. CASE CountPending \/ CountBackoff \/ CountExhausted
      <4>1. \/ counts' = [counts EXCEPT !.pending = Cardinality(PendingNow)]
            \/ counts' = [counts EXCEPT !.backoff = Cardinality(BackoffNow)]
            \/ counts' = [counts EXCEPT !.exhausted = Cardinality(ExhaustedNow)]
        BY <3>7 DEF CountPending, CountBackoff, CountExhausted, Count, PendingNow, BackoffNow,
                    ExhaustedNow
      <4> QED BY <3>2, <3>5, <4>1
    <3> QED BY <3>6, <3>7 DEF MetricsNext, CountTick, RowArrives, RowClaimed, RowReleased,
                              RowSettled, RowBecomes, CountFails, countVars
  <2> QED BY <2>1, <2>2, <2>3 DEF MetricsInv, MetricsTypes, MetricsTypeOK
<1> QED BY <1>1, <1>2, MetricsHold, PTL DEF MetricsSpec

\* The report exceeds its own pending_count by no more than the leads that came or were
\* claimed for the last time between the counts, whatever else moves.
THEOREM MetricsOffByMoversOnly == MetricsSpec => []MetricsOffByMovers
<1>1. MetricsInv => MetricsOffByMovers
  BY DEF MetricsInv
<1> QED BY <1>1, MetricsHold, PTL

-----------------------------------------------------------------------------
(* The parser of answers.                                                  *)

\* The first and the last place of a piece, if it has one.
Places(s, piece) == {i \in 1..Len(s) : s[i] = piece}

LEMMA FirstPlace ==
  ASSUME NEW s \in Seq(Pieces), NEW piece, NEW at,
         at = IF Places(s, piece) # {} THEN Min(Places(s, piece)) ELSE 0
  PROVE  \/ at = 0 /\ \A i \in 1..Len(s) : s[i] # piece
         \/ at \in 1..Len(s) /\ s[at] = piece /\ \A i \in 1..(at - 1) : s[i] # piece
<1> DEFINE I == Places(s, piece)
<1>1. Len(s) \in Nat /\ \A i : i \in I <=> i \in 1..Len(s) /\ s[i] = piece
  BY DEF Places
<1>2. I \in SUBSET Nat
  BY <1>1
<1> HIDE DEF I
<1>3. CASE I = {}
  BY <1>1, <1>3 DEF I
<1>4. CASE I # {}
  <2>1. PICK k \in I : \A i \in I : k <= i
    BY <1>2, <1>4, Smallest
  <2>2. \A x \in I : (\A y \in I : x <= y) => x = k
    BY <1>2, <2>1
  <2>3. at = k
    BY <1>4, <2>1, <2>2 DEF I, Min
  <2>4. \A i \in 1..(k - 1) : s[i] # piece
    <3> SUFFICES ASSUME NEW i \in 1..(k - 1), s[i] = piece PROVE FALSE
      OBVIOUS
    <3>1. k \in 1..Len(s)
      BY <1>1, <2>1
    <3>2. i \in 1..Len(s) /\ ~(k <= i)
      BY <1>1, <3>1
    <3> QED BY <1>1, <2>1, <3>2
  <2> QED BY <1>1, <2>1, <2>3, <2>4
<1> QED BY <1>3, <1>4

LEMMA LastPlace ==
  ASSUME NEW s \in Seq(Pieces), NEW piece, NEW at,
         at = IF Places(s, piece) # {} THEN Max(Places(s, piece)) ELSE 0
  PROVE  \/ at = 0 /\ \A i \in 1..Len(s) : s[i] # piece
         \/ at \in 1..Len(s) /\ s[at] = piece /\ \A i \in (at + 1)..Len(s) : s[i] # piece
<1> DEFINE I == Places(s, piece)
           L == Len(s)
<1>1. L \in Nat /\ \A i : i \in I <=> i \in 1..L /\ s[i] = piece
  BY DEF Places
<1>2. I \in SUBSET 1..L
  BY <1>1
<1> HIDE DEF I, L
<1>3. CASE I = {}
  BY <1>1, <1>3 DEF I, L
<1>4. CASE I # {}
  <2> DEFINE J == {j \in Nat : L - j \in I}
  <2>1. J # {}
    <3>1. PICK i \in I : TRUE
      BY <1>4
    <3>2. L - i \in Nat /\ L - (L - i) = i
      BY <1>1, <1>2
    <3>3. L - i \in J
      BY <3>1, <3>2
    <3> QED BY <3>3
  <2>2. PICK j \in J : \A i \in J : j <= i
    <3>1. J \in SUBSET Nat
      OBVIOUS
    <3> HIDE DEF J
    <3> QED BY <2>1, <3>1, Smallest
  <2> DEFINE k == L - j
  <2>3. k \in I /\ k \in 1..L
    BY <1>2, <2>2
  <2>4. ASSUME NEW i \in I PROVE k >= i
    <3>1. i \in 1..L /\ L - i \in Nat /\ L - (L - i) = i
      BY <1>1, <1>2
    <3>2. L - i \in J
      BY <3>1
    <3>3. j <= L - i /\ j \in Nat
      BY <2>2, <3>2
    <3> QED BY <1>1, <3>1, <3>3
  <2> HIDE DEF J, k
  <2>5. \A x \in I : (\A y \in I : x >= y) => x = k
    <3> SUFFICES ASSUME NEW x \in I, \A y \in I : x >= y PROVE x = k
      OBVIOUS
    <3>1. x >= k /\ k >= x /\ x \in 1..L
      BY <1>2, <2>3, <2>4
    <3> QED BY <1>1, <2>3, <3>1
  <2>6. at = k
    BY <1>4, <2>3, <2>4, <2>5 DEF I, Max
  <2>7. \A i \in (k + 1)..L : s[i] # piece
    <3> SUFFICES ASSUME NEW i \in (k + 1)..L, s[i] = piece PROVE FALSE
      OBVIOUS
    <3>1. i \in 1..L /\ ~(k >= i)
      BY <1>1, <2>3
    <3> QED BY <1>1, <2>4, <3>1
  <2> QED BY <1>1, <2>3, <2>6, <2>7 DEF L
<1> QED BY <1>3, <1>4

\* Taking the fence off leaves the text from one piece to another, and all braces.
LEMMA FenceOff ==
  ASSUME NEW text \in Seq(Pieces)
  PROVE  \E lo, hi \in Nat :
           /\ StripFence(text) = SubSeq(text, lo, hi)
           /\ lo >= 1 /\ hi <= Len(text) /\ lo <= hi + 1
           /\ \A i \in 1..(lo - 1) : text[i] \in {"fence", "json"}
           /\ \A i \in (hi + 1)..Len(text) : text[i] \in {"fence", "json"}
<1>1. Len(text) \in Nat
  OBVIOUS
<1>2. CASE ~(Len(text) > 1 /\ text[1] = "fence" /\ Last(text) = "fence")
  <2>1. StripFence(text) = SubSeq(text, 1, Len(text))
    BY <1>2, SubSeqFull DEF StripFence
  <2> QED BY <1>1, <2>1
<1>3. CASE Len(text) > 1 /\ text[1] = "fence" /\ Last(text) = "fence"
  <2> DEFINE lo == IF text[2] = "json" THEN 3 ELSE 2
             hi == Len(text) - 1
  <2>1. StripFence(text) = SubSeq(text, lo, hi)
    BY <1>3 DEF StripFence
  <2>2. text[Len(text)] = "fence"
    BY <1>3 DEF Last
  <2>3. lo \in Nat /\ hi \in Nat /\ lo >= 1 /\ hi <= Len(text) /\ lo <= hi + 1
    <3>1. CASE text[2] = "json"
      <4>1. Len(text) # 2
        BY <2>2, <3>1
      <4>2. lo = 3 /\ Len(text) > 1
        BY <1>3, <3>1
      <4>3. Len(text) >= 3
        <5>1. \A n \in Nat : n > 1 /\ n # 2 => n >= 3
          OBVIOUS
        <5>2. Len(text) > 1
          BY <1>3
        <5> HIDE DEF lo, hi
        <5> QED BY <1>1, <4>1, <5>1, <5>2
      <4>4. hi \in Nat /\ hi + 1 = Len(text) /\ hi <= Len(text)
        BY <1>1, <4>2
      <4> HIDE DEF lo, hi
      <4> QED BY <1>1, <4>2, <4>3, <4>4
    <3>2. CASE text[2] # "json"
      BY <1>1, <1>3, <3>2
    <3> QED BY <3>1, <3>2
  <2>4. \A i \in 1..(lo - 1) : text[i] \in {"fence", "json"}
    <3>1. CASE text[2] = "json"
      <4>1. \A i \in 1..(lo - 1) : i = 1 \/ i = 2
        BY <3>1
      <4> QED BY <1>3, <3>1, <4>1
    <3>2. CASE text[2] # "json"
      <4>1. \A i \in 1..(lo - 1) : i = 1
        BY <3>2
      <4> QED BY <1>3, <4>1
    <3> QED BY <3>1, <3>2
  <2>5. \A i \in (hi + 1)..Len(text) : text[i] \in {"fence", "json"}
    BY <1>1, <2>2
  <2> HIDE DEF lo, hi
  <2> QED BY <2>1, <2>3, <2>4, <2>5
<1> QED BY <1>2, <1>3

Object(inside) == <<"open">> \o inside \o <<"close">>

LEMMA ObjectShape ==
  ASSUME NEW inside \in Seq(Pieces)
  PROVE  /\ Object(inside) \in Seq(Pieces)
         /\ Len(Object(inside)) = Len(inside) + 2 /\ Len(inside) \in Nat
         /\ Object(inside)[1] = "open" /\ Object(inside)[Len(inside) + 2] = "close"
         /\ \A i \in 1..Len(inside) : Object(inside)[i + 1] = inside[i]
<1>1. "open" \in Pieces /\ "close" \in Pieces
  BY DEF Pieces
<1> DEFINE front == <<"open">> \o inside
<1>2. /\ front \in Seq(Pieces) /\ Len(front) = Len(inside) + 1 /\ front[1] = "open"
      /\ Len(inside) \in Nat /\ \A i \in 1..Len(inside) : front[i + 1] = inside[i]
  BY <1>1
<1> HIDE DEF front
<1>3. /\ front \o <<"close">> \in Seq(Pieces) /\ Len(front \o <<"close">>) = Len(inside) + 2
      /\ (front \o <<"close">>)[1] = "open" /\ (front \o <<"close">>)[Len(inside) + 2] = "close"
  BY <1>1, <1>2
<1>4. \A i \in 1..Len(inside) : (front \o <<"close">>)[i + 1] = inside[i]
  <2> SUFFICES ASSUME NEW i \in 1..Len(inside)
               PROVE  (front \o <<"close">>)[i + 1] = inside[i]
    OBVIOUS
  <2>1. i + 1 \in 1..Len(front)
    BY <1>2
  <2>2. (front \o <<"close">>)[i + 1] = front[i + 1]
    BY <1>1, <1>2, <2>1
  <2> QED BY <1>2, <2>2
<1> QED BY <1>2, <1>3, <1>4 DEF Object, front

\* What the parser has before it: the text between lo and hi, and the places of its
\* braces.
Stripped(lo, hi, s) ==
  /\ lo \in Nat /\ hi \in Nat /\ lo >= 1 /\ hi <= Len(modelText) /\ lo <= hi + 1
  /\ \A i \in 1..(lo - 1) : modelText[i] \in {"fence", "json"}
  /\ \A i \in (hi + 1)..Len(modelText) : modelText[i] \in {"fence", "json"}
  /\ s \in Seq(Pieces) /\ Len(s) = hi - lo + 1
  /\ \A i \in 1..Len(s) : s[i] = modelText[lo + i - 1]

Braces(s, open, close) ==
  /\ \/ open = 0 /\ \A i \in 1..Len(s) : s[i] # "open"
     \/ open \in 1..Len(s) /\ s[open] = "open" /\ \A i \in 1..(open - 1) : s[i] # "open"
  /\ \/ close = 0 /\ \A i \in 1..Len(s) : s[i] # "close"
     \/ close \in 1..Len(s) /\ s[close] = "close" /\ \A i \in (close + 1)..Len(s) : s[i] # "close"

Extracted(s, open, close) ==
  IF open = 0 \/ close <= open THEN s ELSE SubSeq(s, open, close)

LEMMA ParserSees ==
  ASSUME modelText \in Seq(Pieces)
  PROVE  \E lo, hi, s, open, close :
           /\ Stripped(lo, hi, s) /\ Braces(s, open, close)
           /\ ExtractObject(StripFence(modelText)) = Extracted(s, open, close)
<1>1. PICK lo \in Nat, hi \in Nat :
        /\ StripFence(modelText) = SubSeq(modelText, lo, hi)
        /\ lo >= 1 /\ hi <= Len(modelText) /\ lo <= hi + 1
        /\ \A i \in 1..(lo - 1) : modelText[i] \in {"fence", "json"}
        /\ \A i \in (hi + 1)..Len(modelText) : modelText[i] \in {"fence", "json"}
  BY FenceOff
<1> DEFINE s == SubSeq(modelText, lo, hi)
<1>2. Stripped(lo, hi, s)
  <2>1. Len(modelText) \in Nat /\ \A i \in 1..Len(modelText) : modelText[i] \in Pieces
    OBVIOUS
  <2>2. \A i \in lo..hi : modelText[i] \in Pieces
    BY <1>1, <2>1
  <2>3. /\ s \in Seq(Pieces) /\ Len(s) = IF lo <= hi THEN hi - lo + 1 ELSE 0
        /\ \A i \in 1..(hi - lo + 1) : s[i] = modelText[lo + i - 1]
    BY <2>2, SubSeqProperties
  <2>4. Len(s) = hi - lo + 1
    BY <1>1, <2>3
  <2> HIDE DEF s
  <2> QED BY <1>1, <2>3, <2>4 DEF Stripped
<1>3. s \in Seq(Pieces)
  BY <1>2 DEF Stripped
<1> HIDE DEF s
<1> DEFINE open == IF Places(s, "open") # {} THEN Min(Places(s, "open")) ELSE 0
           close == IF Places(s, "close") # {} THEN Max(Places(s, "close")) ELSE 0
<1>4. Braces(s, open, close)
  <2> HIDE DEF open, close
  <2>1. \/ open = 0 /\ \A i \in 1..Len(s) : s[i] # "open"
        \/ open \in 1..Len(s) /\ s[open] = "open" /\ \A i \in 1..(open - 1) : s[i] # "open"
    BY <1>3, FirstPlace DEF open
  <2>2. \/ close = 0 /\ \A i \in 1..Len(s) : s[i] # "close"
        \/ close \in 1..Len(s) /\ s[close] = "close" /\ \A i \in (close + 1)..Len(s) : s[i] # "close"
    BY <1>3, LastPlace DEF close
  <2> QED BY <2>1, <2>2 DEF Braces
<1>5. ExtractObject(s) = Extracted(s, open, close)
  BY DEF ExtractObject, Extracted, SelectInSeq, ClosingBrace, SelectLastInSeq, Places
<1>6. StripFence(modelText) = s
  BY <1>1 DEF s
<1> HIDE DEF open, close
<1> QED BY <1>2, <1>4, <1>5, <1>6

LEMMA ObjectHeld ==
  ASSUME modelText \in Seq(Pieces), NEW lo, NEW hi, NEW s, NEW open, NEW close,
         Stripped(lo, hi, s), Braces(s, open, close), NEW inside \in Seq(Pieces),
         Extracted(s, open, close) = Object(inside)
  PROVE  Holds(inside)
<1> DEFINE object == Object(inside)
<1>1. /\ object \in Seq(Pieces) /\ Len(object) = Len(inside) + 2 /\ Len(object) \in Nat
      /\ Len(inside) \in Nat /\ object[1] = "open" /\ object[Len(object)] = "close"
  BY ObjectShape
<1>2. /\ lo \in Nat /\ hi \in Nat /\ lo >= 1 /\ hi <= Len(modelText) /\ lo <= hi + 1
      /\ s \in Seq(Pieces) /\ Len(s) = hi - lo + 1 /\ Len(s) \in Nat /\ Len(modelText) \in Nat
  BY DEF Stripped
<1> HIDE DEF object
<1>3. ~(open = 0 \/ close <= open)
  <2> SUFFICES ASSUME open = 0 \/ close <= open PROVE FALSE
    OBVIOUS
  <2>1. s = object
    BY DEF Extracted, object
  <2>2. 1 \in 1..Len(s) /\ Len(s) \in 1..Len(s) /\ Len(s) >= 2 /\ s[1] = "open" /\ s[Len(s)] = "close"
    BY <1>1, <2>1
  <2>3. open = 1
    <3>1. open \in 1..Len(s) /\ \A i \in 1..(open - 1) : s[i] # "open"
      BY <2>2 DEF Braces
    <3>2. open > 1 => 1 \in 1..(open - 1)
      BY <1>2, <3>1
    <3> QED BY <1>2, <2>2, <3>1, <3>2
  <2>4. close = Len(s)
    <3>1. close \in 1..Len(s) /\ \A i \in (close + 1)..Len(s) : s[i] # "close"
      BY <2>2 DEF Braces
    <3>2. close < Len(s) => Len(s) \in (close + 1)..Len(s)
      BY <1>2, <3>1
    <3> QED BY <1>2, <2>2, <3>1, <3>2
  <2> QED BY <1>2, <2>2, <2>3, <2>4
<1>4. /\ open \in 1..Len(s) /\ close \in 1..Len(s) /\ open < close
      /\ \A i \in 1..(open - 1) : s[i] # "open"
      /\ \A i \in (close + 1)..Len(s) : s[i] # "close"
  BY <1>2, <1>3 DEF Braces
<1>5. object = SubSeq(s, open, close)
  BY <1>3 DEF Extracted, object
<1>6. Len(object) = close - open + 1
  BY <1>2, <1>4, <1>5
<1> DEFINE at == lo + open - 1
           end == at + Len(object) - 1
<1>7. /\ at \in Nat /\ at \in 1..Len(modelText) /\ end = lo + close - 1 /\ end <= Len(modelText)
      /\ end \in Nat /\ end - at + 1 = close - open + 1 /\ at <= end
  <2>1. /\ open \in Nat /\ close \in Nat /\ open >= 1 /\ open < close /\ close <= hi - lo + 1
    BY <1>2, <1>4
  <2>2. (lo + open - 1) + (close - open + 1) - 1 = lo + close - 1
    BY <1>2, <2>1
  <2>3. end = lo + close - 1
    BY <1>6, <2>2
  <2>4. at \in Nat /\ at >= 1 /\ at < lo + close - 1 /\ lo + close - 1 <= hi
    BY <1>2, <2>1
  <2>5. end \in Nat /\ end - at + 1 = close - open + 1 /\ end <= hi /\ at <= end
    BY <1>2, <2>1, <2>3, <2>4
  <2> HIDE DEF at, end
  <2> QED BY <1>2, <2>3, <2>4, <2>5
<1>8. SubSeq(modelText, at, end) = object
  <2>1. \A i \in at..end : modelText[i] \in Pieces
    BY <1>2, <1>7
  <2>2. /\ SubSeq(modelText, at, end) \in Seq(Pieces)
        /\ Len(SubSeq(modelText, at, end)) = close - open + 1
        /\ \A i \in 1..(close - open + 1) : SubSeq(modelText, at, end)[i] = modelText[at + i - 1]
    <3>1. at <= end /\ end - at + 1 = close - open + 1 /\ at \in Int /\ end \in Int
      BY <1>7
    <3> HIDE DEF at, end
    <3> QED BY <2>1, <3>1, SubSeqProperties
  <2>3. \A i \in 1..(close - open + 1) : object[i] = modelText[at + i - 1]
    <3> SUFFICES ASSUME NEW i \in 1..(close - open + 1) PROVE object[i] = modelText[at + i - 1]
      OBVIOUS
    <3>1. object[i] = s[open + i - 1]
      BY <1>2, <1>4, <1>5
    <3>2. open + i - 1 \in 1..Len(s)
      BY <1>2, <1>4
    <3>3. s[open + i - 1] = modelText[lo + (open + i - 1) - 1]
      BY <3>2 DEF Stripped
    <3>4. lo + (open + i - 1) - 1 = at + i - 1
      BY <1>2, <1>4
    <3> QED BY <3>1, <3>3, <3>4
  <2> DEFINE x == SubSeq(modelText, at, end)
  <2>4. x \in Seq(Pieces) /\ Len(x) = Len(object) /\ \A i \in 1..Len(object) : x[i] = object[i]
    <3> HIDE DEF at, end
    <3> QED BY <1>6, <2>2, <2>3
  <2> HIDE DEF x
  <2>5. x = object
    BY <1>1, <2>4
  <2> QED BY <2>5 DEF x
<1>9. ASSUME NEW i \in 1..(at - 1), modelText[i] = "open" PROVE FALSE
  <2>1. CASE i <= lo - 1
    <3>1. i \in 1..(lo - 1)
      BY <1>2, <1>4, <1>7, <2>1
    <3> QED BY <1>9, <3>1 DEF Stripped
  <2>2. CASE ~(i <= lo - 1)
    <3>1. i - lo + 1 \in 1..(open - 1) /\ i - lo + 1 \in 1..Len(s) /\ lo + (i - lo + 1) - 1 = i
      BY <1>2, <1>4, <1>7, <2>2
    <3>2. s[i - lo + 1] = modelText[i]
      BY <3>1 DEF Stripped
    <3> QED BY <1>4, <1>9, <3>1, <3>2
  <2> QED BY <2>1, <2>2
<1>10. ASSUME NEW i \in (end + 1)..Len(modelText), modelText[i] = "close" PROVE FALSE
  <2>1. CASE i >= hi + 1
    <3>1. i \in (hi + 1)..Len(modelText)
      BY <1>2, <1>7, <2>1
    <3> QED BY <1>10, <3>1 DEF Stripped
  <2>2. CASE ~(i >= hi + 1)
    <3>1. /\ i - lo + 1 \in (close + 1)..Len(s) /\ i - lo + 1 \in 1..Len(s)
          /\ lo + (i - lo + 1) - 1 = i
      BY <1>2, <1>4, <1>7, <2>2
    <3>2. s[i - lo + 1] = modelText[i]
      BY <3>1 DEF Stripped
    <3> QED BY <1>4, <1>10, <3>1, <3>2
  <2> QED BY <2>1, <2>2
<1>11. at \in DOMAIN modelText
  BY <1>7
<1> HIDE DEF at
<1> QED BY <1>7, <1>8, <1>9, <1>10, <1>11 DEF Holds, object, Object

LEMMA HeldObject ==
  ASSUME modelText \in Seq(Pieces), NEW lo, NEW hi, NEW s, NEW open, NEW close,
         Stripped(lo, hi, s), Braces(s, open, close), NEW inside \in Seq(Pieces),
         Holds(inside)
  PROVE  Extracted(s, open, close) = Object(inside)
<1> DEFINE object == Object(inside)
<1>1. /\ object \in Seq(Pieces) /\ Len(object) = Len(inside) + 2 /\ Len(object) \in Nat
      /\ Len(inside) \in Nat /\ object[1] = "open" /\ object[Len(object)] = "close"
  BY ObjectShape
<1>2. /\ lo \in Nat /\ hi \in Nat /\ lo >= 1 /\ hi <= Len(modelText) /\ lo <= hi + 1
      /\ s \in Seq(Pieces) /\ Len(s) = hi - lo + 1 /\ Len(s) \in Nat /\ Len(modelText) \in Nat
  BY DEF Stripped
<1>3. PICK at \in DOMAIN modelText :
        LET end == at + Len(object) - 1 IN
        /\ end <= Len(modelText) /\ SubSeq(modelText, at, end) = object
        /\ \A i \in 1..(at - 1) : modelText[i] # "open"
        /\ \A i \in (end + 1)..Len(modelText) : modelText[i] # "close"
  BY DEF Holds, Object
<1> DEFINE end == at + Len(object) - 1
<1> HIDE DEF object
<1>4. /\ at \in 1..Len(modelText) /\ end \in 1..Len(modelText) /\ at < end
      /\ SubSeq(modelText, at, end) = object
      /\ \A i \in 1..(at - 1) : modelText[i] # "open"
      /\ \A i \in (end + 1)..Len(modelText) : modelText[i] # "close"
  <2>1. at \in 1..Len(modelText)
    OBVIOUS
  <2>2. end <= Len(modelText)
    BY <1>3
  <2>3. end \in Int /\ end > at
    BY <1>1, <2>1
  <2>4. end \in 1..Len(modelText)
    BY <1>2, <2>1, <2>2, <2>3
  <2> QED BY <1>3, <2>1, <2>3, <2>4
<1>5. end - at + 1 = Len(object)
  BY <1>1, <1>4
<1> HIDE DEF end
<1>6. /\ at \in Nat /\ end \in Nat
      /\ \A i \in 1..(end - at + 1) : object[i] = modelText[at + i - 1]
  <2>1. \A i \in at..end : modelText[i] \in Pieces
    BY <1>2, <1>4
  <2>2. at \in Int /\ end \in Int
    BY <1>4
  <2>3. \A i \in 1..(end - at + 1) : SubSeq(modelText, at, end)[i] = modelText[at + i - 1]
    BY <2>1, <2>2, SubSeqProperties
  <2> QED BY <1>4, <2>3
<1>7. modelText[at] = "open" /\ modelText[end] = "close"
  <2>1. /\ 1 \in 1..(end - at + 1) /\ Len(object) \in 1..(end - at + 1)
        /\ at + 1 - 1 = at /\ at + Len(object) - 1 = end
    BY <1>1, <1>4, <1>5, <1>6
  <2> QED BY <1>1, <1>6, <2>1
<1>8. \A i \in 1..Len(modelText) : modelText[i] \in {"open", "close"} => i \in lo..hi
  <2> SUFFICES ASSUME NEW i \in 1..Len(modelText), modelText[i] \in {"open", "close"}, ~(i \in lo..hi)
               PROVE  FALSE
    OBVIOUS
  <2>1. i \in 1..(lo - 1) \/ i \in (hi + 1)..Len(modelText)
    BY <1>2
  <2> QED BY <2>1 DEF Stripped
<1>9. at \in lo..hi /\ end \in lo..hi
  BY <1>4, <1>7, <1>8
<1>10. \A i \in lo..hi : i - lo + 1 \in 1..Len(s) /\ s[i - lo + 1] = modelText[i]
  <2> SUFFICES ASSUME NEW i \in lo..hi
               PROVE  i - lo + 1 \in 1..Len(s) /\ s[i - lo + 1] = modelText[i]
    OBVIOUS
  <2>1. i - lo + 1 \in 1..Len(s) /\ lo + (i - lo + 1) - 1 = i
    BY <1>2
  <2> QED BY <2>1 DEF Stripped
<1>11. \A j \in 1..Len(s) : lo + j - 1 \in lo..hi /\ lo + j - 1 \in 1..Len(modelText)
                           /\ s[j] = modelText[lo + j - 1]
  <2>1. \A j \in 1..Len(s) : lo + j - 1 \in lo..hi /\ lo + j - 1 \in 1..Len(modelText)
    BY <1>2
  <2> QED BY <2>1 DEF Stripped
<1>12. open = at - lo + 1
  <2>1. at - lo + 1 \in 1..Len(s) /\ s[at - lo + 1] = "open"
    BY <1>7, <1>9, <1>10
  <2>2. open \in 1..Len(s) /\ s[open] = "open" /\ \A i \in 1..(open - 1) : s[i] # "open"
    BY <2>1 DEF Braces
  <2>3. ~(open > at - lo + 1)
    <3>1. open > at - lo + 1 => at - lo + 1 \in 1..(open - 1)
      BY <1>2, <1>6, <2>1, <2>2
    <3> QED BY <2>1, <2>2, <3>1
  <2>4. ~(open < at - lo + 1)
    <3>1. open < at - lo + 1 => lo + open - 1 \in 1..(at - 1)
      BY <1>2, <1>6, <2>1, <2>2
    <3>2. modelText[lo + open - 1] = "open"
      BY <1>11, <2>2
    <3> QED BY <1>4, <3>1, <3>2
  <2> QED BY <1>2, <1>6, <2>2, <2>3, <2>4
<1>13. close = end - lo + 1
  <2>1. end - lo + 1 \in 1..Len(s) /\ s[end - lo + 1] = "close"
    BY <1>7, <1>9, <1>10
  <2>2. close \in 1..Len(s) /\ s[close] = "close" /\ \A i \in (close + 1)..Len(s) : s[i] # "close"
    BY <2>1 DEF Braces
  <2>3. ~(close < end - lo + 1)
    <3>1. close < end - lo + 1 => end - lo + 1 \in (close + 1)..Len(s)
      BY <1>2, <1>6, <2>1, <2>2
    <3> QED BY <2>1, <2>2, <3>1
  <2>4. ~(close > end - lo + 1)
    <3>1. close > end - lo + 1 => lo + close - 1 \in (end + 1)..Len(modelText)
      BY <1>2, <1>6, <1>11, <2>1, <2>2
    <3>2. modelText[lo + close - 1] = "close"
      BY <1>11, <2>2
    <3> QED BY <1>4, <3>1, <3>2
  <2> QED BY <1>2, <1>6, <2>2, <2>3, <2>4
<1>14. Extracted(s, open, close) = SubSeq(s, open, close)
  <2>1. open # 0 /\ ~(close <= open)
    BY <1>2, <1>4, <1>6, <1>9, <1>12, <1>13
  <2> QED BY <2>1 DEF Extracted
<1>15. SubSeq(s, open, close) = object
  <2>1. /\ open \in Int /\ close \in Int /\ close - open + 1 = Len(object) /\ open <= close
        /\ open \in 1..Len(s) /\ close \in 1..Len(s)
    <3>1. open \in 1..Len(s) /\ close \in 1..Len(s)
      BY <1>9, <1>10, <1>12, <1>13
    <3>2. (end - lo + 1) - (at - lo + 1) + 1 = end - at + 1
      BY <1>2, <1>6
    <3>4. close - open + 1 = Len(object)
      BY <1>5, <1>12, <1>13, <3>2
    <3>5. open <= close
      BY <1>2, <1>4, <1>6, <1>12, <1>13
    <3>3. open \in Int /\ close \in Int
      BY <3>1
    <3> QED BY <3>1, <3>3, <3>4, <3>5
  <2>2. \A i \in open..close : s[i] \in Pieces
    BY <1>2, <2>1
  <2> DEFINE x == SubSeq(s, open, close)
  <2>3. x \in Seq(Pieces) /\ Len(x) = Len(object) /\ \A i \in 1..Len(object) : x[i] = s[open + i - 1]
    BY <2>1, <2>2, SubSeqProperties
  <2>4. \A i \in 1..Len(object) : s[open + i - 1] = object[i]
    <3> SUFFICES ASSUME NEW i \in 1..Len(object) PROVE s[open + i - 1] = object[i]
      OBVIOUS
    <3>1. /\ open + i - 1 \in 1..Len(s) /\ lo + (open + i - 1) - 1 = at + i - 1
          /\ i \in 1..(end - at + 1)
      <4>1. i \in Nat /\ i >= 1 /\ i <= close - open + 1
        BY <1>1, <2>1
      <4>2. open + i - 1 \in 1..Len(s)
        BY <1>2, <2>1, <4>1
      <4>3. lo + (open + i - 1) - 1 = at + i - 1
        <5>1. lo \in Int /\ at \in Int /\ i \in Int
          BY <1>2, <1>6, <4>1
        <5>2. lo + ((at - lo + 1) + i - 1) - 1 = at + i - 1
          BY <5>1
        <5> QED BY <1>12, <5>2
      <4>4. i \in 1..(end - at + 1)
        BY <1>5
      <4> QED BY <4>2, <4>3, <4>4
    <3> QED BY <1>6, <1>11, <3>1
  <2> HIDE DEF x
  <2>5. x = object
    BY <1>1, <2>3, <2>4
  <2> QED BY <2>5 DEF x
<1> QED BY <1>14, <1>15 DEF object

LEMMA ScalarAlone ==
  ASSUME modelText \in Seq(Pieces), NEW lo, NEW hi, NEW s, NEW open, NEW close,
         Stripped(lo, hi, s), Braces(s, open, close), Extracted(s, open, close) = <<"scalar">>
  PROVE  {p \in Pieces : \E i \in DOMAIN modelText : modelText[i] = p}
           \subseteq {"scalar", "fence", "json"}
<1>1. /\ lo \in Nat /\ hi \in Nat /\ lo >= 1 /\ hi <= Len(modelText) /\ lo <= hi + 1
      /\ s \in Seq(Pieces) /\ Len(s) = hi - lo + 1 /\ Len(s) \in Nat /\ Len(modelText) \in Nat
  BY DEF Stripped
<1>2. s = <<"scalar">>
  <2> SUFFICES ASSUME ~(open = 0 \/ close <= open) PROVE FALSE
    BY DEF Extracted
  <2>1. open \in 1..Len(s) /\ s[open] = "open" /\ close \in 1..Len(s) \cup {0} /\ open <= close
    BY <1>1 DEF Braces
  <2>2. SubSeq(s, open, close) = <<"scalar">>
    BY DEF Extracted
  <2>3. SubSeq(s, open, close)[1] = s[open + 1 - 1]
    <3>1. close \in 1..Len(s) /\ open \in Int /\ close \in Int /\ 1 \in 1..(close - open + 1)
      BY <1>1, <2>1
    <3>2. \A i \in open..close : s[i] \in Pieces
      BY <1>1, <2>1, <3>1
    <3> QED BY <3>1, <3>2, SubSeqProperties
  <2>4. open + 1 - 1 = open
    BY <2>1
  <2> QED BY <2>1, <2>2, <2>3, <2>4
<1>3. \A i \in DOMAIN modelText : modelText[i] \in {"scalar", "fence", "json"}
  <2> SUFFICES ASSUME NEW i \in 1..Len(modelText)
               PROVE  modelText[i] \in {"scalar", "fence", "json"}
    OBVIOUS
  <2>1. CASE i \in 1..(lo - 1) \/ i \in (hi + 1)..Len(modelText)
    BY <2>1 DEF Stripped
  <2>2. CASE ~(i \in 1..(lo - 1) \/ i \in (hi + 1)..Len(modelText))
    <3>1. Len(s) = 1 /\ s[1] = "scalar"
      BY <1>2
    <3>2. i = lo
      <4>1. i \in Nat /\ i >= lo /\ i <= hi
        BY <1>1, <2>2
      <4>2. Len(s) = hi - lo + 1 /\ Len(s) = 1
        BY <1>1, <3>1
      <4>3. hi - lo + 1 = 1
        BY <4>2
      <4>4. hi <= lo
        BY <1>1, <4>3
      <4> QED BY <1>1, <4>1, <4>4
    <3>3. s[1] = modelText[lo]
      <4>1. 1 \in 1..Len(s)
        BY <3>1
      <4>3. lo + 1 - 1 = lo
        BY <1>1
      <4>2. s[1] = modelText[lo + 1 - 1]
        BY <4>1 DEF Stripped
      <4> QED BY <4>2, <4>3
    <3> QED BY <3>1, <3>2, <3>3
  <2> QED BY <2>1, <2>2
<1> QED BY <1>3

\* The results tell the objects apart.
LEMMA ResultsTell ==
  ASSUME NEW x
  PROVE  /\ ResultOf(x) = "classified" <=> x = Object(<<"payload">>)
         /\ ResultOf(x) = "invalid_classification_payload" <=> x = Object(<<>>)
         /\ ResultOf(x) = "invalid_json_shape" => x = <<"scalar">>
<1>1. Object(<<"payload">>) = <<"open", "payload", "close">> /\ Object(<<>>) = <<"open", "close">>
  <2>1. <<"payload">> \in Seq(Pieces) /\ <<>> \in Seq(Pieces)
    BY DEF Pieces
  <2>3. /\ Object(<<"payload">>) \in Seq(Pieces) /\ Len(Object(<<"payload">>)) = 3
        /\ Object(<<"payload">>)[1] = "open" /\ Object(<<"payload">>)[2] = "payload"
        /\ Object(<<"payload">>)[3] = "close"
    <3> DEFINE inside == <<"payload">>
    <3>1. /\ Object(inside) \in Seq(Pieces) /\ Len(Object(inside)) = Len(inside) + 2
          /\ Object(inside)[1] = "open" /\ Object(inside)[Len(inside) + 2] = "close"
          /\ \A i \in 1..Len(inside) : Object(inside)[i + 1] = inside[i]
      BY <2>1, ObjectShape
    <3>2. Len(inside) = 1 /\ inside[1] = "payload"
      OBVIOUS
    <3> HIDE DEF inside
    <3>3. Len(inside) + 2 = 3 /\ 1 \in 1..Len(inside) /\ 1 + 1 = 2
      BY <3>2
    <3>4. Object(inside)[2] = "payload"
      <4>1. Object(inside)[1 + 1] = inside[1]
        BY <3>1, <3>3
      <4> QED BY <3>2, <3>3, <4>1
    <3>5. Len(Object(inside)) = 3 /\ Object(inside)[3] = "close"
      BY <3>1, <3>3
    <3> QED BY <3>1, <3>4, <3>5 DEF inside
  <2>4. /\ Object(<<>>) \in Seq(Pieces) /\ Len(Object(<<>>)) = 2
        /\ Object(<<>>)[1] = "open" /\ Object(<<>>)[2] = "close"
    <3> DEFINE inside == <<>>
    <3>1. /\ Object(inside) \in Seq(Pieces) /\ Len(Object(inside)) = Len(inside) + 2
          /\ Object(inside)[1] = "open" /\ Object(inside)[Len(inside) + 2] = "close"
      BY <2>1, ObjectShape
    <3>2. Len(inside) = 0
      OBVIOUS
    <3> HIDE DEF inside
    <3>3. Len(inside) + 2 = 2
      BY <3>2
    <3>4. Len(Object(inside)) = 2 /\ Object(inside)[2] = "close"
      BY <3>1, <3>3
    <3> QED BY <3>1, <3>4 DEF inside
  <2>5. \A z \in Seq(Pieces) : Len(z) = 3 => z = <<z[1], z[2], z[3]>>
    OBVIOUS
  <2>6. \A z \in Seq(Pieces) : Len(z) = 2 => z = <<z[1], z[2]>>
    OBVIOUS
  <2> QED BY <2>3, <2>4, <2>5, <2>6
<1>2. /\ Len(<<"open", "payload", "close">>) = 3 /\ Len(<<"open", "close">>) = 2
      /\ Len(<<"scalar">>) = 1
  OBVIOUS
<1>3. CASE x = <<"open", "payload", "close">>
  BY <1>1, <1>2, <1>3 DEF ResultOf
<1>4. CASE x = <<"open", "close">>
  BY <1>1, <1>2, <1>4 DEF ResultOf
<1>5. CASE x = <<"scalar">>
  BY <1>1, <1>2, <1>5 DEF ResultOf
<1>6. CASE x \notin {<<"open", "payload", "close">>, <<"open", "close">>, <<"scalar">>}
  BY <1>1, <1>6 DEF ResultOf
<1> QED BY <1>3, <1>4, <1>5, <1>6

\* A result is that of the text as it stands.
ParserInv ==
  /\ modelText \in Seq(Pieces)
  /\ textResult \in {"none", "raised"} \/ textResult = ResultOf(ExtractObject(StripFence(modelText)))
  /\ textResult = "raised" => modelText = <<>>

LEMMA ParserUnderstands == ParserInv => AnswersAreUnderstood
<1> SUFFICES ASSUME ParserInv, textResult # "none"
             PROVE  /\ textResult = "classified" <=> Holds(<<"payload">>)
                    /\ textResult = "invalid_classification_payload" <=> Holds(<<>>)
                    /\ textResult = "invalid_json_shape" =>
                         {p \in Pieces : \E i \in DOMAIN modelText : modelText[i] = p}
                           \subseteq {"scalar", "fence", "json"}
  BY DEF AnswersAreUnderstood
<1>1. CASE textResult = "raised"
  <2>1. DOMAIN modelText = {}
    BY <1>1 DEF ParserInv
  <2>2. ~Holds(<<"payload">>) /\ ~Holds(<<>>)
    BY <2>1 DEF Holds
  <2> QED BY <1>1, <2>2
<1>2. CASE textResult = ResultOf(ExtractObject(StripFence(modelText)))
  <2>1. PICK lo, hi, s, open, close :
          /\ Stripped(lo, hi, s) /\ Braces(s, open, close)
          /\ ExtractObject(StripFence(modelText)) = Extracted(s, open, close)
    BY ParserSees DEF ParserInv
  <2>2. modelText \in Seq(Pieces) /\ <<"payload">> \in Seq(Pieces) /\ <<>> \in Seq(Pieces)
    BY DEF ParserInv, Pieces
  <2>3. ASSUME NEW inside \in Seq(Pieces)
        PROVE  Extracted(s, open, close) = Object(inside) <=> Holds(inside)
    BY <2>1, <2>2, ObjectHeld, HeldObject
  <2>4. Extracted(s, open, close) = Object(<<"payload">>) <=> Holds(<<"payload">>)
    BY <2>2, <2>3
  <2>5. Extracted(s, open, close) = Object(<<>>) <=> Holds(<<>>)
    BY <2>2, <2>3
  <2>6. Extracted(s, open, close) = <<"scalar">> =>
          {p \in Pieces : \E i \in DOMAIN modelText : modelText[i] = p}
            \subseteq {"scalar", "fence", "json"}
    BY <2>1, <2>2, ScalarAlone
  <2>7. textResult = ResultOf(Extracted(s, open, close))
    BY <1>2, <2>1
  <2> DEFINE x == Extracted(s, open, close)
  <2>8. /\ ResultOf(x) = "classified" <=> x = Object(<<"payload">>)
        /\ ResultOf(x) = "invalid_classification_payload" <=> x = Object(<<>>)
        /\ ResultOf(x) = "invalid_json_shape" => x = <<"scalar">>
    BY ResultsTell
  <2> QED BY <2>4, <2>5, <2>6, <2>7, <2>8
<1> QED BY <1>1, <1>2 DEF ParserInv

LEMMA ParserHolds == ParserSpec => []ParserInv
<1>1. ParserInit => ParserInv
  BY DEF ParserInit, ParserInv
<1>2. ParserInv /\ [ParserNext]_parserVars => ParserInv'
  <2> SUFFICES ASSUME ParserInv, [ParserNext]_parserVars PROVE ParserInv'
    OBVIOUS
  <2>1. ASSUME NEW piece \in Pieces, ModelWrites(piece) PROVE ParserInv'
    <3>1. modelText' \in Seq(Pieces) /\ textResult' = "none"
      BY <2>1 DEF ParserInv, ModelWrites
    <3> QED BY <3>1 DEF ParserInv
  <2>2. CASE NoText
    BY <2>2 DEF NoText, ParserInv
  <2>3. CASE ParseResponse
    <3>1. UNCHANGED modelText /\ textResult' = ResultOf(ExtractObject(StripFence(modelText)))
      BY <2>3 DEF ParseResponse
    <3>2. ResultOf(ExtractObject(StripFence(modelText))) # "raised"
      BY DEF ResultOf
    <3>3. textResult' = ResultOf(ExtractObject(StripFence(modelText)))'
      BY <3>1
    <3> QED BY <3>1, <3>2, <3>3 DEF ParserInv
  <2>4. CASE UNCHANGED parserVars
    <3>1. UNCHANGED modelText /\ UNCHANGED textResult
      BY <2>4 DEF parserVars
    <3>2. (textResult = ResultOf(ExtractObject(StripFence(modelText)))) =>
            (textResult = ResultOf(ExtractObject(StripFence(modelText))))'
      BY <3>1
    <3> QED BY <3>1, <3>2 DEF ParserInv
  <2> QED BY <2>1, <2>2, <2>3, <2>4 DEF ParserNext
<1> QED BY <1>1, <1>2, PTL DEF ParserSpec

LEMMA ParserTyped == ParserSpec => []ParserTypeOK
<1>1. ParserInit => ParserTypeOK
  BY PiecesAssumption, EmptySeq DEF ParserInit, ParserTypeOK
<1>2. ParserInv /\ ParserInv' /\ ParserTypeOK /\ [ParserNext]_parserVars => ParserTypeOK'
  <2> SUFFICES ASSUME ParserInv, ParserInv', ParserTypeOK, [ParserNext]_parserVars
               PROVE  ParserTypeOK'
    OBVIOUS
  <2>1. Len(modelText') <= MaxPieces
    <3>1. ASSUME NEW piece \in Pieces, ModelWrites(piece) PROVE Len(modelText') <= MaxPieces
      <4>1. Len(modelText') = Len(modelText) + 1 /\ Len(modelText) \in Nat
        BY <3>1, AppendProperties, LenProperties DEF ModelWrites, ParserInv
      <4> QED BY <3>1, <4>1, PiecesAssumption DEF ModelWrites
    <3>2. CASE UNCHANGED modelText
      BY <3>2 DEF ParserTypeOK
    <3> QED BY <3>1, <3>2 DEF ParserNext, NoText, ParseResponse, parserVars
  <2>2. \A object : ResultOf(object) \in ParseResults
    BY DEF ResultOf, ParseResults
  <2>3. textResult' \in ParseResults \cup {"none", "raised"}
    BY <2>2 DEF ParserTypeOK, ParserNext, ModelWrites, NoText, ParseResponse, parserVars
  <2> QED BY <2>1, <2>3 DEF ParserInv, ParserTypeOK
<1> QED BY <1>1, <1>2, ParserHolds, PTL DEF ParserSpec

\* An answer is classified exactly if it holds one object with a valid payload among
\* prose without braces around it, however long it is.
THEOREM AnswersAlwaysUnderstood == ParserSpec => []AnswersAreUnderstood
BY ParserHolds, ParserUnderstands, PTL

-----------------------------------------------------------------------------
(* The backoff.                                                            *)

\* What one doubling does, capped or not.
Capped(d, max) == IF d >= max \/ d * 2 > max THEN max ELSE d * 2

Delays(f, n, base, max) ==
  f = [i \in 0..n |-> IF i = 0 THEN base
                      ELSE IF f[i - 1] >= max \/ f[i - 1] * 2 > max THEN max
                      ELSE f[i - 1] * 2]
Doublings(f, n, base) == f = [i \in 0..n |-> IF i = 0 THEN base ELSE 2 * f[i - 1]]

\* A function that gives a value for every number from the one before.
LEMMA DelaysExist ==
  ASSUME NEW n \in Nat, NEW base, NEW max
  PROVE  \E f : Delays(f, n, base, max)
<1> DEFINE S == {m \in Nat : \E f : Delays(f, m, base, max)}
<1>1. 0 \in S
  <2>1. Delays([i \in 0..0 |-> base], 0, base, max)
    BY DEF Delays
  <2> QED BY <2>1
<1>2. ASSUME NEW m \in S PROVE m + 1 \in S
  <2>1. PICK f : Delays(f, m, base, max)
    OBVIOUS
  <2> DEFINE g == [i \in 0..(m + 1) |-> IF i = m + 1 THEN Capped(f[m], max) ELSE f[i]]
  <2>2. \A i \in 0..m : f[i] = IF i = 0 THEN base ELSE Capped(f[i - 1], max)
    BY <2>1 DEF Delays, Capped
  <2>3. ASSUME NEW i \in 0..(m + 1) PROVE g[i] = IF i = 0 THEN base ELSE Capped(g[i - 1], max)
    <3>1. CASE i = m + 1
      <4>1. i # 0 /\ i - 1 \in 0..(m + 1) /\ i - 1 = m /\ m # m + 1
        BY <3>1
      <4>2. g[i] = Capped(f[m], max) /\ g[i - 1] = f[m]
        BY <3>1, <4>1
      <4> QED BY <4>1, <4>2
    <3>2. CASE i # m + 1
      <4>1. i \in 0..m /\ g[i] = f[i]
        BY <3>2
      <4>2. CASE i = 0
        BY <2>2, <4>1, <4>2
      <4>3. CASE i # 0
        <5>1. i - 1 \in 0..(m + 1) /\ i - 1 # m + 1
          BY <4>1, <4>3
        <5>2. g[i - 1] = f[i - 1]
          BY <5>1
        <5> HIDE DEF g
        <5> QED BY <2>2, <4>1, <4>3, <5>2
      <4> QED BY <4>2, <4>3
    <3> QED BY <3>1, <3>2
  <2>4. g = [i \in 0..(m + 1) |-> g[i]]
    OBVIOUS
  <2>5. Delays(g, m + 1, base, max)
    <3> HIDE DEF g
    <3> QED BY <2>3, <2>4 DEF Delays, Capped
  <2> HIDE DEF g
  <2> QED BY <2>5
<1> HIDE DEF S
<1>3. S = Nat
  <2>1. S \in SUBSET Nat
    BY DEF S
  <2> QED BY <1>1, <1>2, <2>1, NatSetInduction
<1> QED BY <1>3 DEF S

LEMMA DoublingsExist ==
  ASSUME NEW n \in Nat, NEW base
  PROVE  \E f : Doublings(f, n, base)
<1> DEFINE S == {m \in Nat : \E f : Doublings(f, m, base)}
<1>1. 0 \in S
  <2>1. Doublings([i \in 0..0 |-> base], 0, base)
    BY DEF Doublings
  <2> QED BY <2>1
<1>2. ASSUME NEW m \in S PROVE m + 1 \in S
  <2>1. PICK f : Doublings(f, m, base)
    OBVIOUS
  <2> DEFINE g == [i \in 0..(m + 1) |-> IF i = m + 1 THEN 2 * f[m] ELSE f[i]]
  <2>2. \A i \in 0..m : f[i] = IF i = 0 THEN base ELSE 2 * f[i - 1]
    BY <2>1 DEF Doublings
  <2>3. ASSUME NEW i \in 0..(m + 1) PROVE g[i] = IF i = 0 THEN base ELSE 2 * g[i - 1]
    <3>1. CASE i = m + 1
      <4>1. i # 0 /\ i - 1 \in 0..(m + 1) /\ i - 1 = m /\ m # m + 1
        BY <3>1
      <4>2. g[i] = 2 * f[m] /\ g[i - 1] = f[m]
        BY <3>1, <4>1
      <4> QED BY <4>1, <4>2
    <3>2. CASE i # m + 1
      <4>1. i \in 0..m /\ g[i] = f[i]
        BY <3>2
      <4>2. CASE i = 0
        BY <2>2, <4>1, <4>2
      <4>3. CASE i # 0
        <5>1. i - 1 \in 0..(m + 1) /\ i - 1 # m + 1
          BY <4>1, <4>3
        <5>2. g[i - 1] = f[i - 1]
          BY <5>1
        <5> HIDE DEF g
        <5> QED BY <2>2, <4>1, <4>3, <5>2
      <4> QED BY <4>2, <4>3
    <3> QED BY <3>1, <3>2
  <2>4. g = [i \in 0..(m + 1) |-> g[i]]
    OBVIOUS
  <2>5. Doublings(g, m + 1, base)
    <3> HIDE DEF g
    <3> QED BY <2>3, <2>4 DEF Doublings
  <2> HIDE DEF g
  <2> QED BY <2>5
<1> HIDE DEF S
<1>3. S = Nat
  <2>1. S \in SUBSET Nat
    BY DEF S
  <2> QED BY <1>1, <1>2, <2>1, NatSetInduction
<1> QED BY <1>3 DEF S

\* The loop of exponential_retry_delay is the doubling it stands for, for any number
\* of attempts.
THEOREM RetryDelayDoubles ==
  ASSUME NEW n \in Nat, NEW base \in Nat, NEW max \in Nat, base <= max
  PROVE  RetryDelay(n, base, max) = Lower(Doubled(n, base), max)
<1> DEFINE delay == CHOOSE f : Delays(f, n, base, max)
           doubled == CHOOSE f : Doublings(f, n, base)
<1>1. Delays(delay, n, base, max) /\ Doublings(doubled, n, base)
  BY DelaysExist, DoublingsExist
<1>2. RetryDelay(n, base, max) = delay[n] /\ Doubled(n, base) = doubled[n]
  BY DEF RetryDelay, Doubled, Delays, Doublings
<1> HIDE DEF delay, doubled
<1>3. /\ \A i \in 0..n : delay[i] = IF i = 0 THEN base ELSE Capped(delay[i - 1], max)
      /\ \A i \in 0..n : doubled[i] = IF i = 0 THEN base ELSE 2 * doubled[i - 1]
  BY <1>1 DEF Delays, Doublings, Capped
<1>4. ASSUME NEW d \in Nat PROVE Capped(Lower(d, max), max) = Lower(2 * d, max) /\ 2 * d \in Nat
  <2>1. CASE d < max
    BY <2>1 DEF Capped, Lower
  <2>2. CASE ~(d < max)
    BY <2>2 DEF Capped, Lower
  <2> QED BY <2>1, <2>2
<1> DEFINE S == {i \in Nat : i <= n => doubled[i] \in Nat /\ delay[i] = Lower(doubled[i], max)}
<1>5. 0 \in S
  <2>1. doubled[0] = base /\ delay[0] = base
    BY <1>3
  <2>2. base = Lower(base, max)
    BY DEF Lower
  <2> QED BY <2>1, <2>2
<1>6. ASSUME NEW i \in 1..n, doubled[i - 1] \in Nat, delay[i - 1] = Lower(doubled[i - 1], max)
      PROVE  doubled[i] \in Nat /\ delay[i] = Lower(doubled[i], max)
  <2>1. i \in 0..n /\ i # 0
    OBVIOUS
  <2>2. delay[i] = Capped(delay[i - 1], max) /\ doubled[i] = 2 * doubled[i - 1]
    BY <1>3, <2>1
  <2>3. Capped(Lower(doubled[i - 1], max), max) = Lower(2 * doubled[i - 1], max)
        /\ 2 * doubled[i - 1] \in Nat
    BY <1>4, <1>6
  <2> QED BY <1>6, <2>2, <2>3
<1>7. ASSUME NEW i \in S PROVE i + 1 \in S
  <2> SUFFICES ASSUME i + 1 <= n
               PROVE  doubled[i + 1] \in Nat /\ delay[i + 1] = Lower(doubled[i + 1], max)
    OBVIOUS
  <2>1. /\ i <= n /\ i + 1 \in 1..n /\ i + 1 - 1 = i
        /\ doubled[i] \in Nat /\ delay[i] = Lower(doubled[i], max)
    OBVIOUS
  <2> QED BY <1>6, <2>1
<1> HIDE DEF S
<1>8. S = Nat
  <2>1. S \in SUBSET Nat
    BY DEF S
  <2> QED BY <1>5, <1>7, <2>1, NatSetInduction
<1>9. delay[n] = Lower(doubled[n], max)
  BY <1>8 DEF S
<1> QED BY <1>2, <1>9

-----------------------------------------------------------------------------
(* The start of a process: its settings are the environment's, cleaned and *)
(* valid.                                                                  *)

SetupStages ==
  /\ SetupTypeOK
  /\ setupAt = "setting" => program = "none"
  /\ setupAt = "accepted" => program = "none"
  /\ setupAt = "accepted" \/ program # "none" =>
       loaded = Strip(environment) /\ FieldsValid(loaded) /\ SettingsValid(loaded)
  /\ setupAt = "running" => program # "none"

SetupInv == SetupStages /\ AcceptedMeansUsable

\* A variable is of one kind.
Number(v) == v \in Counts \cup Bounded
Secret(v) == v \in SigningSecrets \cup Tokens

LEMMA Kinds ==
  /\ \A v : Number(v) => /\ v \notin Urls /\ ~Secret(v) /\ v \notin Flags /\ v \notin Checked
                         /\ v # "jwt_secret" /\ v # "allowed_origins"
  /\ \A v : v \in Urls => /\ ~Secret(v) /\ v \notin Flags /\ v \notin Checked
                          /\ v # "jwt_secret" /\ v # "allowed_origins"
  /\ \A v : Secret(v) => /\ v \notin Flags /\ v \notin Checked
                         /\ v # "jwt_secret" /\ v # "allowed_origins"
  /\ \A v : v \in Flags => v \notin Checked /\ v # "jwt_secret" /\ v # "allowed_origins"
  /\ \A v : v \in Checked => v # "jwt_secret" /\ v # "allowed_origins"
<1>1. \A v : Number(v) => v \notin Urls /\ ~Secret(v)
  <2>1. \A v \in Counts : v \notin Urls /\ v \notin SigningSecrets /\ v \notin Tokens
    BY DEF Counts, Urls, SigningSecrets, Tokens
  <2>2. \A v \in Bounded : v \notin Urls /\ v \notin SigningSecrets /\ v \notin Tokens
    BY DEF Bounded, Urls, SigningSecrets, Tokens
  <2> QED BY <2>1, <2>2 DEF Number, Secret
<1>2. \A v : Number(v) => /\ v \notin Flags /\ v \notin Checked
                          /\ v # "jwt_secret" /\ v # "allowed_origins"
  <2>1. \A v \in Counts : /\ v \notin Flags /\ v \notin Checked
                          /\ v # "jwt_secret" /\ v # "allowed_origins"
    BY DEF Counts, Flags, Checked
  <2>2. \A v \in Bounded : /\ v \notin Flags /\ v \notin Checked
                           /\ v # "jwt_secret" /\ v # "allowed_origins"
    BY DEF Bounded, Flags, Checked
  <2> QED BY <2>1, <2>2 DEF Number
<1>3. \A v : v \in Urls => /\ ~Secret(v) /\ v \notin Flags /\ v \notin Checked
                           /\ v # "jwt_secret" /\ v # "allowed_origins"
  BY DEF Urls, Secret, SigningSecrets, Tokens, Flags, Checked
<1>4. \A v : Secret(v) => /\ v \notin Flags /\ v \notin Checked
                          /\ v # "jwt_secret" /\ v # "allowed_origins"
  BY DEF Secret, SigningSecrets, Tokens, Flags, Checked
<1>5. /\ \A v : v \in Flags => v \notin Checked /\ v # "jwt_secret" /\ v # "allowed_origins"
      /\ \A v : v \in Checked => v # "jwt_secret" /\ v # "allowed_origins"
  BY DEF Flags, Checked
<1> QED BY <1>1, <1>2, <1>3, <1>4, <1>5

LEMMA ValuesOfKinds ==
  /\ \A v : Number(v) => v \in Variables /\ v \notin Optional /\ Values(v) = 0..(Cap + 1)
  /\ \A v \in Urls : /\ v \in Variables /\ v \in Optional
                     /\ Values(v) = {"https", "http", "blank", Unset}
  /\ \A v : Secret(v) => v \in Variables /\ v \in Optional /\ Values(v) = Secrets
  /\ \A v \in Flags : v \in Variables /\ v \notin Optional /\ Values(v) = BOOLEAN
  /\ \A v \in Checked : v \in Variables /\ v \notin Optional /\ Values(v) = {"good", "invalid"}
  /\ "jwt_secret" \in Variables /\ "jwt_secret" \notin Optional
  /\ Values("jwt_secret") = {"good", "insecure", "invalid"}
  /\ "allowed_origins" \in Variables /\ "allowed_origins" \notin Optional
  /\ Values("allowed_origins") = {"good", "insecure"}
  /\ \A v \in Variables : \/ Number(v) \/ v \in Urls \/ Secret(v) \/ v \in Flags
                          \/ v \in Checked \/ v = "jwt_secret" \/ v = "allowed_origins"
<1>1. \A v : v \in Variables <=> \/ Number(v) \/ v \in Urls \/ Secret(v) \/ v \in Flags
                                 \/ v \in Checked \/ v = "jwt_secret" \/ v = "allowed_origins"
  BY DEF Variables, Texts, Optional, Number, Secret
<1>2. \A v : v \in Optional <=> v \in Urls \/ Secret(v)
  BY DEF Optional, Secret
<1>3. \A v : Number(v) => Values(v) = 0..(Cap + 1)
  BY Kinds DEF Values, Number, Secret
<1>4. \A v \in Urls : Values(v) = {"https", "http", "blank", Unset}
  BY Kinds DEF Values, Number, Secret
<1>5. \A v : Secret(v) => Values(v) = Secrets
  BY Kinds DEF Values, Number, Secret
<1>6. \A v \in Flags : Values(v) = BOOLEAN
  BY Kinds DEF Values, Number, Secret
<1>7. \A v \in Checked : Values(v) = {"good", "invalid"}
  BY Kinds DEF Values, Number, Secret
<1>8. Values("jwt_secret") = {"good", "insecure", "invalid"}
  BY Kinds DEF Values, Number, Secret
<1>9. Values("allowed_origins") = {"good", "insecure"}
  BY Kinds DEF Values, Number, Secret
<1> QED BY <1>1, <1>2, <1>3, <1>4, <1>5, <1>6, <1>7, <1>8, <1>9, Kinds

LEMMA LoadedTypes ==
  ASSUME \A v \in Variables : environment[v] \in Values(v), loaded = Strip(environment),
         FieldsValid(loaded)
  PROVE  /\ \A v \in Counts : loaded[v] \in Nat /\ loaded[v] >= 1
         /\ \A v \in Bounded : loaded[v] \in 1..Cap
         /\ \A v \in Urls : loaded[v] \in {"https", Unset}
<1>1. \A v \in Counts \cup Bounded :
        v \in Variables /\ v \notin Optional /\ Values(v) = 0..(Cap + 1)
  BY ValuesOfKinds DEF Number
<1>2. \A v \in Counts \cup Bounded : loaded[v] = environment[v]
  BY <1>1 DEF Strip
<1>3. \A v \in Counts \cup Bounded : loaded[v] \in 0..(Cap + 1)
  BY <1>1, <1>2
<1>4. /\ \A v \in Counts : loaded[v] >= 1
      /\ \A v \in Bounded : loaded[v] \in 1..Cap
      /\ \A v \in Urls : loaded[v] # "http"
  BY DEF FieldsValid
<1>5. \A v \in Counts : loaded[v] \in Nat
  BY <1>3, StartupAssumption
<1>6. \A v \in Urls :
        v \in Variables /\ v \in Optional /\ Values(v) = {"https", "http", "blank", Unset}
  BY ValuesOfKinds
<1>7. \A v \in Urls : loaded[v] \in {"https", "http", Unset}
  <2> SUFFICES ASSUME NEW v \in Urls PROVE loaded[v] \in {"https", "http", Unset}
    OBVIOUS
  <2>1. loaded[v] = Cleaned(environment[v]) /\ environment[v] \in {"https", "http", "blank", Unset}
    BY <1>6 DEF Strip
  <2> QED BY <2>1 DEF Cleaned, Unset
<1> QED BY <1>4, <1>5, <1>7

LEMMA LoadedDistinct ==
  ASSUME loaded = Strip(environment), SettingsValid(loaded)
  PROVE  ComparedPairsDiffer(environment)
<1>1. \A v \in Optional : v \in Variables
  BY DEF Variables
<1>2. \A v \in Optional : environment[v] \in {"A", "paddedA"} => loaded[v] = "A"
  BY <1>1 DEF Strip, Cleaned
<1>3. /\ loaded["admin_token"] = "A" => loaded["queue_metrics_token"] # "A"
      /\ loaded["alert_webhook_secret"] = "A" => loaded["crm_webhook_secret"] # "A"
  BY DEF SettingsValid, Given, Unset
<1>4. /\ "admin_token" \in Optional /\ "queue_metrics_token" \in Optional
      /\ "alert_webhook_secret" \in Optional /\ "crm_webhook_secret" \in Optional
  BY DEF Optional, Urls, SigningSecrets, Tokens
<1>5. ASSUME NEW v \in {"admin_token", "queue_metrics_token"},
             NEW w \in {"admin_token", "queue_metrics_token"}, v # w,
             environment[v] \in {"A", "paddedA"}, environment[w] \in {"A", "paddedA"}
      PROVE  FALSE
  BY <1>2, <1>3, <1>4, <1>5
<1>6. ASSUME NEW v \in {"crm_webhook_secret", "alert_webhook_secret"},
             NEW w \in {"crm_webhook_secret", "alert_webhook_secret"}, v # w,
             environment[v] \in {"A", "paddedA"}, environment[w] \in {"A", "paddedA"}
      PROVE  FALSE
  BY <1>2, <1>3, <1>4, <1>6
<1> QED BY <1>5, <1>6 DEF ComparedPairsDiffer

LEMMA ExamplesTyped ==
  \A e \in Examples : DOMAIN e = Variables /\ \A v \in Variables : e[v] \in Values(v)
<1>1. \A v \in Variables : Defaults[v] \in Values(v)
  <2> SUFFICES ASSUME NEW v \in Variables PROVE Defaults[v] \in Values(v)
    OBVIOUS
  <2>1. Defaults[v] = CASE v \in Counts \cup Bounded -> Cap
                        [] v \in Optional -> Unset
                        [] v \in Flags -> FALSE
                        [] v \in Texts -> "good"
    BY DEF Defaults
  <2>2. CASE Number(v)
    <3>1. Defaults[v] = Cap
      BY <2>1, <2>2, ValuesOfKinds, Kinds DEF Number, Texts
    <3> QED BY <2>2, <3>1, ValuesOfKinds, StartupAssumption
  <2>3. CASE v \in Urls
    <3>1. Defaults[v] = Unset
      BY <2>1, <2>3, ValuesOfKinds, Kinds DEF Number, Texts
    <3> QED BY <2>3, <3>1, ValuesOfKinds
  <2>4. CASE Secret(v)
    <3>1. Defaults[v] = Unset
      BY <2>1, <2>4, ValuesOfKinds, Kinds DEF Number, Texts
    <3> QED BY <2>4, <3>1, ValuesOfKinds DEF Secrets
  <2>5. CASE v \in Flags
    <3>1. Defaults[v] = FALSE
      BY <2>1, <2>5, ValuesOfKinds, Kinds DEF Number, Texts
    <3> QED BY <2>5, <3>1, ValuesOfKinds
  <2>6. CASE v \in Checked \/ v = "jwt_secret" \/ v = "allowed_origins"
    <3>1. Defaults[v] = "good"
      BY <2>1, <2>6, ValuesOfKinds, Kinds DEF Number, Texts
    <3> QED BY <2>6, <3>1, ValuesOfKinds
  <2> QED BY <2>2, <2>3, <2>4, <2>5, <2>6, ValuesOfKinds
<1>2. /\ Values("crm_webhook_url") = {"https", "http", "blank", Unset}
      /\ Values("crm_webhook_secret") = Secrets /\ Values("hubspot_access_token") = Secrets
      /\ Values("admin_token") = Secrets /\ Values("queue_metrics_token") = Secrets
      /\ Values("hubspot") = BOOLEAN /\ Values("production") = BOOLEAN
  <2>1. /\ "crm_webhook_url" \in Urls /\ Secret("crm_webhook_secret")
        /\ Secret("hubspot_access_token") /\ Secret("admin_token")
        /\ Secret("queue_metrics_token") /\ "hubspot" \in Flags /\ "production" \in Flags
    BY DEF Urls, Secret, SigningSecrets, Tokens, Flags
  <2> QED BY <2>1, ValuesOfKinds
<1>3. "A" \in Secrets /\ "B" \in Secrets
  BY DEF Secrets
<1>4. Defaults = [v \in Variables |-> Defaults[v]]
  <2>1. \A f, S : f = [v \in S |-> CASE v \in Counts \cup Bounded -> Cap
                                    [] v \in Optional -> Unset
                                    [] v \in Flags -> FALSE
                                    [] v \in Texts -> "good"] => f = [v \in S |-> f[v]]
    OBVIOUS
  <2> QED BY <2>1 DEF Defaults
<1>5. DOMAIN Defaults = Variables
  BY <1>4
<1>6. /\ DOMAIN Webhook = Variables /\ DOMAIN HubSpot = Variables
      /\ DOMAIN Production = Variables
  BY <1>5 DEF Webhook, HubSpot, Production
<1>7. Webhook = [v \in Variables |-> Webhook[v]] /\ \A v \in Variables : Webhook[v] \in Values(v)
  BY <1>1, <1>2, <1>3, <1>4 DEF Webhook
<1>8. \A v \in Variables : HubSpot[v] \in Values(v)
  BY <1>1, <1>2, <1>3, <1>4 DEF HubSpot
<1>9. \A v \in Variables : Production[v] \in Values(v)
  BY <1>2, <1>3, <1>7 DEF Production
<1> QED BY <1>1, <1>5, <1>6, <1>7, <1>8, <1>9 DEF Examples

\* Cleaning a value leaves it of its kind.
LEMMA StripTyped ==
  ASSUME NEW env, \A v \in Variables : env[v] \in Values(v)
  PROVE  DOMAIN Strip(env) = Variables /\ \A v \in Variables : Strip(env)[v] \in Values(v)
<1>0. DOMAIN Strip(env) = Variables
  BY DEF Strip
<1> SUFFICES ASSUME NEW v \in Variables PROVE Strip(env)[v] \in Values(v)
  BY <1>0
<1>1. Strip(env)[v] = IF v \in Optional THEN Cleaned(env[v]) ELSE env[v]
  BY DEF Strip
<1>2. CASE v \in Urls
  <2>1. Strip(env)[v] = Cleaned(env[v])
    BY <1>1, <1>2, ValuesOfKinds
  <2>2. env[v] \in {"https", "http", "blank", Unset} /\ Values(v) = {"https", "http", "blank", Unset}
    BY <1>2, ValuesOfKinds
  <2> QED BY <2>1, <2>2 DEF Cleaned, Unset
<1>3. CASE Secret(v)
  <2>1. Strip(env)[v] = Cleaned(env[v]) /\ env[v] \in Secrets /\ Values(v) = Secrets
    BY <1>1, <1>3, ValuesOfKinds
  <2> QED BY <2>1 DEF Cleaned, Secrets, Unset
<1>4. CASE v \notin Urls /\ ~Secret(v)
  <2>1. v \notin Optional
    BY <1>4 DEF Optional, Secret
  <2> QED BY <1>1, <2>1
<1> QED BY <1>2, <1>3, <1>4

\* What the settings are once they are accepted.
SettingsAccepted ==
  loaded = Strip(environment) /\ FieldsValid(loaded) /\ SettingsValid(loaded)

LEMMA EnvironmentKeeps ==
  ASSUME SetupInv, setupAt = "setting", UNCHANGED <<setupAt, loaded, program, args>>,
         DOMAIN environment' = Variables, \A v \in Variables : environment'[v] \in Values(v),
         changed' \in SUBSET Variables
  PROVE  SetupInv'
<1>1. program = "none"
  BY DEF SetupInv, SetupStages
<1>2. SetupTypeOK'
  BY DEF SetupInv, SetupStages, SetupTypeOK
<1> QED BY <1>1, <1>2 DEF SetupInv, SetupStages, AcceptedMeansUsable

LEMMA LoadKeeps == ASSUME SetupInv, LoadSettings PROVE SetupInv'
<1>1. /\ setupAt = "setting" /\ program = "none"
      /\ UNCHANGED <<environment, changed, program, args>>
  BY DEF LoadSettings, SetupInv, SetupStages
<1>2. CASE setupAt' = "accepted" /\ loaded' = Strip(environment) /\ FieldsValid(loaded')
           /\ SettingsValid(loaded')
  <2>1. DOMAIN loaded' = Variables /\ \A v \in Variables : loaded'[v] \in Values(v)
    BY <1>2, StripTyped DEF SetupInv, SetupStages, SetupTypeOK
  <2>2. SetupTypeOK'
    BY <1>1, <1>2, <2>1 DEF SetupInv, SetupStages, SetupTypeOK
  <2>3. loaded' = Strip(environment')
    BY <1>1, <1>2
  <2> QED BY <1>1, <1>2, <2>2, <2>3 DEF SetupInv, SetupStages, AcceptedMeansUsable
<1>3. CASE setupAt' = "stopped" /\ UNCHANGED loaded
  <2>1. SetupTypeOK'
    BY <1>1, <1>3 DEF SetupInv, SetupStages, SetupTypeOK
  <2> QED BY <1>1, <1>3, <2>1 DEF SetupInv, SetupStages, AcceptedMeansUsable
<1> QED BY <1>2, <1>3 DEF LoadSettings

\* A process that starts: what is left to show is that it can use what it is given.
LEMMA StartKeeps ==
  ASSUME SetupInv, setupAt = "accepted", UNCHANGED <<environment, changed, loaded>>,
         setupAt' \in {"running", "stopped"},
         program' \in {"api", "classification", "oneshot", "crm_retry"}, args' \in Arguments,
         program' = "api" => setupAt' = "running",
         setupAt' = "running" /\ program' \in {"classification", "oneshot"} =>
           args'.limit \in 1..Cap,
         setupAt' = "running" /\ program' = "crm_retry" =>
           /\ args'.limit \in 1..Cap
           /\ BackoffUsable(args'.base, args'.max)
           /\ loaded["hubspot"] => loaded["crm_webhook_secret"] = Unset
           /\ ~loaded["hubspot"] => loaded["crm_webhook_url"] = "https"
  PROVE  SetupInv'
<1>1. SettingsAccepted /\ SetupTypeOK
  BY DEF SetupInv, SetupStages, SettingsAccepted
<1>2. ComparedPairsDiffer(environment)
  BY <1>1, LoadedDistinct DEF SettingsAccepted
<1>3. SetupTypeOK'
  BY <1>1 DEF SetupTypeOK
<1>4. environment' = environment /\ loaded' = loaded
  OBVIOUS
<1>5. ComparedPairsDiffer(environment')
  BY <1>2, <1>4
<1>6. AcceptedMeansUsable'
  BY <1>4, <1>5 DEF AcceptedMeansUsable
<1>7. loaded' = Strip(environment') /\ FieldsValid(loaded') /\ SettingsValid(loaded')
  BY <1>1, <1>4 DEF SettingsAccepted
<1> QED BY <1>3, <1>6, <1>7 DEF SetupInv, SetupStages

LEMMA ApiKeeps == ASSUME SetupInv, StartApi PROVE SetupInv'
<1>1. /\ setupAt = "accepted" /\ program' = "api"
      /\ UNCHANGED <<environment, changed, loaded, args>>
      /\ setupAt' = IF ApiBuilds(loaded) THEN "running" ELSE "stopped"
  BY DEF StartApi
<1>2. SettingsAccepted /\ SetupTypeOK
  BY <1>1 DEF SetupInv, SetupStages, SettingsAccepted
<1>3. ApiBuilds(loaded)
  BY <1>2 DEF SettingsAccepted, FieldsValid, ApiBuilds, Counts
<1>4. args' \in Arguments
  BY <1>1, <1>2 DEF SetupTypeOK
<1> QED BY <1>1, <1>3, <1>4, StartKeeps

LEMMA ClassificationKeeps ==
  ASSUME SetupInv, NEW which \in {"classification", "oneshot"}, StartClassification(which)
  PROVE  SetupInv'
<1>1. /\ setupAt = "accepted" /\ program' = which
      /\ UNCHANGED <<environment, changed, loaded>>
  BY DEF StartClassification
<1>2. args \in Arguments
  BY DEF SetupInv, SetupStages, SetupTypeOK
<1>3. PICK limit \in 0..(Cap + 1) :
        IF Limit(limit)
        THEN setupAt' = "running" /\ args' = [args EXCEPT !.limit = limit]
        ELSE setupAt' = "stopped" /\ UNCHANGED args
  BY DEF StartClassification
<1>4. CASE Limit(limit)
  <2>1. args' \in Arguments /\ args'.limit = limit /\ setupAt' = "running"
    BY <1>2, <1>3, <1>4 DEF Arguments
  <2>2. limit \in 1..Cap
    BY <1>4, StartupAssumption DEF Limit, Positive
  <2> QED BY <1>1, <2>1, <2>2, StartKeeps
<1>5. CASE ~Limit(limit)
  BY <1>1, <1>2, <1>3, <1>5, StartKeeps
<1> QED BY <1>4, <1>5

LEMMA CrmRetryKeeps == ASSUME SetupInv, StartCrmRetry PROVE SetupInv'
<1>1. /\ setupAt = "accepted" /\ program' = "crm_retry"
      /\ UNCHANGED <<environment, changed, loaded>>
  BY DEF StartCrmRetry
<1>2. SettingsAccepted /\ SetupTypeOK
  BY <1>1 DEF SetupInv, SetupStages, SettingsAccepted
<1> DEFINE Or(given, v) == IF given = NotGiven THEN loaded[v] ELSE given
           Args(limit, base, max) ==
             [limit |-> Or(limit, "crm_retry_batch_size"),
              base |-> Or(base, "crm_retry_base_seconds"),
              max |-> Or(max, "crm_retry_max_seconds")]
<1>3. PICK limit \in NotGiven..(Cap + 1), base \in NotGiven..(Cap + 1),
           max \in NotGiven..(Cap + 1) :
        IF /\ limit = NotGiven \/ Limit(limit)
           /\ base = NotGiven \/ Positive(base)
           /\ max = NotGiven \/ Positive(max)
           /\ RangeValid(Args(limit, base, max))
           /\ DispatcherConfigured(loaded)
        THEN setupAt' = "running" /\ args' = Args(limit, base, max)
        ELSE setupAt' = "stopped" /\ UNCHANGED args
  BY DEF StartCrmRetry
<1>4. CASE ~(/\ limit = NotGiven \/ Limit(limit)
             /\ base = NotGiven \/ Positive(base)
             /\ max = NotGiven \/ Positive(max)
             /\ RangeValid(Args(limit, base, max))
             /\ DispatcherConfigured(loaded))
  <2>1. setupAt' = "stopped" /\ args' \in Arguments
    BY <1>2, <1>3, <1>4 DEF SetupTypeOK
  <2> QED BY <1>1, <2>1, StartKeeps
<1>5. CASE /\ limit = NotGiven \/ Limit(limit)
           /\ base = NotGiven \/ Positive(base)
           /\ max = NotGiven \/ Positive(max)
           /\ RangeValid(Args(limit, base, max))
           /\ DispatcherConfigured(loaded)
  <2> DEFINE a == Args(limit, base, max)
  <2>1. setupAt' = "running" /\ args' = a
    BY <1>3, <1>5
  <2>2. /\ \A v \in Counts : loaded[v] \in Nat /\ loaded[v] >= 1
        /\ \A v \in Bounded : loaded[v] \in 1..Cap
        /\ \A v \in Urls : loaded[v] \in {"https", Unset}
    BY <1>2, LoadedTypes DEF SettingsAccepted, SetupTypeOK
  <2>3. \A v : Number(v) => loaded[v] \in 0..(Cap + 1)
    <3>1. \A v : Number(v) => v \in Variables /\ Values(v) = 0..(Cap + 1)
      BY ValuesOfKinds
    <3>2. \A v \in Variables : loaded[v] \in Values(v)
      BY <1>2 DEF SetupTypeOK
    <3> QED BY <3>1, <3>2
  <2>4. /\ "crm_retry_batch_size" \in Bounded /\ "crm_retry_base_seconds" \in Counts
        /\ "crm_retry_max_seconds" \in Counts /\ Number("crm_retry_base_seconds")
        /\ Number("crm_retry_max_seconds") /\ "crm_webhook_url" \in Urls
    BY DEF Bounded, Counts, Number, Urls
  <2>5. Cap \in Nat /\ NotGiven = -1
    BY StartupAssumption DEF NotGiven
  <2>6. Or(limit, "crm_retry_batch_size") \in 1..Cap
    BY <1>5, <2>2, <2>4, <2>5 DEF Limit, Positive
  <2>7. /\ Or(base, "crm_retry_base_seconds") \in 0..(Cap + 1)
        /\ Or(base, "crm_retry_base_seconds") >= 1
    BY <1>5, <2>2, <2>3, <2>4, <2>5 DEF Positive
  <2>8. Or(max, "crm_retry_max_seconds") \in 0..(Cap + 1)
    BY <1>5, <2>2, <2>3, <2>4, <2>5 DEF Positive
  <2> HIDE DEF Or
  <2>9. /\ a.limit = Or(limit, "crm_retry_batch_size")
        /\ a.base = Or(base, "crm_retry_base_seconds")
        /\ a.max = Or(max, "crm_retry_max_seconds")
    OBVIOUS
  <2>10. a \in Arguments
    BY <2>5, <2>6, <2>7, <2>8 DEF Arguments
  <2>11. a.max >= a.base
    BY <1>5 DEF RangeValid
  <2> HIDE DEF a, Args
  <2>12. BackoffUsable(a.base, a.max)
    <3>1. a.base \in Nat /\ a.max \in Nat /\ a.base <= a.max /\ a.base >= 1
      BY <2>5, <2>7, <2>8, <2>9, <2>11
    <3>2. \A n \in 1..MaxDelays : n \in Nat
      BY StartupAssumption
    <3>3. \A n \in 1..MaxDelays : RetryDelay(n, a.base, a.max) = Lower(Doubled(n, a.base), a.max)
      BY <3>1, <3>2, RetryDelayDoubles
    <3> QED BY <2>11, <3>1, <3>3 DEF BackoffUsable
  <2>13. loaded["hubspot"] => loaded["crm_webhook_secret"] = Unset
    BY <1>2 DEF SettingsAccepted, SettingsValid, ProviderValid, Given
  <2>14. ~loaded["hubspot"] => loaded["crm_webhook_url"] = "https"
    <3> SUFFICES ASSUME ~loaded["hubspot"] PROVE loaded["crm_webhook_url"] = "https"
      OBVIOUS
    <3>1. loaded["crm_webhook_url"] # Unset
      BY <1>5 DEF DispatcherConfigured, Given
    <3> QED BY <2>2, <2>4, <3>1
  <2>15. args'.limit \in 1..Cap /\ args' \in Arguments /\ BackoffUsable(args'.base, args'.max)
    BY <2>1, <2>6, <2>9, <2>10, <2>12
  <2> QED BY <1>1, <2>1, <2>13, <2>14, <2>15, StartKeeps
<1> QED BY <1>4, <1>5

LEMMA SetupStart == SetupInit => SetupInv
<1> SUFFICES ASSUME SetupInit PROVE SetupInv
  OBVIOUS
<1>1. DOMAIN Defaults = Variables /\ \A v \in Variables : Defaults[v] \in Values(v)
  BY ExamplesTyped DEF Examples
<1>2. NoArguments \in Arguments
  BY StartupAssumption DEF NoArguments, Arguments
<1>3. SetupTypeOK
  BY <1>1, <1>2 DEF SetupInit, SetupTypeOK, NoSettings
<1> QED BY <1>3 DEF SetupInit, SetupInv, SetupStages, AcceptedMeansUsable

LEMMA SetupStep == SetupInv /\ [SetupNext]_setupVars => SetupInv'
<1> SUFFICES ASSUME SetupInv, [SetupNext]_setupVars PROVE SetupInv'
  OBVIOUS
<1>1. ASSUME NEW example \in Examples, ChooseExample(example) PROVE SetupInv'
  <2>1. /\ setupAt = "setting" /\ environment' = example /\ changed' = changed
        /\ UNCHANGED <<setupAt, loaded, program, args>>
    BY <1>1 DEF ChooseExample
  <2>2. DOMAIN environment' = Variables /\ \A v \in Variables : environment'[v] \in Values(v)
    BY <2>1, ExamplesTyped
  <2>3. changed' \in SUBSET Variables
    BY <2>1 DEF SetupInv, SetupStages, SetupTypeOK
  <2> QED BY <2>1, <2>2, <2>3, EnvironmentKeeps
<1>2. ASSUME NEW v \in Variables, NEW value \in Values(v), SetVariable(v, value) PROVE SetupInv'
  <2>1. /\ setupAt = "setting" /\ environment' = [environment EXCEPT ![v] = value]
        /\ changed' = changed \cup {v} /\ UNCHANGED <<setupAt, loaded, program, args>>
    BY <1>2 DEF SetVariable
  <2>2. DOMAIN environment' = Variables /\ \A w \in Variables : environment'[w] \in Values(w)
    BY <1>2, <2>1 DEF SetupInv, SetupStages, SetupTypeOK
  <2>3. changed' \in SUBSET Variables
    BY <2>1 DEF SetupInv, SetupStages, SetupTypeOK
  <2> QED BY <2>1, <2>2, <2>3, EnvironmentKeeps
<1>3. CASE LoadSettings
  BY <1>3, LoadKeeps
<1>4. CASE StartApi
  BY <1>4, ApiKeeps
<1>5. CASE StartCrmRetry
  BY <1>5, CrmRetryKeeps
<1>6. ASSUME NEW which \in {"classification", "oneshot"}, StartClassification(which)
      PROVE  SetupInv'
  BY <1>6, ClassificationKeeps
<1>7. CASE UNCHANGED setupVars
  <2>1. UNCHANGED <<setupAt, environment, changed, loaded, program, args>>
    BY <1>7 DEF setupVars
  <2>2. SetupTypeOK'
    BY <2>1 DEF SetupInv, SetupStages, SetupTypeOK
  <2>3. AcceptedMeansUsable'
    BY <2>1 DEF SetupInv, AcceptedMeansUsable, ComparedPairsDiffer, BackoffUsable
  <2>4. SetupStages'
    BY <2>1, <2>2 DEF SetupInv, SetupStages
  <2> QED BY <2>3, <2>4 DEF SetupInv
<1> QED BY <1>1, <1>2, <1>3, <1>4, <1>5, <1>6, <1>7 DEF SetupNext

\* Whatever the environment and the command line say, a process that starts meets the
\* preconditions of its parts, its backoff doubles and is capped, and neither the two
\* tokens of the API nor the two webhook secrets are the same.
THEOREM AcceptedAlwaysUsable == SetupSpec => []AcceptedMeansUsable
<1>1. SetupInv => AcceptedMeansUsable
  BY DEF SetupInv
<1> QED BY <1>1, SetupStart, SetupStep, PTL DEF SetupSpec

-----------------------------------------------------------------------------
(* The composition.                                                        *)

\* The composition behaves like each of its parts: a step of one is a stuttering step
\* of the others.
LEMMA ServiceImplementsParts ==
  ServiceSpec =>
    /\ Spec /\ BodySpec /\ AddressSpec /\ PagesSpec
    /\ MetricsSpec /\ ParserSpec /\ SetupSpec /\ LimiterSpec
<1>1. ServiceInit =>
        /\ Init /\ BodyInit /\ AddressInit /\ PagesInit
        /\ MetricsInit /\ ParserInit /\ SetupInit /\ LimiterInit
  BY DEF ServiceInit
<1>2. [ServiceNext]_<<active, allVars>> =>
        /\ [Next]_vars /\ [BodyNext]_bodyVars /\ [AddressNext]_addrVars
        /\ [PagesNext]_pageVars /\ [MetricsNext]_countVars
        /\ [ParserNext]_parserVars /\ [SetupNext]_setupVars /\ [LimiterNext]_limiterVars
  BY DEF ServiceNext, allVars, IntakeMoves, BodyMoves, AddressMoves, PagesMove, MetricsMove,
         ParserMoves, SetupMoves, LimiterMoves
<1> QED BY <1>1, <1>2, PTL DEF ServiceSpec, Spec, BodySpec, AddressSpec, PagesSpec,
                              MetricsSpec, ParserSpec, SetupSpec, LimiterSpec

\* Every part of the service keeps its types.
THEOREM ServiceTypeCorrect == ServiceSpec => []ServiceTypeOK
<1>1. Spec => []TypeOK
  <2>1. IntakeInv => TypeOK
    BY DEF IntakeInv
  <2> QED BY <2>1, IntakeInit, IntakeNext, PTL DEF Spec
<1>2. SetupSpec => []SetupTypeOK
  <2>1. SetupInv => SetupTypeOK
    BY DEF SetupInv, SetupStages
  <2> QED BY <2>1, SetupStart, SetupStep, PTL DEF SetupSpec
<1>3. /\ TypeOK /\ BodyTypeOK /\ AddressTypeOK /\ PagesTypeOK
      /\ MetricsTypeOK /\ ParserTypeOK /\ SetupTypeOK /\ LimiterTypeOK
      => ServiceTypeOK
  BY DEF ServiceTypeOK
<1> QED BY <1>1, <1>2, <1>3, BodyTyped, AddressTyped, PagesTyped, MetricsTyped, ParserTyped,
           LimiterTypeCorrect, ServiceImplementsParts, PTL
=============================================================================
