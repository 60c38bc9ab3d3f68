------------------------------ MODULE LeadPages ------------------------------
(***************************************************************************)
(* GET /leads and GET /leads/export/csv: one reader walks through the      *)
(* leads that match its filters, page by page, newest first, by offset and *)
(* limit, while leads are stored and classified.                           *)
(***************************************************************************)
EXTENDS Naturals, FiniteSets, FiniteSetsExt

CONSTANTS
  PageLeads,    \* rows
  MaxTime,      \* bound: values of created_at
  MaxLimit      \* the largest limit of the endpoint

ASSUME PagesAssumption ==
  IsFiniteSet(PageLeads) /\ MaxTime \in Nat \ {0} /\ MaxLimit \in Nat \ {0}

VARIABLES
  pageTime,     \* created_at of a row; 0 while there is no row
  pageStatus,   \* classification_status
  pageWalk,     \* where the reader is
  pageQuery,    \* its filters and limit
  pageOffset,   \* the offset of its next request
  pageSeen,     \* the rows it was given
  pageOwed      \* history: the rows that matched when it began

pageVars == <<pageTime, pageStatus, pageWalk, pageQuery, pageOffset, pageSeen, pageOwed>>

Times == 1..MaxTime
\* "settled" stands for classified and failed.
Statuses == {"pending", "settled"}
AnyStatus == "any"
NoQuery == [status |-> AnyStatus, from |-> 1, to |-> MaxTime, limit |-> 1, total |-> TRUE]
\* total: the endpoint tells how many rows match (the CSV export does not).
Queries == [status : Statuses \cup {AnyStatus}, from : Times, to : Times,
            limit : 1..MaxLimit, total : BOOLEAN]

PagesTypeOK ==
  /\ pageTime \in [PageLeads -> 0..MaxTime]
  /\ pageStatus \in [PageLeads -> Statuses]
  /\ pageWalk \in {"none", "reading", "finished", "refused", "failed"}
  /\ pageQuery \in Queries
  /\ pageOffset \in Nat
  /\ pageSeen \in SUBSET PageLeads
  /\ pageOwed \in SUBSET PageLeads

PagesInit ==
  /\ pageTime = [l \in PageLeads |-> 0]
  /\ pageStatus = [l \in PageLeads |-> "pending"]
  /\ pageWalk = "none" /\ pageQuery = NoQuery /\ pageOffset = 0
  /\ pageSeen = {} /\ pageOwed = {}

-----------------------------------------------------------------------------
(* The table.                                                              *)

\* A row appears when its insert commits, with the time at which that began: rows
\* appear in any order of their created_at, which need not be distinct.
PageLeadStored(l, t) ==
  /\ pageTime[l] = 0
  /\ pageTime' = [pageTime EXCEPT ![l] = t]
  /\ UNCHANGED <<pageStatus, pageWalk, pageQuery, pageOffset, pageSeen, pageOwed>>

\* A worker settles a lead, for good.
PageLeadSettled(l) ==
  /\ pageTime[l] > 0 /\ pageStatus[l] = "pending"
  /\ pageStatus' = [pageStatus EXCEPT ![l] = "settled"]
  /\ UNCHANGED <<pageTime, pageWalk, pageQuery, pageOffset, pageSeen, pageOwed>>

-----------------------------------------------------------------------------
(* read_leads, export_leads_csv and list_leads.                            *)

\* _classification_status_filter: the filter and its alias must not contradict.
Contradict(status, alias) == status # AnyStatus /\ alias # AnyStatus /\ status # alias
EffectiveStatus(status, alias) == IF status # AnyStatus THEN status ELSE alias

Matching(q) ==
  {l \in PageLeads : /\ pageTime[l] \in q.from..q.to
                     /\ q.status \in {AnyStatus, pageStatus[l]}}

\* A reader without a date leaves the end of the range open.
BeginWalk ==
  /\ pageWalk = "none"
  /\ \E q \in Queries, alias \in Statuses \cup {AnyStatus} :
       LET effective == [q EXCEPT !.status = EffectiveStatus(q.status, alias)] IN
       IF q.from > q.to \/ Contradict(q.status, alias)
       THEN pageWalk' = "refused" /\ UNCHANGED <<pageQuery, pageOwed>>
       ELSE /\ pageWalk' = "reading"
            /\ pageQuery' = effective
            /\ pageOwed' = Matching(effective)
  /\ UNCHANGED <<pageTime, pageStatus, pageOffset, pageSeen>>

\* Mutated form: the query is not ordered.
Unordered(a, b) == TRUE

\* order("created_at", desc=True): a may come before b.
MayPrecede(a, b) == pageTime[a] >= pageTime[b]

\* range(offset, offset + limit - 1) of the ordered rows: the rows skipped, and the
\* page.  Rows of the same created_at come in any order, a new one in each request.
Ahead(ls, of) == \A a \in ls, b \in of \ ls : MayPrecede(a, b)
PagesAt(offset, limit, rows) ==
  {page \in SUBSET rows : \E skipped \in SUBSET (rows \ page) :
     /\ Cardinality(skipped) = Min({offset, Cardinality(rows)})
     /\ Cardinality(page) = Min({limit, Cardinality(rows) - Cardinality(skipped)})
     /\ Ahead(skipped, rows)
     /\ Ahead(page, rows \ skipped)}

\* One request; the reader goes on while there is more, as far as it is told.
ReadPage ==
  /\ pageWalk = "reading"
  /\ LET rows == Matching(pageQuery) IN
     \E page \in PagesAt(pageOffset, pageQuery.limit, rows) :
       /\ pageSeen' = pageSeen \cup page
       /\ pageOffset' = pageOffset + pageQuery.limit
       /\ pageWalk' = IF \/ Cardinality(page) < pageQuery.limit
                         \/ pageQuery.total /\ pageOffset' >= Cardinality(rows)
                      THEN "finished" ELSE "reading"
  /\ UNCHANGED <<pageTime, pageStatus, pageQuery, pageOwed>>

\* LeadRepositoryLookupError, 503.
ReadPageFails ==
  /\ pageWalk = "reading"
  /\ pageWalk' = "failed"
  /\ UNCHANGED <<pageTime, pageStatus, pageQuery, pageOffset, pageSeen, pageOwed>>

PagesNext ==
  \/ \E l \in PageLeads :
       \/ \E t \in Times : PageLeadStored(l, t)
       \/ PageLeadSettled(l)
  \/ BeginWalk \/ ReadPage \/ ReadPageFails

PagesSpec == PagesInit /\ [][PagesNext]_pageVars

-----------------------------------------------------------------------------
(* Properties.                                                             *)

\* Rows that share their created_at with another row have no fixed place.
Tied(l) == \E other \in PageLeads \ {l} : pageTime[other] = pageTime[l]

\* A walk that ends has met every lead that matched when it began, however many
\* leads are stored meanwhile and wherever they sort in: they only push rows
\* towards later pages.  Not so if it filters for pending leads, whose
\* classification pulls rows towards pages that have been read.
WalkMissesNothing ==
  pageWalk = "finished" /\ pageQuery.status # "pending" =>
    \A l \in pageOwed : l \in pageSeen \/ Tied(l)
=============================================================================
