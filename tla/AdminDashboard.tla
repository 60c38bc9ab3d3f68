--------------------------- MODULE AdminDashboard ----------------------------
(***************************************************************************)
(* The script of the admin page: five kinds of requests, each with an      *)
(* abort controller that remembers the newest one, a lead table, a modal   *)
(* detail dialog with its sync button, and the two credentials.            *)
(*                                                                         *)
(* An action is a task of the browser's event loop: a handler, or the      *)
(* arrival of headers or a body, with the microtasks it causes.  The       *)
(* continuations of aborted requests are such microtasks: they run after   *)
(* the handler that aborted them and see what it has left.  While the      *)
(* dialog is open the rest of the page is inert; confirm() blocks.         *)
(***************************************************************************)
EXTENDS Naturals, FiniteSets

CONSTANTS
  Leads,       \* leads in the table
  Classified,  \* those with classification_status 'classified'
  Filters,     \* values of the two filters
  Tokens,      \* credentials somebody may enter
  NoToken,     \* no credential saved
  None,        \* null
  Ids          \* names of abort controllers

ASSUME PageAssumption ==
  /\ Classified \subseteq Leads
  /\ NoToken \notin Tokens
  /\ None \notin Leads \cup Filters \cup Ids
  /\ Leads \cap {"empty", "loading", "error"} = {}
  /\ \A i \in Ids \cup {None} : \E j \in Ids : j # i   \* a controller can be new

VARIABLES
  adminToken, queueToken,  \* localStorage
  filter,      \* the selected filters
  requests,    \* fetches in flight, and bodies being read
  controller,  \* the newest abort controller of each kind, or null
  refreshing,  \* what refreshInFlight still waits for
  table,       \* the rows shown: with which token and filter they were fetched
  tableBusy,   \* aria-busy of the table
  metrics,     \* the token the queue metrics shown were fetched with
  exportBusy,  \* the export button is busy
  open,        \* the dialog is open
  selected,    \* selectedLead, and the token it was fetched with
  content,     \* what the dialog shows: a lead, or a text
  wanted,      \* detailRequestId, if it is a request's
  syncButton

page == <<table, tableBusy, metrics, exportBusy>>
dialog == <<open, selected, content, wanted, syncButton>>
vars == <<adminToken, queueToken, filter, requests, controller, refreshing, table,
          tableBusy, metrics, exportBusy, open, selected, content, wanted, syncButton>>

Kinds == {"queue", "list", "detail", "sync", "export"}
AdminKinds == Kinds \ {"queue"}
NoRows == [token |-> NoToken, filter |-> None]
Nothing == [lead |-> None, token |-> NoToken]
Requests == [kind : Kinds, id : Ids, token : Tokens, about : Leads \cup Filters \cup {None},
             stage : {"sent", "ok body", "error body"}]

TypeOK ==
  /\ adminToken \in Tokens \cup {NoToken} /\ queueToken \in Tokens \cup {NoToken}
  /\ filter \in Filters
  /\ requests \in SUBSET Requests
  /\ controller \in [Kinds -> Ids \cup {None}]
  /\ refreshing \in SUBSET (Kinds \X Ids)
  /\ table \in [token : Tokens, filter : Filters] \cup {NoRows}
  /\ tableBusy \in BOOLEAN /\ exportBusy \in BOOLEAN /\ open \in BOOLEAN
  /\ metrics \in Tokens \cup {NoToken}
  /\ selected \in [lead : Leads, token : Tokens] \cup {Nothing}
  /\ content \in Leads \cup {"empty", "loading", "error"}
  /\ wanted \in Ids \cup {None}
  /\ syncButton \in {"disabled", "enabled", "busy"}

Init ==
  /\ adminToken \in Tokens \cup {NoToken} /\ queueToken \in Tokens \cup {NoToken}
  /\ filter \in Filters
  /\ requests = {} /\ refreshing = {}
  /\ controller = [k \in Kinds |-> None]
  /\ table = NoRows /\ tableBusy = FALSE /\ metrics = NoToken /\ exportBusy = FALSE
  /\ open = FALSE /\ selected = Nothing /\ content = "empty" /\ wanted = None
  /\ syncButton = "disabled"

-----------------------------------------------------------------------------
(* Requests and their controllers.                                         *)

Key(r) == <<r.kind, r.id>>

\* What abort() reaches.
Current(kinds) == {r \in requests : r.kind \in kinds /\ controller[r.kind] = r.id}

NewId(k) ==
  CHOOSE i \in Ids : controller[k] # i /\ \A r \in requests : r.kind = k => r.id # i

Request(k, token, about) ==
  [kind |-> k, id |-> NewId(k), token |-> token, about |-> about, stage |-> "sent"]

\* The controllers once new requests have replaced those of a kind and others
\* have been set to null.
Replaced(cancelled, new) ==
  [k \in Kinds |-> IF \E n \in new : n.kind = k THEN (CHOOSE n \in new : n.kind = k).id
                   ELSE IF k \in cancelled THEN None ELSE controller[k]]

\* Mutated form: a finally block that does not ask whose request this is.
ClearsAlways(ended, controllers, k) == \E r \in ended : r.kind = k

\* A finally block clears the controller and the busy state if they are its own.
Clears(ended, controllers, k) == \E r \in ended : r.kind = k /\ controllers[k] = r.id

\* A load of the list that fails, or is aborted while it reads the body of an
\* error (readResponseBody swallows the abort), still writes its message.
TableAfter(aborted, rows) ==
  IF \E r \in aborted : r.kind = "list" /\ r.stage = "error body" THEN NoRows ELSE rows

Proceed(ended, controllers, new) ==
  /\ requests' = (requests \ ended) \cup new
  /\ controller' =
       [k \in Kinds |-> IF Clears(ended, controllers, k) THEN None ELSE controllers[k]]

\* Mutated form: loadLeads does not ask for a token first.
NewListAnyway(token, f) == {Request("list", token, f)}

\* loadLeads and loadQueueMetrics, up to their fetch.
NewList(token, f) == IF token = NoToken THEN {} ELSE {Request("list", token, f)}
NewQueue(token) == IF token = NoToken THEN {} ELSE {Request("queue", token, None)}

-----------------------------------------------------------------------------
(* The page.                                                               *)

\* refreshData by the button, the timer and the load event.
Refresh ==
  LET new == NewList(adminToken, filter) \cup NewQueue(queueToken)
      aborted == Current({n.kind : n \in new})
      controllers == Replaced({}, new)
  IN
  /\ refreshing = {}
  /\ Proceed(aborted, controllers, new)
  /\ refreshing' = {Key(n) : n \in new}
  /\ table' = TableAfter(aborted, IF adminToken = NoToken THEN NoRows ELSE table)
  /\ tableBusy' = ((tableBusy \/ adminToken # NoToken) /\ ~Clears(aborted, controllers, "list"))
  /\ metrics' = IF queueToken = NoToken THEN NoToken ELSE metrics
  /\ UNCHANGED <<adminToken, queueToken, filter, exportBusy, dialog>>

\* loadLeads, when the given requests have just been answered.
LoadLeads(f, answered) ==
  LET new == NewList(adminToken, f)
      ended == answered \cup Current({n.kind : n \in new})
      controllers == Replaced({}, new)
  IN
  /\ Proceed(ended, controllers, new)
  /\ refreshing' = refreshing \ {Key(r) : r \in ended}
  /\ table' = TableAfter(ended, IF adminToken = NoToken THEN NoRows ELSE table)
  /\ tableBusy' = ((tableBusy \/ adminToken # NoToken) /\ ~Clears(ended, controllers, "list"))

\* Mutated form: the change event calls refreshData, which joins a refresh that
\* is in flight.
ChangeFilterJoins(f) ==
  /\ ~open
  /\ f # filter
  /\ filter' = f
  /\ IF refreshing = {} THEN LoadLeads(f, {})
     ELSE UNCHANGED <<requests, controller, refreshing, table, tableBusy>>
  /\ UNCHANGED <<adminToken, queueToken, metrics, exportBusy, dialog>>

\* The filters' change event: loadLeads.
ChangeFilter(f) ==
  /\ ~open
  /\ f # filter
  /\ filter' = f
  /\ LoadLeads(f, {})
  /\ UNCHANGED <<adminToken, queueToken, metrics, exportBusy, dialog>>

\* Mutated form: a new admin token does not abort a sync.
CancelledButSync(a, q) ==
  (IF a # adminToken THEN AdminKinds \ {"sync"} ELSE {}) \cup (IF q # queueToken THEN {"queue"} ELSE {})

\* cancelAdminRequests and cancelQueueRequest.
Cancelled(a, q) ==
  (IF a # adminToken THEN AdminKinds ELSE {}) \cup (IF q # queueToken THEN {"queue"} ELSE {})

\* saveToken, with the forced refresh.  The dialog is closed, so that
\* resetLeadDetailState and closeLeadDetail find nothing to do.
SaveTokens(a, q) ==
  LET cancelled == Cancelled(a, q)
      new == NewList(a, filter) \cup NewQueue(q)
      aborted == Current(cancelled \cup {n.kind : n \in new})
      controllers == Replaced(cancelled, new)
  IN
  /\ ~open
  /\ adminToken' = a /\ queueToken' = q
  /\ Proceed(aborted, controllers, new)
  /\ refreshing' = {Key(n) : n \in new}
  /\ table' = TableAfter(aborted, IF a = NoToken THEN NoRows ELSE table)
  /\ tableBusy' = (IF a = NoToken THEN tableBusy /\ a = adminToken
                   ELSE ~Clears(aborted, controllers, "list"))
  /\ exportBusy' = (exportBusy /\ a = adminToken)
  /\ metrics' = IF q = NoToken THEN NoToken ELSE metrics
  /\ UNCHANGED <<filter, dialog>>

ExportCsv ==
  LET new == {Request("export", adminToken, filter)} IN
  /\ ~open
  /\ ~exportBusy
  /\ adminToken # NoToken
  /\ Proceed(Current({"export"}), Replaced({}, new), new)
  /\ exportBusy' = TRUE
  /\ UNCHANGED <<adminToken, queueToken, filter, refreshing, table, tableBusy, metrics, dialog>>

-----------------------------------------------------------------------------
(* The dialog.                                                             *)

\* loadLeadDetail, from the button in the lead's row.
View(l) ==
  LET new == {Request("detail", adminToken, l)} IN
  /\ ~open
  /\ table # NoRows
  /\ adminToken # NoToken
  /\ Proceed(Current({"detail"}), Replaced({}, new), new)
  /\ open' = TRUE
  /\ selected' = Nothing
  /\ content' = "loading"
  /\ wanted' = NewId("detail")
  /\ syncButton' = "disabled"
  /\ UNCHANGED <<adminToken, queueToken, filter, refreshing, page>>

\* Mutated form: the request number is not looked at again.
UpToDateAlways(r, number) == TRUE

\* requestId === detailRequestId.
UpToDate(r, number) == number = r.id

\* closeLeadDetail, and the close event that follows it.  A detail request that
\* is aborted while its body is read ends in the catch block as a failed one.
Close ==
  LET aborted == Current({"detail"})
      fails == \E r \in aborted : r.stage # "sent" /\ UpToDate(r, None)
  IN
  /\ open
  /\ Proceed(aborted, Replaced({"detail"}, {}), {})
  /\ open' = FALSE
  /\ selected' = Nothing
  /\ content' = IF fails THEN "error" ELSE "empty"
  /\ wanted' = None
  /\ syncButton' = "disabled"
  /\ UNCHANGED <<adminToken, queueToken, filter, refreshing, page>>

\* syncSelectedLead, confirmed.  The continuation of an older sync that is
\* aborted here gives the button free again when it is for the same lead.
Sync ==
  LET new == {Request("sync", adminToken, selected.lead)}
      aborted == Current({"sync"})
  IN
  /\ open
  /\ selected.lead \in Classified
  /\ syncButton = "enabled"
  /\ Proceed(aborted, Replaced({}, new), new)
  /\ syncButton' = IF \E r \in aborted : r.about = selected.lead THEN "enabled" ELSE "busy"
  /\ UNCHANGED <<adminToken, queueToken, filter, refreshing, page, open, selected,
                 content, wanted>>

-----------------------------------------------------------------------------
(* Answers.                                                                *)

Headers(r) ==
  /\ r.stage = "sent"
  /\ \E stage \in IF r.kind = "queue" THEN {"ok body"} ELSE {"ok body", "error body"} :
       requests' = (requests \ {r}) \cup {[r EXCEPT !.stage = stage]}
  /\ UNCHANGED <<adminToken, queueToken, filter, controller, refreshing, page, dialog>>

Ends(r) ==
  /\ Proceed({r}, controller, {})
  /\ refreshing' = refreshing \ {Key(r)}
  /\ UNCHANGED <<adminToken, queueToken, filter>>

QueueAnswered(r) ==
  /\ r.kind = "queue"
  /\ \/ r.stage = "ok body" /\ metrics' = r.token
     \/ metrics' = NoToken
  /\ Ends(r)
  /\ UNCHANGED <<table, tableBusy, exportBusy, dialog>>

ListAnswered(r) ==
  /\ r.kind = "list"
  /\ \/ r.stage = "ok body" /\ table' = [token |-> r.token, filter |-> r.about]
     \/ table' = NoRows
  /\ tableBusy' = (tableBusy /\ ~Clears({r}, controller, "list"))
  /\ Ends(r)
  /\ UNCHANGED <<metrics, exportBusy, dialog>>

ExportAnswered(r) ==
  /\ r.kind = "export"
  /\ exportBusy' = (exportBusy /\ ~Clears({r}, controller, "export"))
  /\ Ends(r)
  /\ UNCHANGED <<table, tableBusy, metrics, dialog>>

DetailArrives(r) ==
  /\ r.kind = "detail"
  /\ r.stage = "ok body"
  /\ UpToDate(r, wanted)
  /\ selected' = [lead |-> r.about, token |-> r.token]
  /\ content' = r.about
  /\ syncButton' = IF r.about \in Classified THEN "enabled" ELSE "disabled"
  /\ Ends(r)
  /\ UNCHANGED <<page, open, wanted>>

DetailFails(r) ==
  /\ r.kind = "detail"
  /\ UpToDate(r, wanted)
  /\ content' = "error"
  /\ Ends(r)
  /\ UNCHANGED <<page, open, selected, wanted, syncButton>>

\* Mutated form: the outcome is shown whichever lead is selected now.
ShownFor(r) == selected # Nothing

Shown(r) == selected.lead = r.about

\* An integration status for the lead: the detail is rendered again, and the
\* table is loaded again.
SyncAnswered(r) ==
  /\ r.kind = "sync"
  /\ r.stage # "sent"
  /\ Shown(r)
  /\ LoadLeads(filter, {r})
  /\ content' = r.about
  /\ syncButton' = "enabled"
  /\ UNCHANGED <<adminToken, queueToken, filter, metrics, exportBusy, open, selected, wanted>>

\* An answer that is of no use, or nobody is interested in any more.
SyncEnds(r) ==
  /\ r.kind = "sync"
  /\ Ends(r)
  /\ syncButton' = IF selected.lead = r.about THEN "enabled" ELSE syncButton
  /\ UNCHANGED <<page, open, selected, content, wanted>>

Answer(r) ==
  \/ Headers(r)
  \/ QueueAnswered(r) \/ ListAnswered(r) \/ ExportAnswered(r)
  \/ DetailArrives(r) \/ DetailFails(r)
  \/ SyncAnswered(r) \/ SyncEnds(r)

Next ==
  \/ Refresh
  \/ \E f \in Filters : ChangeFilter(f)
  \/ \E a, q \in Tokens \cup {NoToken} : SaveTokens(a, q)
  \/ ExportCsv
  \/ \E l \in Leads : View(l)
  \/ Close \/ Sync
  \/ \E r \in requests : Answer(r)

Spec == Init /\ [][Next]_vars

-----------------------------------------------------------------------------
(* Properties.                                                             *)

TokenOf(k) == IF k = "queue" THEN queueToken ELSE adminToken

\* "Saving or clearing credentials immediately aborts active protected requests;
\* clearing either credential also clears its rendered data" (README): no request
\* goes on under another credential, the dialog shows nothing fetched with one,
\* and without a credential nothing is shown, whatever arrives afterwards.
CredentialsRespected ==
  /\ \A r \in requests : r.token = TokenOf(r.kind)
  /\ selected # Nothing => selected.token = adminToken
  /\ adminToken = NoToken => table = NoRows
  /\ queueToken = NoToken => metrics = NoToken

\* What is shown is current: a table that is not being loaded has rows for the
\* filters and the credential in force, no answer to an older question; the dialog
\* shows the selected lead, whichever detail arrived last; a closed one keeps nothing.
ShownIsCurrent ==
  /\ ~tableBusy /\ table # NoRows => table = [token |-> adminToken, filter |-> filter]
  /\ selected # Nothing => open /\ content = selected.lead
  /\ ~open => content = "empty"

\* The newest request of a kind is the only one and can be aborted, and nothing stays
\* busy after its request is gone, however that ended; a classified lead that is
\* shown and not being synced can be synced.
InFlight(k) == \E r \in requests : r.kind = k
NothingStuck ==
  /\ \A r, s \in requests : r.kind = s.kind => r = s /\ controller[r.kind] = r.id
  /\ tableBusy <=> InFlight("list")
  /\ exportBusy <=> InFlight("export")
  /\ content = "loading" <=> InFlight("detail")
  /\ selected.lead \in Classified /\ ~InFlight("sync") => syncButton = "enabled"

\* "Test duplicate, stale, unsafe, and unclassified actions are guarded" (the
\* dashboard's test): a lead whose sync is in flight cannot be synced again.
DuplicateSyncGuarded ==
  \A r \in requests : r.kind = "sync" /\ selected.lead = r.about => syncButton # "enabled"
=============================================================================
