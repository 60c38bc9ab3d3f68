------------------------ MODULE AdminDashboardProofs -------------------------
(***************************************************************************)
(* Proofs about AdminDashboard, for any leads, filters and credentials.    *)
(***************************************************************************)
EXTENDS AdminDashboard, TLAPS

-----------------------------------------------------------------------------
(* The inductive invariant.                                                *)

\* The newest request of a kind is the only one and can be aborted.
OneEach == \A r, s \in requests : r.kind = s.kind => r = s /\ controller[r.kind] = r.id

\* What is busy waits for a request.
BusyInFlight ==
  /\ tableBusy <=> InFlight("list")
  /\ exportBusy <=> InFlight("export")
  /\ content = "loading" <=> InFlight("detail")

\* A request asks about what its answer is shown for.
Asked ==
  \A r \in requests : /\ r.kind = "list" => r.about = filter
                      /\ r.kind \in {"detail", "sync"} => r.about \in Leads

\* A classified lead that is shown can be synced unless a sync of it is in flight;
\* one of another lead does not count.
SyncOffered ==
  selected.lead \in Classified /\ (\A r \in requests : r.kind = "sync" => r.about # selected.lead)
    => syncButton = "enabled"

PageInv ==
  TypeOK /\ CredentialsRespected /\ ShownIsCurrent /\ OneEach /\ BusyInFlight /\ Asked /\ SyncOffered

-----------------------------------------------------------------------------
(* Controllers.                                                            *)

\* abort() reaches every request of a kind.
LEMMA CurrentReachesAll ==
  ASSUME OneEach, NEW kinds
  PROVE  Current(kinds) = {r \in requests : r.kind \in kinds}
BY DEF Current, OneEach

LEMMA AbortReaches ==
  ASSUME OneEach, NEW new
  PROVE  Current({n.kind : n \in new}) = {r \in requests : \E n \in new : n.kind = r.kind}
<1>1. Current({n.kind : n \in new}) = {r \in requests : r.kind \in {n.kind : n \in new}}
  BY CurrentReachesAll
<1> QED BY <1>1

LEMMA KeysTyped ==
  ASSUME NEW new \in SUBSET Requests
  PROVE  {Key(n) : n \in new} \in SUBSET (Kinds \X Ids)
<1>1. \A n \in new : Key(n) \in Kinds \X Ids
  BY DEF Key, Requests
<1> QED BY <1>1

\* A new controller is no older one of its kind.
LEMMA NewIdIsNew ==
  ASSUME TypeOK, OneEach, NEW k \in Kinds
  PROVE  /\ NewId(k) \in Ids
         /\ controller[k] # NewId(k)
         /\ \A r \in requests : r.kind = k => r.id # NewId(k)
<1>1. controller[k] \in Ids \cup {None}
  BY DEF TypeOK
<1>2. PICK i \in Ids : i # controller[k]
  BY <1>1, PageAssumption
<1>3. controller[k] # i /\ \A r \in requests : r.kind = k => r.id # i
  BY <1>2 DEF OneEach
<1> QED BY <1>2, <1>3 DEF NewId

LEMMA RequestShape ==
  ASSUME TypeOK, OneEach, NEW k \in Kinds, NEW token \in Tokens,
         NEW about \in Leads \cup Filters \cup {None}
  PROVE  /\ Request(k, token, about) \in Requests
         /\ Request(k, token, about).kind = k
         /\ Request(k, token, about).id = NewId(k)
         /\ Request(k, token, about).token = token
         /\ Request(k, token, about).about = about
BY NewIdIsNew DEF Request, Requests

\* Requests that end, kinds whose controllers are set to null, and new requests, as
\* every handler has them: those of a kind that is cancelled or asked anew end.
Handled(ended, cancelled, new) ==
  /\ ended \subseteq requests /\ cancelled \subseteq Kinds /\ new \subseteq Requests
  /\ \A n \in new : n.id = NewId(n.kind)
  /\ \A m, n \in new : m.kind = n.kind => m = n
  /\ \A r \in requests : r.kind \in cancelled \/ (\E n \in new : n.kind = r.kind) => r \in ended

\* A finally block finds its own controller unless the handler has replaced it or set
\* it to null.
LEMMA ClearsItsOwn ==
  ASSUME TypeOK, OneEach, NEW ended, NEW cancelled, NEW new, Handled(ended, cancelled, new),
         NEW k \in Kinds
  PROVE  Clears(ended, Replaced(cancelled, new), k) <=>
           /\ k \notin cancelled /\ ~\E n \in new : n.kind = k
           /\ \E r \in ended : r.kind = k
<1> DEFINE c == Replaced(cancelled, new)
<1>1. ASSUME NEW n \in new, n.kind = k PROVE c[k] = n.id
  BY <1>1 DEF Replaced, Handled
<1>2. ASSUME ~\E n \in new : n.kind = k PROVE c[k] = IF k \in cancelled THEN None ELSE controller[k]
  BY <1>2 DEF Replaced
<1>3. ASSUME NEW r \in ended, r.kind = k PROVE r.id = controller[k] /\ r.id \in Ids
  BY <1>3 DEF Handled, OneEach, TypeOK, Requests
<1>4. CASE \E n \in new : n.kind = k
  <2>1. PICK n \in new : n.kind = k
    BY <1>4
  <2>2. c[k] = NewId(k) /\ NewId(k) # controller[k]
    BY <1>1, <2>1, NewIdIsNew DEF Handled
  <2> QED BY <1>3, <1>4, <2>2 DEF Clears
<1>5. CASE ~\E n \in new : n.kind = k
  BY <1>2, <1>3, <1>5, PageAssumption DEF Clears
<1> QED BY <1>4, <1>5

\* What Proceed leaves: one request of each kind, with the controller of its kind.
LEMMA ProceedLeaves ==
  ASSUME TypeOK, OneEach, NEW ended, NEW cancelled, NEW new, Handled(ended, cancelled, new),
         Proceed(ended, Replaced(cancelled, new), new)
  PROVE  /\ requests' = (requests \ ended) \cup new
         /\ requests' \subseteq Requests
         /\ controller' \in [Kinds -> Ids \cup {None}]
         /\ OneEach'
<1> DEFINE c == Replaced(cancelled, new)
<1>1. requests' = (requests \ ended) \cup new /\ requests' \subseteq Requests
  BY DEF Proceed, Handled, TypeOK
<1>2. controller' = [k \in Kinds |-> IF Clears(ended, c, k) THEN None ELSE c[k]]
  BY DEF Proceed
<1>3. ASSUME NEW n \in new PROVE n.kind \in Kinds /\ c[n.kind] = n.id /\ n.id \in Ids
  BY <1>3 DEF Replaced, Handled, Requests
<1>4. ASSUME NEW k \in Kinds, ~\E n \in new : n.kind = k
      PROVE  c[k] = IF k \in cancelled THEN None ELSE controller[k]
  BY <1>4 DEF Replaced
<1>5. ASSUME NEW k \in Kinds PROVE c[k] \in Ids \cup {None}
  <2>1. CASE \E n \in new : n.kind = k
    BY <1>3, <2>1
  <2>2. CASE ~\E n \in new : n.kind = k
    BY <1>4, <2>2 DEF TypeOK
  <2> QED BY <2>1, <2>2
<1>6. controller' \in [Kinds -> Ids \cup {None}]
  BY <1>2, <1>5
<1>7. ASSUME NEW n \in new PROVE controller'[n.kind] = n.id
  BY <1>2, <1>3, <1>7, ClearsItsOwn
<1>8. ASSUME NEW r \in requests \ ended
      PROVE  controller'[r.kind] = r.id /\ ~\E n \in new : n.kind = r.kind
  <2>1. r.kind \in Kinds /\ r.kind \notin cancelled /\ ~\E n \in new : n.kind = r.kind
    BY DEF Handled, TypeOK, Requests
  <2>2. ~\E s \in ended : s.kind = r.kind
    BY DEF Handled, OneEach
  <2>3. c[r.kind] = controller[r.kind] /\ controller[r.kind] = r.id
    BY <1>4, <2>1 DEF OneEach
  <2> QED BY <1>2, <2>1, <2>2, <2>3, ClearsItsOwn
<1>9. OneEach'
  <2> SUFFICES ASSUME NEW r \in requests', NEW s \in requests', r.kind = s.kind
               PROVE  r = s /\ controller'[r.kind] = r.id
    BY DEF OneEach
  <2> QED BY <1>1, <1>7, <1>8 DEF OneEach, Handled
<1> QED BY <1>1, <1>6, <1>9

-----------------------------------------------------------------------------
(* New requests.                                                           *)

LEMMA OneRequest ==
  ASSUME TypeOK, OneEach, NEW k \in Kinds, NEW token \in Tokens,
         NEW about \in Leads \cup Filters \cup {None}
  PROVE  LET new == {Request(k, token, about)} IN
         /\ new \in SUBSET Requests
         /\ \A n \in new : n.id = NewId(n.kind)
         /\ \A m, n \in new : m.kind = n.kind => m = n
         /\ \A n \in new : n.kind = k /\ n.token = token /\ n.about = about
BY RequestShape

\* The list is asked for with a token, and only with one.
LEMMA ListAsked ==
  ASSUME TypeOK, OneEach, NEW a \in Tokens \cup {NoToken}, NEW f \in Filters
  PROVE  /\ NewList(a, f) \in SUBSET Requests
         /\ \A n \in NewList(a, f) : n.id = NewId(n.kind)
         /\ \A m, n \in NewList(a, f) : m = n
         /\ \A n \in NewList(a, f) : n.kind = "list" /\ n.token = a /\ n.about = f
         /\ a = NoToken <=> NewList(a, f) = {}
<1>1. "list" \in Kinds
  BY DEF Kinds
<1> QED BY <1>1, RequestShape DEF NewList

LEMMA QueueAsked ==
  ASSUME TypeOK, OneEach, NEW q \in Tokens \cup {NoToken}
  PROVE  /\ NewQueue(q) \in SUBSET Requests
         /\ \A n \in NewQueue(q) : n.id = NewId(n.kind)
         /\ \A m, n \in NewQueue(q) : m = n
         /\ \A n \in NewQueue(q) : n.kind = "queue" /\ n.token = q
<1>1. "queue" \in Kinds
  BY DEF Kinds
<1> QED BY <1>1, RequestShape DEF NewQueue

\* The list and the queue metrics are asked for together.
LEMMA BothAsked ==
  ASSUME TypeOK, OneEach, NEW a \in Tokens \cup {NoToken}, NEW q \in Tokens \cup {NoToken},
         NEW f \in Filters
  PROVE  LET new == NewList(a, f) \cup NewQueue(q) IN
         /\ new \in SUBSET Requests
         /\ \A n \in new : n.id = NewId(n.kind)
         /\ \A m, n \in new : m.kind = n.kind => m = n
         /\ \A n \in new : \/ n.kind = "list" /\ n.token = a /\ n.about = f
                           \/ n.kind = "queue" /\ n.token = q
         /\ (\E n \in new : n.kind = "list") <=> a # NoToken
<1> DEFINE list == NewList(a, f)
           queue == NewQueue(q)
<1>1. /\ list \in SUBSET Requests /\ \A n \in list : n.id = NewId(n.kind)
      /\ \A m, n \in list : m = n
      /\ \A n \in list : n.kind = "list" /\ n.token = a /\ n.about = f
      /\ a = NoToken <=> list = {}
  BY ListAsked
<1>2. /\ queue \in SUBSET Requests /\ \A n \in queue : n.id = NewId(n.kind)
      /\ \A m, n \in queue : m = n
      /\ \A n \in queue : n.kind = "queue" /\ n.token = q
  BY QueueAsked
<1> HIDE DEF list, queue
<1>3. \A m, n \in list \cup queue : m.kind = n.kind => m = n
  BY <1>1, <1>2
<1>4. (\E n \in list \cup queue : n.kind = "list") <=> a # NoToken
  BY <1>1, <1>2
<1>5. \A n \in list \cup queue : \/ n.kind = "list" /\ n.token = a /\ n.about = f
                                 \/ n.kind = "queue" /\ n.token = q
  BY <1>1, <1>2
<1>6. /\ list \cup queue \in SUBSET Requests
      /\ \A n \in list \cup queue : n.id = NewId(n.kind)
  BY <1>1, <1>2
<1> QED BY <1>3, <1>4, <1>5, <1>6 DEF list, queue

\* Without a token nothing is in flight that needs one.
LEMMA NothingWithoutToken ==
  ASSUME TypeOK, CredentialsRespected, adminToken = NoToken, NEW r \in requests
  PROVE  r.kind = "queue"
BY PageAssumption DEF TypeOK, Requests, CredentialsRespected, TokenOf

-----------------------------------------------------------------------------
(* The page.                                                               *)

LEMMA RefreshKeeps == ASSUME PageInv, Refresh PROVE PageInv'
<1> USE PageAssumption DEF PageInv
<1> DEFINE new == NewList(adminToken, filter) \cup NewQueue(queueToken)
           ended == Current({n.kind : n \in new})
<1>1. /\ new \in SUBSET Requests
      /\ \A n \in new : n.id = NewId(n.kind)
      /\ \A m, n \in new : m.kind = n.kind => m = n
      /\ \A n \in new : \/ n.kind = "list" /\ n.token = adminToken /\ n.about = filter
                        \/ n.kind = "queue" /\ n.token = queueToken
      /\ (\E n \in new : n.kind = "list") <=> adminToken # NoToken
  BY BothAsked DEF TypeOK
<1>2. ended = {r \in requests : \E n \in new : n.kind = r.kind}
  BY AbortReaches
<1>3. Handled(ended, {}, new)
  BY <1>1, <1>2 DEF Handled
<1>4. /\ Proceed(ended, Replaced({}, new), new)
      /\ refreshing' = {Key(n) : n \in new}
      /\ table' = TableAfter(ended, IF adminToken = NoToken THEN NoRows ELSE table)
      /\ tableBusy' = ((tableBusy \/ adminToken # NoToken)
                          /\ ~Clears(ended, Replaced({}, new), "list"))
      /\ metrics' = IF queueToken = NoToken THEN NoToken ELSE metrics
      /\ UNCHANGED <<adminToken, queueToken, filter, exportBusy, dialog>>
  BY DEF Refresh
<1>5. /\ requests' = (requests \ ended) \cup new /\ requests' \subseteq Requests
      /\ controller' \in [Kinds -> Ids \cup {None}] /\ OneEach'
  BY <1>3, <1>4, ProceedLeaves
<1> HIDE DEF new, ended
<1>6. tableBusy' <=> InFlight("list")'
  <2>1. Clears(ended, Replaced({}, new), "list") <=>
          (~\E n \in new : n.kind = "list") /\ (\E r \in ended : r.kind = "list")
    BY <1>3, ClearsItsOwn DEF Kinds
  <2> QED BY <1>1, <1>2, <1>4, <1>5, <2>1 DEF BusyInFlight, InFlight
<1>7. \A k \in Kinds \ {"list", "queue"} : InFlight(k)' <=> InFlight(k)
  BY <1>1, <1>2, <1>5 DEF InFlight
<1>8. BusyInFlight'
  BY <1>4, <1>6, <1>7 DEF BusyInFlight, dialog, Kinds
<1>9. Asked'
  BY <1>1, <1>4, <1>5 DEF Asked
<1>10. SyncOffered'
  BY <1>1, <1>2, <1>4, <1>5 DEF SyncOffered, dialog
<1>11. CredentialsRespected'
  BY <1>1, <1>4, <1>5, NothingWithoutToken DEF CredentialsRespected, TokenOf, TableAfter, dialog
<1>12. ShownIsCurrent'
  BY <1>1, <1>4, <1>5, <1>6, <1>11 DEF InFlight, ShownIsCurrent, TableAfter, dialog
<1>13. TypeOK'
  <2>1. refreshing' \in SUBSET (Kinds \X Ids)
    BY <1>1, <1>4, KeysTyped
  <2>2. tableBusy' \in BOOLEAN /\ table' \in [token : Tokens, filter : Filters] \cup {NoRows}
    BY <1>4 DEF TypeOK, TableAfter
  <2> QED BY <1>4, <1>5, <2>1, <2>2 DEF TypeOK, dialog
<1> QED BY <1>5, <1>8, <1>9, <1>10, <1>11, <1>12, <1>13

\* What loadLeads leaves, called with requests that were just answered or with none.
LEMMA LoadLeadsLeaves ==
  ASSUME PageInv, NEW f \in Filters, NEW answered \in SUBSET requests,
         \A r \in answered : r.kind # "list", LoadLeads(f, answered)
  PROVE  /\ requests' \subseteq Requests
         /\ controller' \in [Kinds -> Ids \cup {None}] /\ OneEach'
         /\ refreshing' \in SUBSET (Kinds \X Ids)
         /\ table' \in [token : Tokens, filter : Filters] \cup {NoRows} /\ tableBusy' \in BOOLEAN
         /\ \A r \in requests' : \/ r \in requests \ answered /\ r.kind # "list"
                                 \/ r.kind = "list" /\ r.token = adminToken /\ r.about = f
         /\ \A r \in requests \ answered : r.kind # "list" => r \in requests'
         /\ tableBusy' <=> InFlight("list")'
         /\ ~tableBusy' => table' = NoRows
         /\ adminToken = NoToken => table' = NoRows
<1> USE PageAssumption DEF PageInv
<1> DEFINE new == NewList(adminToken, f)
           ended == answered \cup Current({n.kind : n \in new})
<1>1. /\ new \in SUBSET Requests
      /\ \A n \in new : n.id = NewId(n.kind)
      /\ \A m, n \in new : m = n
      /\ \A n \in new : n.kind = "list" /\ n.token = adminToken /\ n.about = f
      /\ adminToken = NoToken <=> new = {}
  BY ListAsked DEF TypeOK
<1>2. ended = answered \cup {r \in requests : \E n \in new : n.kind = r.kind}
  BY AbortReaches
<1>3. Handled(ended, {}, new)
  BY <1>1, <1>2 DEF Handled
<1>4. /\ Proceed(ended, Replaced({}, new), new)
      /\ refreshing' = refreshing \ {Key(r) : r \in ended}
      /\ table' = TableAfter(ended, IF adminToken = NoToken THEN NoRows ELSE table)
      /\ tableBusy' = ((tableBusy \/ adminToken # NoToken)
                          /\ ~Clears(ended, Replaced({}, new), "list"))
  BY DEF LoadLeads
<1>5. /\ requests' = (requests \ ended) \cup new /\ requests' \subseteq Requests
      /\ controller' \in [Kinds -> Ids \cup {None}] /\ OneEach'
  BY <1>3, <1>4, ProceedLeaves
<1> HIDE DEF new, ended
<1>6. Clears(ended, Replaced({}, new), "list") <=>
        (~\E n \in new : n.kind = "list") /\ (\E r \in ended : r.kind = "list")
  BY <1>3, ClearsItsOwn DEF Kinds
<1>7. ASSUME adminToken = NoToken, NEW r \in requests PROVE r.kind # "list"
  BY <1>7, NothingWithoutToken
<1>8. tableBusy' <=> InFlight("list")'
  <2>1. CASE adminToken = NoToken
    <3>1. ~InFlight("list")
      BY <1>7, <2>1 DEF InFlight
    <3>2. new = {}
      BY <1>1, <2>1
    <3> QED BY <1>4, <1>5, <2>1, <3>1, <3>2 DEF BusyInFlight, InFlight
  <2>2. CASE adminToken # NoToken
    <3>1. \E n \in new : n.kind = "list"
      BY <1>1, <2>2
    <3> QED BY <1>4, <1>5, <1>6, <2>2, <3>1 DEF InFlight
  <2> QED BY <2>1, <2>2
<1>9. ~tableBusy' => adminToken = NoToken
  BY <1>1, <1>5, <1>8 DEF InFlight
<1>10. /\ refreshing' \in SUBSET (Kinds \X Ids)
       /\ table' \in [token : Tokens, filter : Filters] \cup {NoRows} /\ tableBusy' \in BOOLEAN
  BY <1>4 DEF TypeOK, TableAfter
<1>11. \A r \in requests \ answered : r.kind # "list" => r \in requests'
  BY <1>1, <1>2, <1>5
<1>12. ASSUME NEW r \in requests'
       PROVE  \/ r \in requests \ answered /\ r.kind # "list"
              \/ r.kind = "list" /\ r.token = adminToken /\ r.about = f
  <2>1. CASE r \in new
    BY <1>1, <2>1
  <2>2. CASE r \in requests \ ended
    BY <1>1, <1>2, <1>7, <2>2
  <2> QED BY <1>5, <2>1, <2>2
<1>13. adminToken = NoToken => table' = NoRows
  BY <1>4 DEF TableAfter
<1> QED BY <1>5, <1>8, <1>9, <1>10, <1>11, <1>12, <1>13

LEMMA ChangeFilterKeeps == ASSUME PageInv, NEW f \in Filters, ChangeFilter(f) PROVE PageInv'
<1> USE PageAssumption DEF PageInv
<1>1. /\ LoadLeads(f, {}) /\ filter' = f
      /\ UNCHANGED <<adminToken, queueToken, metrics, exportBusy, dialog>>
  BY DEF ChangeFilter
<1>2. /\ requests' \subseteq Requests
      /\ controller' \in [Kinds -> Ids \cup {None}] /\ OneEach'
      /\ refreshing' \in SUBSET (Kinds \X Ids)
      /\ table' \in [token : Tokens, filter : Filters] \cup {NoRows} /\ tableBusy' \in BOOLEAN
  BY <1>1, LoadLeadsLeaves
<1>3. /\ \A r \in requests' : \/ r \in requests /\ r.kind # "list"
                              \/ r.kind = "list" /\ r.token = adminToken /\ r.about = f
      /\ \A r \in requests : r.kind # "list" => r \in requests'
      /\ tableBusy' <=> InFlight("list")'
      /\ ~tableBusy' => table' = NoRows
      /\ adminToken = NoToken => table' = NoRows
  BY <1>1, LoadLeadsLeaves
<1>4. TypeOK'
  BY <1>1, <1>2 DEF TypeOK, dialog
<1>5. CredentialsRespected'
  BY <1>1, <1>3 DEF CredentialsRespected, TokenOf, dialog
<1>6. ShownIsCurrent'
  BY <1>1, <1>3 DEF ShownIsCurrent, dialog
<1>7. BusyInFlight'
  BY <1>1, <1>3 DEF BusyInFlight, InFlight, dialog
<1>8. Asked' /\ SyncOffered'
  BY <1>1, <1>3 DEF Asked, SyncOffered, dialog
<1> QED BY <1>2, <1>4, <1>5, <1>6, <1>7, <1>8

LEMMA SaveTokensKeeps ==
  ASSUME PageInv, NEW a \in Tokens \cup {NoToken}, NEW q \in Tokens \cup {NoToken}, SaveTokens(a, q)
  PROVE  PageInv'
<1> USE PageAssumption DEF PageInv
<1> DEFINE new == NewList(a, filter) \cup NewQueue(q)
           cancelled == Cancelled(a, q)
           ended == Current(cancelled \cup {n.kind : n \in new})
<1>1. /\ new \in SUBSET Requests
      /\ \A n \in new : n.id = NewId(n.kind)
      /\ \A m, n \in new : m.kind = n.kind => m = n
      /\ \A n \in new : \/ n.kind = "list" /\ n.token = a /\ n.about = filter
                        \/ n.kind = "queue" /\ n.token = q
      /\ (\E n \in new : n.kind = "list") <=> a # NoToken
  BY BothAsked DEF TypeOK
<1>2. ended = {r \in requests : r.kind \in cancelled \/ \E n \in new : n.kind = r.kind}
  <2>1. ended = {r \in requests : r.kind \in cancelled \cup {n.kind : n \in new}}
    BY CurrentReachesAll
  <2> QED BY <2>1
<1>3. \A k \in Kinds : k \in cancelled <=> IF k = "queue" THEN q # queueToken ELSE a # adminToken
  BY DEF Cancelled, AdminKinds, Kinds
<1>4. Handled(ended, cancelled, new)
  BY <1>1, <1>2 DEF Handled, Cancelled, AdminKinds, Kinds
<1>5. /\ ~open /\ adminToken' = a /\ queueToken' = q
      /\ Proceed(ended, Replaced(cancelled, new), new)
      /\ refreshing' = {Key(n) : n \in new}
      /\ table' = TableAfter(ended, IF a = NoToken THEN NoRows ELSE table)
      /\ tableBusy' = (IF a = NoToken THEN tableBusy /\ a = adminToken
                       ELSE ~Clears(ended, Replaced(cancelled, new), "list"))
      /\ exportBusy' = (exportBusy /\ a = adminToken)
      /\ metrics' = IF q = NoToken THEN NoToken ELSE metrics
      /\ UNCHANGED <<filter, dialog>>
  BY DEF SaveTokens
<1>6. /\ requests' = (requests \ ended) \cup new /\ requests' \subseteq Requests
      /\ controller' \in [Kinds -> Ids \cup {None}] /\ OneEach'
  BY <1>4, <1>5, ProceedLeaves
<1>7. Clears(ended, Replaced(cancelled, new), "list") => ~\E n \in new : n.kind = "list"
  BY <1>4, ClearsItsOwn DEF Kinds
<1> HIDE DEF new, ended, cancelled
<1>8. selected = Nothing /\ content = "empty"
  BY <1>5 DEF ShownIsCurrent
<1>9. \A r \in requests : r.kind \in Kinds
  BY DEF TypeOK, Requests
<1>10. tableBusy' <=> InFlight("list")'
  <2>1. CASE a # NoToken
    BY <1>1, <1>5, <1>6, <1>7, <2>1 DEF InFlight
  <2>2. CASE a = NoToken
    <3>1. ~InFlight("list")'
      <4>1. ASSUME NEW r \in requests, r.kind = "list" PROVE r \in ended
        <5>1. adminToken # NoToken
          BY <4>1, NothingWithoutToken
        <5> QED BY <1>2, <1>3, <2>2, <4>1, <5>1 DEF Kinds
      <4> QED BY <1>1, <1>6, <2>2, <4>1 DEF InFlight
    <3>2. a = adminToken => ~tableBusy
      BY <2>2, NothingWithoutToken DEF BusyInFlight, InFlight
    <3> QED BY <1>5, <2>2, <3>1, <3>2
  <2> QED BY <2>1, <2>2
<1>11. \A r \in requests' : r \notin new => r \in requests /\ r.kind \notin cancelled
  BY <1>2, <1>6
<1>12. exportBusy' <=> InFlight("export")'
  <2>1. InFlight("export")' <=> InFlight("export") /\ a = adminToken
    BY <1>1, <1>2, <1>3, <1>6 DEF InFlight, Kinds
  <2> QED BY <1>5, <2>1 DEF BusyInFlight
<1>13. ~InFlight("detail")'
  BY <1>1, <1>8, <1>11 DEF BusyInFlight, InFlight
<1>14. BusyInFlight'
  BY <1>5, <1>8, <1>10, <1>12, <1>13 DEF BusyInFlight, dialog
<1>15. Asked' /\ SyncOffered'
  BY <1>1, <1>5, <1>8, <1>11 DEF Asked, SyncOffered, dialog, Nothing
<1>16. CredentialsRespected'
  <2>1. ASSUME NEW r \in requests' PROVE r.token = IF r.kind = "queue" THEN q ELSE a
    <3>1. CASE r \in new
      BY <1>1, <3>1
    <3>2. CASE r \notin new
      BY <1>3, <1>9, <1>11, <3>2 DEF CredentialsRespected, TokenOf
    <3> QED BY <3>1, <3>2
  <2> QED BY <1>5, <1>8, <2>1 DEF CredentialsRespected, TokenOf, TableAfter, dialog
<1>17. ShownIsCurrent'
  <2>1. ~tableBusy' => table' = NoRows
    BY <1>1, <1>5, <1>7 DEF TableAfter
  <2> QED BY <1>5, <1>8, <2>1 DEF ShownIsCurrent, dialog
<1>18. TypeOK'
  <2>1. refreshing' \in SUBSET (Kinds \X Ids)
    BY <1>1, <1>5, KeysTyped
  <2>2. tableBusy' \in BOOLEAN /\ table' \in [token : Tokens, filter : Filters] \cup {NoRows}
    BY <1>5 DEF TypeOK, TableAfter
  <2> QED BY <1>5, <1>6, <2>1, <2>2 DEF TypeOK, dialog
<1> QED BY <1>6, <1>14, <1>15, <1>16, <1>17, <1>18

\* A handler that asks for one thing in place of what it had asked of the kind.
LEMMA OneAsked ==
  ASSUME TypeOK, OneEach, NEW k \in Kinds, NEW token \in Tokens,
         NEW about \in Leads \cup Filters \cup {None},
         LET new == {Request(k, token, about)}
         IN  Proceed(Current({k}), Replaced({}, new), new)
  PROVE  /\ requests' \subseteq Requests
         /\ controller' \in [Kinds -> Ids \cup {None}] /\ OneEach'
         /\ \A r \in requests' : \/ r \in requests /\ r.kind # k
                                 \/ r.kind = k /\ r.token = token /\ r.about = about
         /\ \A r \in requests : r.kind # k => r \in requests'
         /\ InFlight(k)'
<1> DEFINE new == {Request(k, token, about)}
           ended == Current({k})
<1>1. /\ new \in SUBSET Requests
      /\ \A n \in new : n.id = NewId(n.kind)
      /\ \A m, n \in new : m.kind = n.kind => m = n
      /\ \A n \in new : n.kind = k /\ n.token = token /\ n.about = about
      /\ \E n \in new : n.kind = k
  BY RequestShape
<1>2. ended = {r \in requests : r.kind = k}
  BY CurrentReachesAll
<1>3. Proceed(ended, Replaced({}, new), new)
  OBVIOUS
<1> HIDE DEF new, ended
<1>4. Handled(ended, {}, new)
  BY <1>1, <1>2 DEF Handled
<1>5. /\ requests' = (requests \ ended) \cup new /\ requests' \subseteq Requests
      /\ controller' \in [Kinds -> Ids \cup {None}] /\ OneEach'
  BY <1>3, <1>4, ProceedLeaves
<1> QED BY <1>1, <1>2, <1>5 DEF InFlight

LEMMA ExportCsvKeeps == ASSUME PageInv, ExportCsv PROVE PageInv'
<1> USE PageAssumption DEF PageInv
<1>1. adminToken \in Tokens /\ filter \in Leads \cup Filters \cup {None} /\ "export" \in Kinds
  BY DEF ExportCsv, TypeOK, Kinds
<1>2. /\ requests' \subseteq Requests
      /\ controller' \in [Kinds -> Ids \cup {None}] /\ OneEach'
      /\ \A r \in requests' : \/ r \in requests /\ r.kind # "export"
                              \/ r.kind = "export" /\ r.token = adminToken /\ r.about = filter
      /\ \A r \in requests : r.kind # "export" => r \in requests'
      /\ InFlight("export")'
  BY <1>1, OneAsked DEF ExportCsv
<1>3. exportBusy' = TRUE
  BY DEF ExportCsv
<1>4. UNCHANGED <<adminToken, queueToken, filter, refreshing, table, tableBusy, metrics, dialog>>
  BY DEF ExportCsv
<1>5. TypeOK'
  BY <1>2, <1>3, <1>4 DEF TypeOK, dialog
<1>6. CredentialsRespected' /\ ShownIsCurrent'
  BY <1>2, <1>4 DEF CredentialsRespected, ShownIsCurrent, TokenOf, dialog
<1>7. BusyInFlight'
  BY <1>2, <1>3, <1>4 DEF BusyInFlight, InFlight, dialog
<1>8. Asked' /\ SyncOffered'
  BY <1>2, <1>4 DEF Asked, SyncOffered, dialog
<1> QED BY <1>2, <1>5, <1>6, <1>7, <1>8

-----------------------------------------------------------------------------
(* The dialog.                                                             *)

LEMMA ViewKeeps == ASSUME PageInv, NEW l \in Leads, View(l) PROVE PageInv'
<1> USE PageAssumption DEF PageInv
<1>1. adminToken \in Tokens /\ l \in Leads \cup Filters \cup {None} /\ "detail" \in Kinds
  BY DEF View, TypeOK, Kinds
<1>2. /\ requests' \subseteq Requests
      /\ controller' \in [Kinds -> Ids \cup {None}] /\ OneEach'
      /\ \A r \in requests' : \/ r \in requests /\ r.kind # "detail"
                              \/ r.kind = "detail" /\ r.token = adminToken /\ r.about = l
      /\ \A r \in requests : r.kind # "detail" => r \in requests'
      /\ InFlight("detail")'
  BY <1>1, OneAsked DEF View
<1>3. /\ open' = TRUE /\ selected' = Nothing /\ content' = "loading" /\ syncButton' = "disabled"
      /\ wanted' = NewId("detail")
      /\ UNCHANGED <<adminToken, queueToken, filter, refreshing, page>>
  BY DEF View
<1>4. wanted' \in Ids
  BY <1>1, <1>3, NewIdIsNew
<1>5. TypeOK'
  BY <1>2, <1>3, <1>4 DEF TypeOK, page
<1>6. CredentialsRespected' /\ ShownIsCurrent'
  BY <1>2, <1>3 DEF CredentialsRespected, ShownIsCurrent, TokenOf, page
<1>7. BusyInFlight'
  BY <1>2, <1>3 DEF BusyInFlight, InFlight, page
<1>8. Asked' /\ SyncOffered'
  BY <1>2, <1>3 DEF Asked, SyncOffered, Nothing, page
<1> QED BY <1>2, <1>5, <1>6, <1>7, <1>8

LEMMA CloseKeeps == ASSUME PageInv, Close PROVE PageInv'
<1> USE PageAssumption DEF PageInv
<1> DEFINE ended == Current({"detail"})
<1>1. ended = {r \in requests : r.kind = "detail"}
  BY CurrentReachesAll
<1>2. Handled(ended, {"detail"}, {})
  BY <1>1 DEF Handled, Kinds
<1>3. /\ Proceed(ended, Replaced({"detail"}, {}), {})
      /\ open' = FALSE /\ selected' = Nothing /\ wanted' = None /\ syncButton' = "disabled"
      /\ UNCHANGED <<adminToken, queueToken, filter, refreshing, page>>
  BY DEF Close
<1>4. ~\E r \in ended : r.stage # "sent" /\ UpToDate(r, None)
  BY <1>1 DEF UpToDate, TypeOK, Requests
<1>5. content' = "empty"
  BY <1>4 DEF Close
<1> HIDE DEF ended
<1>6. /\ requests' = requests \ ended /\ requests' \subseteq Requests
      /\ controller' \in [Kinds -> Ids \cup {None}] /\ OneEach'
  BY <1>2, <1>3, ProceedLeaves
<1>7. TypeOK'
  BY <1>3, <1>5, <1>6 DEF TypeOK, page
<1>8. CredentialsRespected' /\ ShownIsCurrent'
  BY <1>3, <1>5, <1>6 DEF CredentialsRespected, ShownIsCurrent, TokenOf, page
<1>9. BusyInFlight'
  BY <1>1, <1>3, <1>5, <1>6 DEF BusyInFlight, InFlight, page
<1>10. Asked' /\ SyncOffered'
  BY <1>3, <1>6 DEF Asked, SyncOffered, Nothing, page
<1> QED BY <1>6, <1>7, <1>8, <1>9, <1>10

\* The lead that is shown was fetched with the admin token in force.
LEMMA SelectedIsFetched ==
  ASSUME TypeOK, CredentialsRespected, ShownIsCurrent, selected.lead \in Leads
  PROVE  selected # Nothing /\ open /\ content = selected.lead /\ adminToken \in Tokens
BY PageAssumption DEF TypeOK, CredentialsRespected, ShownIsCurrent, Nothing

LEMMA SyncKeeps == ASSUME PageInv, Sync PROVE PageInv'
<1> USE PageAssumption DEF PageInv
<1>1. selected.lead \in Leads
  BY DEF Sync
<1>2. /\ adminToken \in Tokens /\ selected.lead \in Leads \cup Filters \cup {None}
      /\ "sync" \in Kinds
  BY <1>1, SelectedIsFetched DEF Kinds
<1>3. /\ requests' \subseteq Requests
      /\ controller' \in [Kinds -> Ids \cup {None}] /\ OneEach'
      /\ \A r \in requests' :
           \/ r \in requests /\ r.kind # "sync"
           \/ r.kind = "sync" /\ r.token = adminToken /\ r.about = selected.lead
      /\ \A r \in requests : r.kind # "sync" => r \in requests'
      /\ InFlight("sync")'
  BY <1>2, OneAsked DEF Sync
<1>4. /\ syncButton' \in {"disabled", "enabled", "busy"}
      /\ UNCHANGED <<adminToken, queueToken, filter, refreshing, page, open, selected,
                     content, wanted>>
  BY DEF Sync
<1>5. TypeOK'
  BY <1>3, <1>4 DEF TypeOK, page
<1>6. CredentialsRespected' /\ ShownIsCurrent'
  BY <1>3, <1>4 DEF CredentialsRespected, ShownIsCurrent, TokenOf, page
<1>7. BusyInFlight'
  BY <1>3, <1>4 DEF BusyInFlight, InFlight, page
<1>8. Asked'
  BY <1>1, <1>3, <1>4 DEF Asked
<1>9. SyncOffered'
  BY <1>3, <1>4 DEF SyncOffered, InFlight
<1> QED BY <1>3, <1>5, <1>6, <1>7, <1>8, <1>9

-----------------------------------------------------------------------------
(* Answers.                                                                *)

LEMMA HeadersKeep == ASSUME PageInv, NEW r \in requests, Headers(r) PROVE PageInv'
<1> USE PageAssumption DEF PageInv
<1>1. PICK stage \in {"ok body", "error body"} :
        requests' = (requests \ {r}) \cup {[r EXCEPT !.stage = stage]}
  BY DEF Headers
<1> DEFINE s == [r EXCEPT !.stage = stage]
<1>2. /\ s \in Requests /\ s.kind = r.kind /\ s.id = r.id /\ s.token = r.token
      /\ s.about = r.about
  BY DEF TypeOK, Requests
<1>3. requests' = (requests \ {r}) \cup {s}
  BY <1>1
<1> HIDE DEF s
<1>4. UNCHANGED <<adminToken, queueToken, filter, controller, refreshing, page, dialog>>
  BY DEF Headers
<1>5. TypeOK'
  <2>1. requests' \in SUBSET Requests
    BY <1>2, <1>3 DEF TypeOK
  <2>2. /\ controller' = controller /\ refreshing' = refreshing /\ table' = table
        /\ tableBusy' = tableBusy /\ exportBusy' = exportBusy /\ metrics' = metrics
        /\ UNCHANGED <<adminToken, queueToken, filter>> /\ UNCHANGED dialog
    BY <1>4 DEF page
  <2>3. /\ table' \in [token : Tokens, filter : Filters] \cup {NoRows}
        /\ controller' \in [Kinds -> Ids \cup {None}]
    BY <2>2 DEF TypeOK
  <2>4. /\ selected' \in [lead : Leads, token : Tokens] \cup {Nothing}
        /\ content' \in Leads \cup {"empty", "loading", "error"}
        /\ wanted' \in Ids \cup {None} /\ syncButton' \in {"disabled", "enabled", "busy"}
        /\ open' \in BOOLEAN
    BY <2>2 DEF TypeOK, dialog
  <2>5. tableBusy' \in BOOLEAN /\ exportBusy' \in BOOLEAN
    BY <2>2 DEF TypeOK
  <2> QED BY <2>1, <2>2, <2>3, <2>4, <2>5 DEF TypeOK
<1>6. CredentialsRespected' /\ ShownIsCurrent'
  BY <1>2, <1>3, <1>4 DEF CredentialsRespected, ShownIsCurrent, TokenOf, page, dialog
<1>7. \A k : InFlight(k)' <=> InFlight(k)
  BY <1>2, <1>3 DEF InFlight
<1>8. BusyInFlight'
  BY <1>4, <1>7 DEF BusyInFlight, page, dialog
<1>9. OneEach'
  <2>1. \A t \in requests \ {r} : t.kind # s.kind
    BY <1>2 DEF OneEach
  <2>2. \A t \in requests' : controller'[t.kind] = t.id
    BY <1>2, <1>3, <1>4 DEF OneEach
  <2>3. \A t, u \in requests' : t.kind = u.kind => t = u
    BY <1>3, <2>1 DEF OneEach
  <2> QED BY <2>2, <2>3 DEF OneEach
<1>10. Asked' /\ SyncOffered'
  BY <1>2, <1>3, <1>4 DEF Asked, SyncOffered, dialog
<1> QED BY <1>5, <1>6, <1>8, <1>9, <1>10

\* A request that was answered or given up, with a finally block that clears its own.
LEMMA EndsLeave ==
  ASSUME TypeOK, OneEach, Asked, NEW r \in requests, Ends(r)
  PROVE  /\ requests' = requests \ {r} /\ requests' \subseteq Requests
         /\ controller' \in [Kinds -> Ids \cup {None}] /\ OneEach'
         /\ refreshing' \in SUBSET (Kinds \X Ids)
         /\ UNCHANGED <<adminToken, queueToken, filter>>
         /\ Asked'
         /\ \A k \in Kinds : InFlight(k)' <=> InFlight(k) /\ k # r.kind
         /\ \A k \in Kinds : Clears({r}, controller, k) <=> k = r.kind
<1>1. controller = Replaced({}, {})
  BY DEF Replaced, TypeOK
<1>2. Handled({r}, {}, {})
  BY DEF Handled
<1>3. /\ Proceed({r}, Replaced({}, {}), {})
      /\ refreshing' = refreshing \ {Key(r)}
      /\ UNCHANGED <<adminToken, queueToken, filter>>
  BY <1>1 DEF Ends
<1>4. /\ requests' = (requests \ {r}) \cup {} /\ requests' \subseteq Requests
      /\ controller' \in [Kinds -> Ids \cup {None}] /\ OneEach'
  BY <1>2, <1>3, ProceedLeaves
<1>5. \A k \in Kinds : Clears({r}, controller, k) <=> k = r.kind
  BY <1>1, <1>2, ClearsItsOwn
<1>6. \A k \in Kinds : InFlight(k)' <=> InFlight(k) /\ k # r.kind
  BY <1>4 DEF InFlight, OneEach
<1>7. Asked' /\ refreshing' \in SUBSET (Kinds \X Ids)
  BY <1>3, <1>4 DEF Asked, TypeOK
<1> QED BY <1>3, <1>4, <1>5, <1>6, <1>7

\* An answer about the page: the dialog and the syncs are left alone.
LEMMA PageAnswersKeep ==
  ASSUME PageInv, NEW r \in requests, QueueAnswered(r) \/ ListAnswered(r) \/ ExportAnswered(r)
  PROVE  PageInv'
<1> USE PageAssumption DEF PageInv
<1>1. Ends(r) /\ UNCHANGED dialog /\ r.kind \in {"queue", "list", "export"}
  BY DEF QueueAnswered, ListAnswered, ExportAnswered
<1>2. /\ requests' = requests \ {r} /\ requests' \subseteq Requests
      /\ controller' \in [Kinds -> Ids \cup {None}] /\ OneEach'
      /\ refreshing' \in SUBSET (Kinds \X Ids)
      /\ UNCHANGED <<adminToken, queueToken, filter>>
      /\ Asked'
      /\ \A k \in Kinds : InFlight(k)' <=> InFlight(k) /\ k # r.kind
      /\ \A k \in Kinds : Clears({r}, controller, k) <=> k = r.kind
  BY <1>1, EndsLeave
<1>3. /\ r \in Requests
      /\ r.token = IF r.kind = "queue" THEN queueToken ELSE adminToken
      /\ r.kind = "list" => r.about = filter
  BY DEF TypeOK, CredentialsRespected, TokenOf, Asked
<1>4. r.token \in Tokens
  BY <1>3 DEF Requests
<1>5. /\ metrics' \in Tokens \cup {NoToken}
      /\ queueToken = NoToken => metrics' = NoToken
      /\ exportBusy' \in BOOLEAN
      /\ exportBusy' <=> InFlight("export")'
  <2>1. CASE QueueAnswered(r)
    BY <1>2, <1>3, <1>4, <2>1 DEF QueueAnswered, Kinds, TypeOK, BusyInFlight
  <2>2. CASE ListAnswered(r)
    BY <1>2, <2>2 DEF ListAnswered, Kinds, TypeOK, BusyInFlight, CredentialsRespected
  <2>3. CASE ExportAnswered(r)
    BY <1>2, <2>3 DEF ExportAnswered, Kinds, TypeOK, BusyInFlight, CredentialsRespected
  <2> QED BY <2>1, <2>2, <2>3
<1>6. /\ \/ r.kind # "list" /\ table' = table
         \/ table' = NoRows
         \/ r.kind = "list" /\ table' = [token |-> adminToken, filter |-> filter]
      /\ tableBusy' \in BOOLEAN
      /\ tableBusy' <=> InFlight("list")'
      /\ r.kind # "list" => table' = table /\ tableBusy' = tableBusy
  <2>1. CASE QueueAnswered(r)
    BY <1>2, <2>1 DEF QueueAnswered, Kinds, TypeOK, BusyInFlight
  <2>2. CASE ListAnswered(r)
    BY <1>2, <1>3, <2>2 DEF ListAnswered, Kinds, TypeOK, BusyInFlight
  <2>3. CASE ExportAnswered(r)
    BY <1>2, <2>3 DEF ExportAnswered, Kinds, TypeOK, BusyInFlight
  <2> QED BY <2>1, <2>2, <2>3
<1>7. TypeOK'
  <2>1. table' \in [token : Tokens, filter : Filters] \cup {NoRows}
    BY <1>3, <1>4, <1>6 DEF TypeOK
  <2> QED BY <1>1, <1>2, <1>5, <1>6, <2>1 DEF TypeOK, dialog
<1>8. adminToken = NoToken => table' = NoRows
  BY <1>3, <1>4, <1>6 DEF CredentialsRespected
<1>9. CredentialsRespected'
  BY <1>1, <1>2, <1>5, <1>8 DEF CredentialsRespected, TokenOf, dialog
<1>10. ShownIsCurrent'
  <2>1. tableBusy /\ r.kind # "list" => tableBusy'
    BY <1>6
  <2>2. ~tableBusy' /\ table' # NoRows => table' = [token |-> adminToken, filter |-> filter]
    BY <1>3, <1>6 DEF ShownIsCurrent, BusyInFlight, InFlight
  <2> QED BY <1>1, <1>2, <2>2 DEF ShownIsCurrent, dialog
<1>11. BusyInFlight'
  BY <1>1, <1>2, <1>5, <1>6 DEF BusyInFlight, dialog, Kinds
<1>12. SyncOffered'
  BY <1>1, <1>2 DEF SyncOffered, dialog
<1> QED BY <1>2, <1>7, <1>9, <1>10, <1>11, <1>12

LEMMA DetailKeeps ==
  ASSUME PageInv, NEW r \in requests, DetailArrives(r) \/ DetailFails(r)
  PROVE  PageInv'
<1> USE PageAssumption DEF PageInv
<1>1. Ends(r) /\ UNCHANGED <<page, open, wanted>> /\ r.kind = "detail"
  BY DEF DetailArrives, DetailFails
<1>2. /\ requests' = requests \ {r} /\ requests' \subseteq Requests
      /\ controller' \in [Kinds -> Ids \cup {None}] /\ OneEach'
      /\ refreshing' \in SUBSET (Kinds \X Ids)
      /\ UNCHANGED <<adminToken, queueToken, filter>>
      /\ Asked'
      /\ \A k \in Kinds : InFlight(k)' <=> InFlight(k) /\ k # r.kind
  BY <1>1, EndsLeave
<1>3. r.token = adminToken /\ r.token \in Tokens /\ r.about \in Leads
  BY <1>1 DEF TypeOK, Requests, CredentialsRespected, TokenOf, Asked
<1>4. content = "loading" /\ open /\ selected = Nothing
  BY <1>1 DEF BusyInFlight, InFlight, ShownIsCurrent, TypeOK
<1>5. \/ /\ selected' = [lead |-> r.about, token |-> r.token] /\ content' = r.about
         /\ syncButton' = IF r.about \in Classified THEN "enabled" ELSE "disabled"
      \/ selected' = Nothing /\ content' = "error" /\ syncButton' = syncButton
  BY <1>4 DEF DetailArrives, DetailFails
<1>6. TypeOK'
  BY <1>1, <1>2, <1>3, <1>5 DEF TypeOK, page
<1>7. CredentialsRespected'
  BY <1>1, <1>2, <1>3, <1>5 DEF CredentialsRespected, TokenOf, page
<1>8. ShownIsCurrent'
  BY <1>1, <1>2, <1>4, <1>5 DEF ShownIsCurrent, page
<1>9. BusyInFlight'
  BY <1>1, <1>2, <1>3, <1>5 DEF BusyInFlight, page, Kinds
<1>10. SyncOffered'
  BY <1>3, <1>5 DEF SyncOffered, Nothing
<1> QED BY <1>2, <1>6, <1>7, <1>8, <1>9, <1>10

LEMMA SyncAnsweredKeeps == ASSUME PageInv, NEW r \in requests, SyncAnswered(r) PROVE PageInv'
<1> USE PageAssumption DEF PageInv
<1>1. /\ r.kind = "sync" /\ LoadLeads(filter, {r})
      /\ content' = r.about /\ syncButton' = "enabled" /\ selected.lead = r.about
      /\ UNCHANGED <<adminToken, queueToken, filter, metrics, exportBusy, open, selected, wanted>>
  BY DEF SyncAnswered, Shown
<1>2. /\ requests' \subseteq Requests
      /\ controller' \in [Kinds -> Ids \cup {None}] /\ OneEach'
      /\ refreshing' \in SUBSET (Kinds \X Ids)
      /\ table' \in [token : Tokens, filter : Filters] \cup {NoRows} /\ tableBusy' \in BOOLEAN
      /\ \A q \in requests' : \/ q \in requests \ {r} /\ q.kind # "list"
                              \/ q.kind = "list" /\ q.token = adminToken /\ q.about = filter
      /\ \A q \in requests \ {r} : q.kind # "list" => q \in requests'
      /\ tableBusy' <=> InFlight("list")'
      /\ ~tableBusy' => table' = NoRows
      /\ adminToken = NoToken => table' = NoRows
  <2>1. filter \in Filters /\ {r} \in SUBSET requests /\ \A q \in {r} : q.kind # "list"
    BY <1>1 DEF TypeOK
  <2> QED BY <1>1, <2>1, LoadLeadsLeaves
<1>3. selected # Nothing /\ open /\ content = selected.lead /\ selected.lead \in Leads
  BY <1>1, SelectedIsFetched DEF Asked
<1>4. content' = content
  BY <1>1, <1>3
<1>5. TypeOK'
  BY <1>1, <1>2, <1>4 DEF TypeOK
<1>6. CredentialsRespected'
  BY <1>1, <1>2 DEF CredentialsRespected, TokenOf
<1>7. ShownIsCurrent'
  BY <1>1, <1>2, <1>4 DEF ShownIsCurrent
<1>8. InFlight("export")' <=> InFlight("export")
  BY <1>1, <1>2 DEF InFlight
<1>9. InFlight("detail")' <=> InFlight("detail")
  BY <1>1, <1>2 DEF InFlight
<1>10. BusyInFlight'
  BY <1>1, <1>2, <1>4, <1>8, <1>9 DEF BusyInFlight
<1>11. Asked' /\ SyncOffered'
  BY <1>1, <1>2 DEF Asked, SyncOffered
<1> QED BY <1>2, <1>5, <1>6, <1>7, <1>10, <1>11

LEMMA SyncEndsKeeps == ASSUME PageInv, NEW r \in requests, SyncEnds(r) PROVE PageInv'
<1> USE PageAssumption DEF PageInv
<1>1. /\ Ends(r) /\ r.kind = "sync" /\ UNCHANGED <<page, open, selected, content, wanted>>
      /\ syncButton' = IF selected.lead = r.about THEN "enabled" ELSE syncButton
  BY DEF SyncEnds
<1>2. /\ requests' = requests \ {r} /\ requests' \subseteq Requests
      /\ controller' \in [Kinds -> Ids \cup {None}] /\ OneEach'
      /\ refreshing' \in SUBSET (Kinds \X Ids)
      /\ UNCHANGED <<adminToken, queueToken, filter>>
      /\ Asked'
      /\ \A k \in Kinds : InFlight(k)' <=> InFlight(k) /\ k # r.kind
  BY <1>1, EndsLeave
<1>3. TypeOK'
  BY <1>1, <1>2 DEF TypeOK, page
<1>4. CredentialsRespected' /\ ShownIsCurrent'
  BY <1>1, <1>2 DEF CredentialsRespected, ShownIsCurrent, TokenOf, page
<1>5. BusyInFlight'
  BY <1>1, <1>2 DEF BusyInFlight, page, Kinds
<1>6. SyncOffered'
  BY <1>1, <1>2 DEF SyncOffered
<1> QED BY <1>2, <1>3, <1>4, <1>5, <1>6

-----------------------------------------------------------------------------
(* PageInv is inductive.                                                   *)

LEMMA PageInit == Init => PageInv
<1> SUFFICES ASSUME Init PROVE PageInv
  OBVIOUS
<1> USE PageAssumption
<1>1. controller \in [Kinds -> Ids \cup {None}] /\ NoToken \in Tokens \cup {NoToken}
  BY DEF Init
<1>2. TypeOK
  BY <1>1 DEF Init, TypeOK
<1>3. CredentialsRespected /\ ShownIsCurrent
  BY DEF Init, CredentialsRespected, ShownIsCurrent
<1>4. OneEach /\ BusyInFlight /\ Asked /\ SyncOffered
  BY DEF Init, OneEach, BusyInFlight, InFlight, Asked, SyncOffered, Nothing
<1> QED BY <1>2, <1>3, <1>4 DEF PageInv

LEMMA PageNext == PageInv /\ [Next]_vars => PageInv'
<1> SUFFICES ASSUME PageInv, [Next]_vars PROVE PageInv'
  OBVIOUS
<1>1. CASE Refresh
  BY <1>1, RefreshKeeps
<1>2. CASE \E f \in Filters : ChangeFilter(f)
  BY <1>2, ChangeFilterKeeps
<1>3. CASE \E a, q \in Tokens \cup {NoToken} : SaveTokens(a, q)
  BY <1>3, SaveTokensKeeps
<1>4. CASE ExportCsv
  BY <1>4, ExportCsvKeeps
<1>5. CASE \E l \in Leads : View(l)
  BY <1>5, ViewKeeps
<1>6. CASE Close
  BY <1>6, CloseKeeps
<1>7. CASE Sync
  BY <1>7, SyncKeeps
<1>8. ASSUME NEW r \in requests, Answer(r) PROVE PageInv'
  BY <1>8, HeadersKeep, PageAnswersKeep, DetailKeeps, SyncAnsweredKeeps, SyncEndsKeeps DEF Answer
<1>9. CASE UNCHANGED vars
  BY <1>9 DEF vars, PageInv, TypeOK, CredentialsRespected, TokenOf, ShownIsCurrent, OneEach,
              BusyInFlight, InFlight, Asked, SyncOffered
<1> QED BY <1>1, <1>2, <1>3, <1>4, <1>5, <1>6, <1>7, <1>8, <1>9 DEF Next

LEMMA PageInvariant == Spec => []PageInv
BY PageInit, PageNext, PTL DEF Spec

-----------------------------------------------------------------------------
(* The theorems.                                                           *)

\* The page's variables keep their types, whatever answers arrive in whatever order.
THEOREM PageTypeCorrect == Spec => []TypeOK
<1>1. PageInv => TypeOK
  BY DEF PageInv
<1> QED BY <1>1, PageInvariant, PTL

\* No request goes on under another credential than the one in force, and without
\* a credential nothing that it protects is shown, whatever arrives afterwards.
THEOREM CredentialsAlwaysRespected == Spec => []CredentialsRespected
<1>1. PageInv => CredentialsRespected
  BY DEF PageInv
<1> QED BY <1>1, PageInvariant, PTL

\* What the table and the dialog show is current, however many requests overtake
\* one another.
THEOREM ShownAlwaysCurrent == Spec => []ShownIsCurrent
<1>1. PageInv => ShownIsCurrent
  BY DEF PageInv
<1> QED BY <1>1, PageInvariant, PTL

\* Of each kind one request is in flight and can be aborted, and nothing is left
\* busy when it is gone.
THEOREM NothingEverStuck == Spec => []NothingStuck
<1>1. PageInv => NothingStuck
  BY DEF PageInv, OneEach, BusyInFlight, SyncOffered, InFlight, NothingStuck
<1> QED BY <1>1, PageInvariant, PTL
=============================================================================
