------------------------- MODULE HubSpotUpsertProofs -------------------------
(***************************************************************************)
(* Proofs about HubSpotUpsert, for any leads, addresses, concurrent calls  *)
(* and contacts, and any number of late requests.                          *)
(***************************************************************************)
EXTENDS HubSpotUpsert, TLAPS

-----------------------------------------------------------------------------
(* The inductive invariant.                                                *)

\* Whoever asks HubSpot for anything has a lead with an address.
Addressed ==
  /\ \A p \in Calls : step[p] # "idle" => lead[p] \in Leads /\ EmailOf[lead[p]] # NoEmail
  /\ \A r \in late : EmailOf[r.lead] # NoEmail

\* Sales has only moved contacts that exist.
CustomersExist == \A c \in Contacts : stage[c] = "customer" => email[c] # NoEmail

\* A call whose contact is gone has seen it deleted.
GoneIsExcused ==
  \A p \in Calls : target[p] \in Contacts /\ email[target[p]] = NoEmail => p \in excused

\* An id stands for one address as long as somebody remembers it.
TargetMatches ==
  /\ \A p \in Calls :
       target[p] \in Contacts => email[target[p]] \in {EmailOf[lead[p]], NoEmail}
  /\ \A r \in late :
       r.target \in Contacts => email[r.target] \in {EmailOf[r.lead], NoEmail}

\* A call that HubSpot has told of a contact, by a conflict or by taking its write,
\* has a customer with a contact, unless one has been deleted since.
ContactIsThere ==
  \A p \in Calls : step[p] \in {"finding again", "stored"} /\ p \notin bereft =>
    \E c \in Contacts : email[c] = EmailOf[lead[p]]

\* How a call can have got where it is.
WroteAndBereft ==
  \A p \in Calls : /\ step[p] = "stored" => p \in wrote
                   /\ outcome[p] = "delivered" => step[p] = "idle" /\ p \in wrote
                   /\ outcome[p] = "conflict" => step[p] = "idle" /\ p \in bereft

RaceInv == TargetMatches /\ ContactIsThere /\ WroteAndBereft

UpsertInv == TypeOK /\ Addressed /\ CustomersExist /\ GoneIsExcused /\ RacesAreRetryable

-----------------------------------------------------------------------------
(* What the parts of an action do.                                         *)

Steps == {"idle", "finding", "updating", "creating", "finding again", "stored"}
Outcomes == {"none", "delivered", "retryable", "conflict", "permanent"}

\* A call that ends has neither a lead nor a contact in hand.
LEMMA EndShape ==
  ASSUME UpsertInv, NEW p \in Calls, NEW result \in Outcomes, End(p, result)
  PROVE  /\ step' \in [Calls -> Steps] /\ lead' \in [Calls -> Leads \cup {NoLead}]
         /\ target' \in [Calls -> Contacts \cup {NoContact}] /\ outcome' \in [Calls -> Outcomes]
         /\ \A q \in Calls : step'[q] = "updating" <=> target'[q] # NoContact
         /\ \A q \in Calls : step'[q] # "idle" => /\ step[q] # "idle" /\ lead'[q] = lead[q]
                                                  /\ target'[q] = target[q]
         /\ \A q \in Calls : target'[q] # NoContact => q # p /\ target'[q] = target[q]
         /\ \A q \in Calls : outcome'[q] = IF q = p THEN result ELSE outcome[q]
BY DEF End, UpsertInv, TypeOK, Steps, Outcomes

\* A call that goes on keeps its lead.
LEMMA GoOnShape ==
  ASSUME UpsertInv, NEW p \in Calls, NEW next \in Steps \ {"idle"},
         NEW contact \in Contacts \cup {NoContact},
         next = "updating" <=> contact # NoContact, GoOn(p, next, contact)
  PROVE  /\ step' \in [Calls -> Steps] /\ lead' = lead /\ outcome' = outcome
         /\ target' \in [Calls -> Contacts \cup {NoContact}]
         /\ \A q \in Calls : step'[q] = "updating" <=> target'[q] # NoContact
         /\ \A q \in Calls : target'[q] = IF q = p THEN contact ELSE target[q]
         /\ \A q \in Calls : q # p => step'[q] = step[q]
BY DEF GoOn, UpsertInv, TypeOK, Steps

\* What HubSpot stores has an address, and does not bring a customer back.
LEMMA StoreShape ==
  ASSUME UpsertInv, NEW l \in Leads, EmailOf[l] # NoEmail, NEW c \in Contacts,
         NEW isCreate \in BOOLEAN, isCreate <=> email[c] = NoEmail, Store(l, c, isCreate)
  PROVE  /\ email' \in [Contacts -> Emails \cup {NoEmail}]
         /\ stage' \in [Contacts -> {"lead", "customer"}]
         /\ holds' \in [Contacts -> Leads \cup {NoLead}]
         /\ email'[c] = EmailOf[l] /\ holds'[c] = l
         /\ \A d \in Contacts : email'[d] = NoEmail => email[d] = NoEmail
         /\ CustomersExist'
         /\ \A d \in Contacts : stage[d] = "customer" => stage'[d] = "customer"
<1>1. /\ email' = [email EXCEPT ![c] = EmailOf[l]] /\ holds' = [holds EXCEPT ![c] = l]
      /\ stage' = [stage EXCEPT ![c] = IF isCreate THEN "lead" ELSE stage[c]]
  BY DEF Store, Lifecycle
<1>2. EmailOf[l] \in Emails
  BY EmailAssumption
<1>3. /\ email' \in [Contacts -> Emails \cup {NoEmail}]
      /\ stage' \in [Contacts -> {"lead", "customer"}]
      /\ holds' \in [Contacts -> Leads \cup {NoLead}]
      /\ email'[c] = EmailOf[l] /\ holds'[c] = l
      /\ \A d \in Contacts : d # c => email'[d] = email[d] /\ stage'[d] = stage[d]
  BY <1>1, <1>2 DEF UpsertInv, TypeOK
<1>4. isCreate => stage[c] = "lead"
  BY DEF UpsertInv, TypeOK, CustomersExist
<1>5. stage[c] = "customer" => stage'[c] = "customer"
  BY <1>1, <1>4 DEF UpsertInv, TypeOK
<1> QED BY <1>3, <1>5 DEF CustomersExist, UpsertInv

\* A creation takes a contact that does not exist and that nobody has in hand.
LEMMA FreshIsNew == \A c \in Fresh : c \in Contacts /\ email[c] = NoEmail
BY DEF Fresh

-----------------------------------------------------------------------------
(* UpsertInv is inductive.                                                 *)

LEMMA UpsertInit == Init => UpsertInv
<1> SUFFICES ASSUME Init PROVE UpsertInv
  OBVIOUS
<1>1. TypeOK
  BY DEF Init, TypeOK
<1>2. Addressed /\ CustomersExist
  BY DEF Init, Addressed, CustomersExist
<1>3. GoneIsExcused /\ RacesAreRetryable
  BY NothingAssumption DEF Init, GoneIsExcused, RacesAreRetryable
<1> QED BY <1>1, <1>2, <1>3 DEF UpsertInv

LEMMA SalesStep ==
  ASSUME UpsertInv, NEW c \in Contacts, Deletes(c) \/ Promotes(c)
  PROVE  UpsertInv'
<1>1. CASE Deletes(c)
  <2>1. TypeOK'
    BY <1>1 DEF Deletes, UpsertInv, TypeOK
  <2>2. Addressed' /\ CustomersExist' /\ GoneIsExcused' /\ RacesAreRetryable'
    BY <1>1 DEF Deletes, UpsertInv, TypeOK, Addressed, CustomersExist, GoneIsExcused,
                RacesAreRetryable
  <2> QED BY <2>1, <2>2 DEF UpsertInv
<1>2. CASE Promotes(c)
  <2>1. TypeOK'
    BY <1>2 DEF Promotes, UpsertInv, TypeOK, history
  <2>2. Addressed' /\ CustomersExist' /\ GoneIsExcused' /\ RacesAreRetryable'
    BY <1>2 DEF Promotes, history, UpsertInv, TypeOK, Addressed, CustomersExist, GoneIsExcused,
                RacesAreRetryable
  <2> QED BY <2>1, <2>2 DEF UpsertInv
<1> QED BY <1>1, <1>2

\* A call ends: for good only if it is excused.
LEMMA EndStep ==
  ASSUME UpsertInv, NEW p \in Calls, NEW result \in Outcomes, End(p, result),
         result = "permanent" => p \in excused', excused \subseteq excused',
         excused' \subseteq Calls, wrote' \subseteq Calls, bereft' \subseteq Calls,
         late' \in SUBSET Requests,
         \A r \in late' : EmailOf[r.lead] # NoEmail,
         email' \in [Contacts -> Emails \cup {NoEmail}],
         stage' \in [Contacts -> {"lead", "customer"}],
         holds' \in [Contacts -> Leads \cup {NoLead}],
         CustomersExist',
         \A c \in Contacts : email'[c] = NoEmail => email[c] = NoEmail
  PROVE  UpsertInv'
<1>1. /\ step' \in [Calls -> Steps] /\ lead' \in [Calls -> Leads \cup {NoLead}]
      /\ target' \in [Calls -> Contacts \cup {NoContact}] /\ outcome' \in [Calls -> Outcomes]
      /\ \A q \in Calls : step'[q] = "updating" <=> target'[q] # NoContact
      /\ \A q \in Calls : step'[q] # "idle" => step[q] # "idle" /\ lead'[q] = lead[q]
      /\ \A q \in Calls : target'[q] # NoContact => q # p /\ target'[q] = target[q]
      /\ \A q \in Calls : outcome'[q] = IF q = p THEN result ELSE outcome[q]
  BY EndShape
<1>2. TypeOK'
  BY <1>1 DEF TypeOK, Steps, Outcomes
<1>3. Addressed'
  BY <1>1 DEF UpsertInv, Addressed
<1>4. GoneIsExcused'
  BY <1>1, NothingAssumption DEF UpsertInv, GoneIsExcused
<1>5. RacesAreRetryable'
  BY <1>1 DEF UpsertInv, RacesAreRetryable
<1> QED BY <1>2, <1>3, <1>4, <1>5 DEF UpsertInv

\* A call goes on to its next request.
LEMMA GoOnStep ==
  ASSUME UpsertInv, NEW p \in Calls, step[p] # "idle", NEW next \in Steps \ {"idle"},
         NEW contact \in Contacts \cup {NoContact},
         next = "updating" <=> contact # NoContact,
         contact \in Contacts => email[contact] # NoEmail,
         GoOn(p, next, contact), UNCHANGED <<late, excused>>,
         wrote' \subseteq Calls, bereft' \subseteq Calls,
         email' \in [Contacts -> Emails \cup {NoEmail}],
         stage' \in [Contacts -> {"lead", "customer"}],
         holds' \in [Contacts -> Leads \cup {NoLead}],
         CustomersExist',
         \A c \in Contacts : email'[c] = NoEmail => email[c] = NoEmail
  PROVE  UpsertInv'
<1>1. /\ step' \in [Calls -> Steps] /\ lead' = lead /\ outcome' = outcome
      /\ target' \in [Calls -> Contacts \cup {NoContact}]
      /\ \A q \in Calls : step'[q] = "updating" <=> target'[q] # NoContact
      /\ \A q \in Calls : target'[q] = IF q = p THEN contact ELSE target[q]
      /\ \A q \in Calls : q # p => step'[q] = step[q]
  BY GoOnShape
<1>2. TypeOK'
  BY <1>1 DEF UpsertInv, TypeOK, Steps
<1>3. Addressed' /\ RacesAreRetryable'
  BY <1>1 DEF UpsertInv, Addressed, RacesAreRetryable
<1>4. GoneIsExcused'
  BY <1>1 DEF UpsertInv, GoneIsExcused
<1> QED BY <1>2, <1>3, <1>4 DEF UpsertInv

LEMMA CallStep ==
  ASSUME UpsertInv, NEW p \in Calls,
         \/ \E l \in Leads : Begin(p, l) \/ NeedsEmail(p, l)
         \/ Finds(p) \/ FindsNothing(p)
         \/ Updates(p) \/ UpdateMisses(p)
         \/ Creates(p) \/ CreateConflicts(p)
         \/ Delivered(p) \/ AnswerLost(p)
         \/ RequestFails(p) \/ Refuses(p)
  PROVE  UpsertInv'
<1> USE DEF UpsertInv
<1>1. step[p] # "idle" => /\ lead[p] \in Leads /\ EmailOf[lead[p]] \in Emails
                          /\ EmailOf[lead[p]] # NoEmail
  BY EmailAssumption DEF Addressed
<1>2. step[p] = "updating" => target[p] \in Contacts
  BY NothingAssumption DEF TypeOK
<1>3. \A r \in late : EmailOf[r.lead] # NoEmail
  BY DEF Addressed
<1>4. UNCHANGED hubspot =>
        /\ email' \in [Contacts -> Emails \cup {NoEmail}]
        /\ stage' \in [Contacts -> {"lead", "customer"}]
        /\ holds' \in [Contacts -> Leads \cup {NoLead}]
        /\ CustomersExist'
        /\ \A c \in Contacts : email'[c] = NoEmail => email[c] = NoEmail
  BY DEF hubspot, TypeOK, CustomersExist
<1>5. /\ excused \subseteq Calls /\ wrote \subseteq Calls /\ bereft \subseteq Calls
      /\ late \in SUBSET Requests
  BY DEF TypeOK
<1>6. ASSUME NEW l \in Leads, Begin(p, l) PROVE UpsertInv'
  <2>1. TypeOK'
    BY <1>6 DEF Begin, TypeOK, hubspot
  <2>2. Addressed' /\ CustomersExist'
    BY <1>6 DEF Begin, TypeOK, hubspot, Addressed, CustomersExist
  <2>3. target[p] = NoContact
    BY <1>6 DEF Begin, TypeOK
  <2>4. GoneIsExcused'
    BY <1>6, <2>3, NothingAssumption DEF Begin, hubspot, GoneIsExcused
  <2>5. RacesAreRetryable'
    BY <1>6 DEF Begin, TypeOK, RacesAreRetryable
  <2> QED BY <2>1, <2>2, <2>4, <2>5
<1>7. ASSUME NEW l \in Leads, NeedsEmail(p, l) PROVE UpsertInv'
  <2>1. TypeOK'
    BY <1>7 DEF NeedsEmail, TypeOK, hubspot
  <2>2. Addressed' /\ CustomersExist' /\ GoneIsExcused' /\ RacesAreRetryable'
    BY <1>7 DEF NeedsEmail, TypeOK, hubspot, Addressed, CustomersExist, GoneIsExcused,
                RacesAreRetryable
  <2> QED BY <2>1, <2>2
<1>8. CASE Finds(p)
  <2>1. PICK c \in With(EmailOf[lead[p]]) : GoOn(p, "updating", c)
    BY <1>8 DEF Finds
  <2>2. c \in Contacts /\ email[c] # NoEmail /\ step[p] # "idle"
    BY <1>1, <1>8, <2>1 DEF Finds, With
  <2> QED BY <1>4, <1>5, <1>8, <2>1, <2>2, NothingAssumption, GoOnStep
        DEF Finds, Steps, history
<1>9. CASE FindsNothing(p)
  <2>1. CASE step[p] = "finding"
    <3>1. GoOn(p, "creating", NoContact) /\ UNCHANGED <<hubspot, late, history>>
      BY <1>9, <2>1 DEF FindsNothing
    <3> QED BY <1>4, <1>5, <2>1, <3>1, NothingAssumption, GoOnStep DEF Steps, history
  <2>2. CASE step[p] # "finding"
    <3>1. End(p, "conflict") /\ UNCHANGED <<hubspot, late, history>>
      BY <1>9, <2>2 DEF FindsNothing
    <3> QED BY <1>3, <1>4, <1>5, <3>1, EndStep DEF Outcomes, history
  <2> QED BY <2>1, <2>2
<1>10. CASE Updates(p)
  <2>1. /\ GoOn(p, "stored", NoContact)
        /\ wrote' = wrote \cup {p} /\ bereft' = bereft \ {p}
    BY <1>10 DEF Updates, Wrote
  <2>2. /\ Store(lead[p], target[p], FALSE) /\ email[target[p]] # NoEmail
        /\ step[p] = "updating" /\ UNCHANGED <<late, excused>>
    BY <1>10 DEF Updates, Wrote
  <2>3. /\ email' \in [Contacts -> Emails \cup {NoEmail}]
        /\ stage' \in [Contacts -> {"lead", "customer"}]
        /\ holds' \in [Contacts -> Leads \cup {NoLead}]
        /\ \A d \in Contacts : email'[d] = NoEmail => email[d] = NoEmail
        /\ CustomersExist'
    BY <1>1, <1>2, <2>2, StoreShape
  <2> QED BY <1>5, <2>1, <2>2, <2>3, NothingAssumption, GoOnStep DEF Steps
<1>11. CASE UpdateMisses(p)
  <2>1. /\ End(p, "permanent") /\ UNCHANGED <<hubspot, late, history>>
        /\ email[target[p]] = NoEmail /\ step[p] = "updating"
    BY <1>11 DEF UpdateMisses
  <2>2. p \in excused
    BY <1>2, <2>1 DEF GoneIsExcused
  <2> QED BY <1>3, <1>4, <1>5, <2>1, <2>2, EndStep DEF Outcomes, history
<1>12. CASE Creates(p)
  <2>1. /\ GoOn(p, "stored", NoContact)
        /\ wrote' = wrote \cup {p} /\ bereft' = bereft \ {p}
    BY <1>12 DEF Creates, Wrote
  <2>2. PICK c \in Fresh : Store(lead[p], c, TRUE)
    BY <1>12 DEF Creates
  <2>3. step[p] = "creating" /\ UNCHANGED <<late, excused>>
    BY <1>12 DEF Creates, Wrote
  <2>4. c \in Contacts /\ email[c] = NoEmail
    BY FreshIsNew
  <2>5. /\ email' \in [Contacts -> Emails \cup {NoEmail}]
        /\ stage' \in [Contacts -> {"lead", "customer"}]
        /\ holds' \in [Contacts -> Leads \cup {NoLead}]
        /\ \A d \in Contacts : email'[d] = NoEmail => email[d] = NoEmail
        /\ CustomersExist'
    BY <1>1, <2>2, <2>3, <2>4, StoreShape
  <2> QED BY <1>5, <2>1, <2>3, <2>5, NothingAssumption, GoOnStep DEF Steps
<1>13. CASE CreateConflicts(p)
  <2>1. /\ GoOn(p, "finding again", NoContact) /\ UNCHANGED <<hubspot, late, history>>
        /\ step[p] = "creating"
    BY <1>13 DEF CreateConflicts, AfterConflict
  <2> QED BY <1>4, <1>5, <2>1, NothingAssumption, GoOnStep DEF Steps, history
<1>14. CASE RequestFails(p)
  <2>1. step[p] # "idle" /\ End(p, "retryable") /\ UNCHANGED <<hubspot, history>>
    BY <1>14 DEF RequestFails
  <2>2. /\ late' \in SUBSET Requests
        /\ \A r \in late' : EmailOf[r.lead] # NoEmail
    <3> DEFINE r == [lead |-> lead[p], target |-> target[p]]
    <3>1. r \in Requests /\ r.lead = lead[p]
      BY <1>1, <2>1 DEF Requests, TypeOK
    <3>2. late' \subseteq late \cup {r}
      BY <1>14 DEF RequestFails
    <3> HIDE DEF r
    <3> QED BY <1>1, <1>3, <1>5, <2>1, <3>1, <3>2
  <2> QED BY <1>4, <1>5, <2>1, <2>2, EndStep DEF Outcomes, history
<1>15. CASE Refuses(p)
  <2>1. /\ End(p, "permanent") /\ excused' = excused \cup {p}
        /\ UNCHANGED <<hubspot, late, wrote, bereft>>
    BY <1>15 DEF Refuses
  <2> QED BY <1>3, <1>4, <1>5, <2>1, EndStep DEF Outcomes
<1>16. CASE Delivered(p) \/ AnswerLost(p)
  <2>1. /\ UNCHANGED <<hubspot, late, history>>
        /\ End(p, "delivered") \/ End(p, "retryable")
    BY <1>16 DEF Delivered, AnswerLost
  <2> QED BY <1>3, <1>4, <1>5, <2>1, EndStep DEF Outcomes, history
<1> QED BY <1>6, <1>7, <1>8, <1>9, <1>10, <1>11, <1>12, <1>13, <1>14, <1>15, <1>16

LEMMA LateStep ==
  ASSUME UpsertInv, NEW r \in late, LateRequest(r)
  PROVE  /\ UpsertInv'
         /\ \A c \in Contacts : stage[c] = "customer" => stage'[c] = "customer"
<1> USE DEF UpsertInv
<1>1. /\ r.lead \in Leads /\ r.target \in Contacts \cup {NoContact}
      /\ EmailOf[r.lead] # NoEmail
  BY DEF TypeOK, Requests, Addressed
<1>2. /\ late' = late \ {r} /\ UNCHANGED <<step, lead, target, outcome, history>>
      /\ \/ \E c \in Contacts, isCreate \in BOOLEAN :
              (isCreate <=> email[c] = NoEmail) /\ Store(r.lead, c, isCreate)
         \/ UNCHANGED hubspot
  BY <1>1, FreshIsNew DEF LateRequest
<1>3. /\ email' \in [Contacts -> Emails \cup {NoEmail}]
      /\ stage' \in [Contacts -> {"lead", "customer"}]
      /\ holds' \in [Contacts -> Leads \cup {NoLead}]
      /\ \A d \in Contacts : email'[d] = NoEmail => email[d] = NoEmail
      /\ CustomersExist'
      /\ \A c \in Contacts : stage[c] = "customer" => stage'[c] = "customer"
  <2>1. CASE UNCHANGED hubspot
    BY <2>1 DEF hubspot, TypeOK, CustomersExist
  <2>2. ASSUME NEW c \in Contacts, NEW isCreate \in BOOLEAN,
               isCreate <=> email[c] = NoEmail, Store(r.lead, c, isCreate)
        PROVE  /\ email' \in [Contacts -> Emails \cup {NoEmail}]
               /\ stage' \in [Contacts -> {"lead", "customer"}]
               /\ holds' \in [Contacts -> Leads \cup {NoLead}]
               /\ \A d \in Contacts : email'[d] = NoEmail => email[d] = NoEmail
               /\ CustomersExist'
               /\ \A d \in Contacts : stage[d] = "customer" => stage'[d] = "customer"
    BY <1>1, <2>2, StoreShape
  <2> QED BY <1>2, <2>1, <2>2
<1>4. TypeOK'
  BY <1>2, <1>3 DEF TypeOK, history
<1>5. Addressed' /\ RacesAreRetryable'
  BY <1>2 DEF Addressed, RacesAreRetryable, history
<1>6. GoneIsExcused'
  BY <1>2, <1>3 DEF GoneIsExcused, history
<1> QED BY <1>3, <1>4, <1>5, <1>6

LEMMA UpsertNext == UpsertInv /\ [Next]_vars => UpsertInv'
<1>1. UpsertInv /\ UNCHANGED vars => UpsertInv'
  BY DEF vars, hubspot, history, UpsertInv, TypeOK, Addressed, CustomersExist, GoneIsExcused, RacesAreRetryable
<1> QED BY <1>1, SalesStep, CallStep, LateStep DEF Next

LEMMA UpsertInvariant == Spec => []UpsertInv
BY UpsertInit, UpsertNext, PTL DEF Spec

-----------------------------------------------------------------------------
(* RaceInv is inductive, given UpsertInv.                                  *)

\* HubSpot's writes make contacts appear; they neither remove nor rename any.
LEMMA StoreRenamesNone ==
  ASSUME UpsertInv, TargetMatches, NEW l \in Leads, NEW c \in Contacts, NEW isCreate,
         email[c] = EmailOf[l] \/ c \in Fresh, Store(l, c, isCreate)
  PROVE  /\ \A d \in Contacts : email[d] # NoEmail => email'[d] = email[d]
         /\ email'[c] = EmailOf[l]
         /\ \A p \in Calls :
              target[p] \in Contacts => email'[target[p]] \in {EmailOf[lead[p]], NoEmail}
         /\ \A r \in late :
              r.target \in Contacts => email'[r.target] \in {EmailOf[r.lead], NoEmail}
<1>1. \A d \in Contacts : email'[d] = IF d = c THEN EmailOf[l] ELSE email[d]
  BY DEF Store, UpsertInv, TypeOK
<1>2. CASE email[c] = EmailOf[l]
  BY <1>1, <1>2 DEF TargetMatches
<1>3. CASE c \in Fresh
  BY <1>1, <1>3 DEF TargetMatches, Fresh
<1> QED BY <1>2, <1>3

LEMMA RaceInit == Init => RaceInv
BY NothingAssumption
   DEF Init, RaceInv, TargetMatches, ContactIsThere, WroteAndBereft

\* Steps of sales.
LEMMA SalesRaces ==
  ASSUME UpsertInv, RaceInv, NEW c \in Contacts, Deletes(c) \/ Promotes(c)
  PROVE  RaceInv'
<1> USE DEF UpsertInv, TypeOK, RaceInv
<1>1. CASE Promotes(c)
  BY <1>1 DEF Promotes, history, TargetMatches, ContactIsThere, WroteAndBereft
<1>2. CASE Deletes(c)
  <2>1. TargetMatches'
    BY <1>2 DEF Deletes, TargetMatches
  <2>2. ContactIsThere'
    <3> SUFFICES ASSUME NEW p \in Calls, step[p] \in {"finding again", "stored"},
                        p \notin bereft'
                 PROVE  \E d \in Contacts : email'[d] = EmailOf[lead[p]]
      BY <1>2 DEF Deletes, ContactIsThere
    <3>1. p \notin bereft /\ EmailOf[lead[p]] # email[c]
      BY <1>2 DEF Deletes
    <3>2. PICK d \in Contacts : email[d] = EmailOf[lead[p]]
      BY <3>1 DEF ContactIsThere
    <3> QED BY <1>2, <3>1, <3>2 DEF Deletes
  <2>3. WroteAndBereft'
    BY <1>2 DEF Deletes, WroteAndBereft
  <2> QED BY <2>1, <2>2, <2>3
<1> QED BY <1>1, <1>2

\* A call ends while HubSpot stays as it is.
LEMMA EndRaces ==
  ASSUME UpsertInv, RaceInv, NEW p \in Calls, NEW result \in Outcomes, End(p, result),
         UNCHANGED <<hubspot, wrote, bereft>>,
         result = "delivered" => p \in wrote, result = "conflict" => p \in bereft,
         \A r \in late' : \/ r \in late
                          \/ r.lead = lead[p] /\ r.target = target[p]
  PROVE  RaceInv'
<1> USE DEF RaceInv
<1>1. /\ \A q \in Calls : step'[q] # "idle" => step[q] # "idle" /\ lead'[q] = lead[q]
      /\ \A q \in Calls : target'[q] # NoContact => q # p /\ target'[q] = target[q]
      /\ \A q \in Calls : outcome'[q] = IF q = p THEN result ELSE outcome[q]
  BY EndShape
<1>2. \A q \in Calls : /\ step'[q] = IF q = p THEN "idle" ELSE step[q]
                       /\ q # p => lead'[q] = lead[q]
  BY DEF End, UpsertInv, TypeOK
<1>3. TargetMatches'
  BY <1>1, <1>2, NothingAssumption DEF TargetMatches, hubspot
<1>4. ContactIsThere'
  BY <1>2 DEF ContactIsThere, hubspot
<1>5. WroteAndBereft'
  BY <1>1, <1>2 DEF WroteAndBereft
<1> QED BY <1>3, <1>4, <1>5

\* A call goes on to its next request while HubSpot stays as it is.
LEMMA GoOnRaces ==
  ASSUME UpsertInv, RaceInv, NEW p \in Calls, step[p] # "idle",
         NEW next \in Steps \ {"idle", "stored"},
         NEW contact \in Contacts \cup {NoContact},
         next = "updating" <=> contact # NoContact,
         contact \in Contacts => email[contact] = EmailOf[lead[p]],
         next = "finding again" => \E c \in Contacts : email[c] = EmailOf[lead[p]],
         GoOn(p, next, contact), UNCHANGED <<hubspot, late, history>>
  PROVE  RaceInv'
<1> USE DEF RaceInv
<1>1. /\ lead' = lead /\ outcome' = outcome
      /\ \A q \in Calls : target'[q] = IF q = p THEN contact ELSE target[q]
      /\ \A q \in Calls : q # p => step'[q] = step[q]
  BY GoOnShape
<1>2. step'[p] = next
  BY DEF GoOn, UpsertInv, TypeOK
<1>3. TargetMatches'
  BY <1>1 DEF TargetMatches, hubspot
<1>4. ContactIsThere'
  BY <1>1, <1>2 DEF ContactIsThere, hubspot, history
<1>5. WroteAndBereft'
  BY <1>1, <1>2 DEF WroteAndBereft, history
<1> QED BY <1>3, <1>4, <1>5

\* HubSpot executes the request of a call.
LEMMA WroteRaces ==
  ASSUME UpsertInv, RaceInv, NEW p \in Calls, step[p] \in {"updating", "creating"},
         NEW c \in Contacts, NEW isCreate,
         email[c] = EmailOf[lead[p]] \/ c \in Fresh, Store(lead[p], c, isCreate), Wrote(p)
  PROVE  RaceInv'
<1> USE DEF RaceInv
<1>1. /\ GoOn(p, "stored", NoContact) /\ UNCHANGED late
      /\ wrote' = wrote \cup {p} /\ bereft' = bereft \ {p}
  BY DEF Wrote
<1>2. /\ lead' = lead /\ outcome' = outcome
      /\ \A q \in Calls : target'[q] = IF q = p THEN NoContact ELSE target[q]
      /\ \A q \in Calls : q # p => step'[q] = step[q]
  BY <1>1, NothingAssumption, GoOnShape DEF Steps
<1>3. lead[p] \in Leads
  BY DEF UpsertInv, Addressed
<1>4. /\ \A d \in Contacts : email[d] # NoEmail => email'[d] = email[d]
      /\ email'[c] = EmailOf[lead[p]]
      /\ \A q \in Calls :
           target[q] \in Contacts => email'[target[q]] \in {EmailOf[lead[q]], NoEmail}
      /\ \A r \in late :
           r.target \in Contacts => email'[r.target] \in {EmailOf[r.lead], NoEmail}
  BY <1>3, StoreRenamesNone
<1>5. TargetMatches'
  BY <1>1, <1>2, <1>4, NothingAssumption DEF TargetMatches
<1>6. ContactIsThere'
  <2> SUFFICES ASSUME NEW q \in Calls, step'[q] \in {"finding again", "stored"},
                      q \notin bereft'
               PROVE  \E d \in Contacts : email'[d] = EmailOf[lead[q]]
    BY <1>2 DEF ContactIsThere
  <2>1. CASE q = p
    BY <1>4, <2>1
  <2>2. CASE q # p
    <3>1. PICK d \in Contacts : email[d] = EmailOf[lead[q]]
      BY <1>1, <1>2, <2>2 DEF ContactIsThere
    <3>2. EmailOf[lead[q]] # NoEmail
      BY <1>2, <2>2 DEF UpsertInv, Addressed
    <3> QED BY <1>4, <3>1, <3>2
  <2> QED BY <2>1, <2>2
<1>7. WroteAndBereft'
  BY <1>1, <1>2 DEF WroteAndBereft
<1> QED BY <1>5, <1>6, <1>7

LEMMA CallRaces ==
  ASSUME UpsertInv, RaceInv, NEW p \in Calls,
         \/ \E l \in Leads : Begin(p, l) \/ NeedsEmail(p, l)
         \/ Finds(p) \/ FindsNothing(p)
         \/ Updates(p) \/ UpdateMisses(p)
         \/ Creates(p) \/ CreateConflicts(p)
         \/ Delivered(p) \/ AnswerLost(p)
         \/ RequestFails(p) \/ Refuses(p)
  PROVE  RaceInv'
<1>1. ASSUME NEW l \in Leads, Begin(p, l) PROVE RaceInv'
  <2> USE DEF UpsertInv, TypeOK, RaceInv
  <2>1. target[p] = NoContact
    BY <1>1 DEF Begin
  <2>2. TargetMatches'
    BY <1>1, <2>1, NothingAssumption DEF Begin, hubspot, TargetMatches
  <2>3. ContactIsThere' /\ WroteAndBereft'
    BY <1>1 DEF Begin, hubspot, ContactIsThere, WroteAndBereft
  <2> QED BY <2>2, <2>3
<1>2. ASSUME NEW l \in Leads, NeedsEmail(p, l) PROVE RaceInv'
  BY <1>2 DEF NeedsEmail, hubspot, UpsertInv, TypeOK, RaceInv, TargetMatches, ContactIsThere,
              WroteAndBereft
<1>3. CASE Finds(p)
  <2>1. PICK c \in With(EmailOf[lead[p]]) : GoOn(p, "updating", c)
    BY <1>3 DEF Finds
  <2>2. /\ c \in Contacts /\ email[c] = EmailOf[lead[p]] /\ step[p] # "idle"
        /\ UNCHANGED <<hubspot, late, history>>
    BY <1>3, <2>1 DEF Finds, With
  <2> QED BY <2>1, <2>2, NothingAssumption, GoOnRaces DEF Steps
<1>4. CASE FindsNothing(p)
  <2>1. CASE step[p] = "finding"
    <3>1. GoOn(p, "creating", NoContact) /\ UNCHANGED <<hubspot, late, history>>
      BY <1>4, <2>1 DEF FindsNothing
    <3> QED BY <2>1, <3>1, NothingAssumption, GoOnRaces DEF Steps
  <2>2. CASE step[p] # "finding"
    <3>1. End(p, "conflict") /\ UNCHANGED <<hubspot, late, history>>
      BY <1>4, <2>2 DEF FindsNothing
    <3>2. p \in bereft
      BY <1>4, <2>2 DEF FindsNothing, With, RaceInv, ContactIsThere
    <3> QED BY <3>1, <3>2, EndRaces DEF Outcomes, history
  <2> QED BY <2>1, <2>2
<1>5. CASE Updates(p)
  <2>1. target[p] \in Contacts /\ step[p] = "updating" /\ email[target[p]] # NoEmail
    BY <1>5, NothingAssumption DEF Updates, UpsertInv, TypeOK
  <2>2. email[target[p]] = EmailOf[lead[p]]
    BY <2>1 DEF RaceInv, TargetMatches
  <2> QED BY <1>5, <2>1, <2>2, WroteRaces DEF Updates
<1>6. CASE Creates(p)
  <2>1. PICK c \in Fresh : Store(lead[p], c, TRUE)
    BY <1>6 DEF Creates
  <2>2. c \in Contacts
    BY FreshIsNew
  <2> QED BY <1>6, <2>1, <2>2, WroteRaces DEF Creates
<1>7. CASE CreateConflicts(p)
  <2>1. /\ GoOn(p, "finding again", NoContact) /\ UNCHANGED <<hubspot, late, history>>
        /\ step[p] = "creating" /\ \E c \in Contacts : email[c] = EmailOf[lead[p]]
    BY <1>7 DEF CreateConflicts, AfterConflict, With
  <2> QED BY <2>1, NothingAssumption, GoOnRaces DEF Steps
<1>8. CASE Delivered(p)
  <2>1. End(p, "delivered") /\ p \in wrote /\ UNCHANGED <<hubspot, late, history>>
    BY <1>8 DEF Delivered, RaceInv, WroteAndBereft
  <2> QED BY <2>1, EndRaces DEF Outcomes, history
<1>9. CASE UpdateMisses(p) \/ AnswerLost(p) \/ RequestFails(p) \/ Refuses(p)
  <2>1. /\ End(p, "permanent") \/ End(p, "retryable")
        /\ UNCHANGED <<hubspot, wrote, bereft>>
        /\ late' = late \/ late' = late \cup {[lead |-> lead[p], target |-> target[p]]}
    BY <1>9 DEF UpdateMisses, AnswerLost, RequestFails, Refuses, history
  <2>2. \A r \in late' : r \in late \/ (r.lead = lead[p] /\ r.target = target[p])
    <3> SUFFICES ASSUME NEW r \in late', r \notin late
                 PROVE  r.lead = lead[p] /\ r.target = target[p]
      OBVIOUS
    <3>1. r = [lead |-> lead[p], target |-> target[p]]
      BY <2>1
    <3> QED BY <3>1
  <2> QED BY <2>1, <2>2, EndRaces DEF Outcomes
<1> QED BY <1>1, <1>2, <1>3, <1>4, <1>5, <1>6, <1>7, <1>8, <1>9

LEMMA LateRaces ==
  ASSUME UpsertInv, RaceInv, NEW r \in late, LateRequest(r)
  PROVE  RaceInv'
<1> USE DEF RaceInv
<1>1. late' \subseteq late /\ UNCHANGED <<step, lead, target, outcome, history>>
  BY DEF LateRequest
<1>2. r.lead \in Leads /\ r.target \in Contacts \cup {NoContact}
  BY DEF UpsertInv, TypeOK, Requests
<1>3. WroteAndBereft'
  BY <1>1 DEF WroteAndBereft, history
<1>4. CASE UNCHANGED hubspot
  BY <1>1, <1>3, <1>4 DEF hubspot, history, TargetMatches, ContactIsThere
<1>5. ASSUME NEW c \in Contacts, NEW isCreate, email[c] = EmailOf[r.lead] \/ c \in Fresh,
             Store(r.lead, c, isCreate)
      PROVE  RaceInv'
  <2>1. /\ \A d \in Contacts : email[d] # NoEmail => email'[d] = email[d]
        /\ \A q \in Calls :
             target[q] \in Contacts => email'[target[q]] \in {EmailOf[lead[q]], NoEmail}
        /\ \A o \in late :
             o.target \in Contacts => email'[o.target] \in {EmailOf[o.lead], NoEmail}
    BY <1>2, <1>5, StoreRenamesNone
  <2>2. TargetMatches'
    BY <1>1, <2>1 DEF TargetMatches
  <2>3. ContactIsThere'
    <3> SUFFICES ASSUME NEW q \in Calls, step[q] \in {"finding again", "stored"},
                        q \notin bereft
                 PROVE  \E d \in Contacts : email'[d] = EmailOf[lead[q]]
      BY <1>1 DEF ContactIsThere, history
    <3>1. PICK d \in Contacts : email[d] = EmailOf[lead[q]]
      BY DEF ContactIsThere
    <3>2. EmailOf[lead[q]] # NoEmail
      BY DEF UpsertInv, Addressed
    <3> QED BY <2>1, <3>1, <3>2
  <2> QED BY <1>3, <2>2, <2>3
<1>6. \/ UNCHANGED hubspot
      \/ \E c \in Contacts, isCreate \in BOOLEAN :
           (email[c] = EmailOf[r.lead] \/ c \in Fresh) /\ Store(r.lead, c, isCreate)
  BY <1>2, FreshIsNew DEF LateRequest, TargetMatches
<1> QED BY <1>4, <1>5, <1>6

LEMMA RaceInvariant == Spec => [](UpsertInv /\ RaceInv)
<1>1. UpsertInv /\ RaceInv /\ [Next]_vars => RaceInv'
  <2>1. RaceInv /\ UNCHANGED vars => RaceInv'
    BY DEF vars, hubspot, history, RaceInv, TargetMatches, ContactIsThere, WroteAndBereft
  <2> QED BY <2>1, SalesRaces, CallRaces, LateRaces DEF Next
<1> QED BY <1>1, RaceInit, UpsertInvariant, PTL DEF Spec

-----------------------------------------------------------------------------
(* The theorems.                                                           *)

\* The variables keep their types; a call holds a contact's id exactly while it
\* updates that contact.
THEOREM UpsertTypeCorrect == Spec => []TypeOK
<1>1. UpsertInv => TypeOK
  BY DEF UpsertInv
<1> QED BY <1>1, UpsertInvariant, PTL

\* However many calls race for a customer's contact, none ends in manual intervention
\* unless it has no address, HubSpot refuses it, or its contact was deleted under it.
THEOREM RacesAlwaysRetryable == Spec => []RacesAreRetryable
<1>1. UpsertInv => RacesAreRetryable
  BY DEF UpsertInv
<1> QED BY <1>1, UpsertInvariant, PTL

\* Calls that only race each other all deliver.  A call that ends as delivered has
\* written its own lead; one that meets a conflict and then no contact, or has written
\* a customer who now has no contact, has had the contact deleted by somebody.
THEOREM RacesAlwaysDelivered == Spec => []RacesAreDelivered
<1>1. RaceInv => RacesAreDelivered
  BY DEF RaceInv, ContactIsThere, WroteAndBereft, RacesAreDelivered, With
<1> QED BY <1>1, RaceInvariant, PTL

\* No delivery, late ones included, takes a contact that sales has moved on back to
\* "lead": only a deletion does.
THEOREM LifecycleAlwaysKept == Spec => LifecycleKept
<1> DEFINE Kept == \A c \in Contacts :
             stage[c] = "customer" /\ email'[c] # NoEmail => stage'[c] = "customer"
<1>1. UpsertInv /\ [Next]_vars => [Kept]_vars
  <2> SUFFICES ASSUME UpsertInv, [Next]_vars, NEW c \in Contacts,
                      stage[c] = "customer", email'[c] # NoEmail
               PROVE  stage'[c] = "customer"
    OBVIOUS
  <2> USE DEF UpsertInv, TypeOK
  <2>1. CASE UNCHANGED stage
    BY <2>1
  <2>2. ASSUME NEW d \in Contacts, Deletes(d) \/ Promotes(d) PROVE stage'[c] = "customer"
    BY <2>2 DEF Deletes, Promotes
  <2>3. ASSUME NEW q \in Calls, Updates(q) PROVE stage'[c] = "customer"
    BY <2>3 DEF Updates, Store, Lifecycle
  <2>4. ASSUME NEW q \in Calls, Creates(q) PROVE stage'[c] = "customer"
    <3>1. PICK d \in Fresh : Store(lead[q], d, TRUE)
      BY <2>4 DEF Creates
    <3>2. d # c
      BY FreshIsNew DEF CustomersExist
    <3> QED BY <3>1, <3>2 DEF Store
  <2>5. ASSUME NEW r \in late, LateRequest(r) PROVE stage'[c] = "customer"
    BY <2>5, LateStep
  <2>6. \/ UNCHANGED stage
        \/ \E d \in Contacts : Deletes(d) \/ Promotes(d)
        \/ \E q \in Calls : Updates(q) \/ Creates(q)
        \/ \E r \in late : LateRequest(r)
    BY DEF Next, vars, hubspot, Begin, NeedsEmail, Finds, FindsNothing, UpdateMisses,
           CreateConflicts, RequestFails, Refuses, Delivered, AnswerLost
  <2> QED BY <2>1, <2>2, <2>3, <2>4, <2>5, <2>6
<1> QED BY <1>1, UpsertInvariant, PTL DEF Spec, LifecycleKept
=============================================================================
