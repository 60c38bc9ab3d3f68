---------------------------- MODULE HubSpotUpsert ----------------------------
(***************************************************************************)
(* HubSpotCrmDispatcher.sync_lead: look the contact up by the lead's email *)
(* address, update it when it is there, create it when it is not, and look *)
(* again when HubSpot says that it has appeared in the meantime.  Retry    *)
(* workers and manual syncs run it concurrently, for the same lead or for  *)
(* leads of one customer.  What HubSpot does for a request and the arrival *)
(* of its answer are two steps.  Requests can be lost on either way, or    *)
(* executed after the caller gave up; the sales team edits and deletes     *)
(* contacts.                                                               *)
(*                                                                         *)
(* HubSpot is external: contacts have an id and a unique email address,    *)
(* and a request about an id that is gone is answered with 404.  An id is  *)
(* reused only when nobody can remember it.                                *)
(***************************************************************************)
EXTENDS Naturals, FiniteSets

CONSTANTS
  Leads,      \* classified leads
  Emails,     \* normalized customer email addresses
  EmailOf,    \* customer_email of a lead
  NoEmail,    \* a lead without an address; a contact that does not exist
  Calls,      \* slots for concurrent sync_lead calls
  Contacts,   \* HubSpot ids
  NoContact,  \* no id
  NoLead,     \* no lead
  MaxLate     \* bound: requests nobody waits for

ASSUME EmailAssumption == NoEmail \notin Emails /\ EmailOf \in [Leads -> Emails \cup {NoEmail}]
ASSUME NothingAssumption == NoContact \notin Contacts /\ NoLead \notin Leads /\ MaxLate \in Nat

VARIABLES
  email,    \* HubSpot: the address of a contact
  stage,    \* HubSpot: its lifecyclestage
  holds,    \* HubSpot: the lead whose properties were written last
  step,     \* the request a call is waiting for
  lead,     \* its lead
  target,   \* its contact_id
  late,     \* requests nobody waits for that may still be executed
  outcome,  \* history: how the last call of a slot ended
  excused,  \* history: HubSpot refused the call, or the contact it was to update was deleted
  wrote,    \* history: the calls whose last run has written its lead to HubSpot
  bereft    \* history: the calls whose customer's contact was deleted since they began or wrote

hubspot == <<email, stage, holds>>
history == <<excused, wrote, bereft>>
vars == <<hubspot, step, lead, target, late, outcome, history>>

Requests == [lead : Leads, target : Contacts \cup {NoContact}]

TypeOK ==
  /\ email \in [Contacts -> Emails \cup {NoEmail}]
  /\ stage \in [Contacts -> {"lead", "customer"}]
  /\ holds \in [Contacts -> Leads \cup {NoLead}]
  /\ step \in [Calls -> {"idle", "finding", "updating", "creating", "finding again", "stored"}]
  /\ lead \in [Calls -> Leads \cup {NoLead}]
  /\ target \in [Calls -> Contacts \cup {NoContact}]
  /\ late \in SUBSET Requests
  /\ outcome \in [Calls -> {"none", "delivered", "retryable", "conflict", "permanent"}]
  /\ excused \in SUBSET Calls /\ wrote \in SUBSET Calls /\ bereft \in SUBSET Calls
  /\ \A p \in Calls : step[p] = "updating" <=> target[p] # NoContact

Init ==
  /\ email = [c \in Contacts |-> NoEmail]
  /\ stage = [c \in Contacts |-> "lead"]
  /\ holds = [c \in Contacts |-> NoLead]
  /\ step = [p \in Calls |-> "idle"]
  /\ lead = [p \in Calls |-> NoLead]
  /\ target = [p \in Calls |-> NoContact]
  /\ late = {}
  /\ outcome = [p \in Calls |-> "none"]
  /\ excused = {} /\ wrote = {} /\ bereft = {}

-----------------------------------------------------------------------------
(* HubSpot.                                                                *)

With(address) == {c \in Contacts : email[c] = address}

Fresh ==
  {c \in Contacts : /\ email[c] = NoEmail
                    /\ \A p \in Calls : target[p] # c
                    /\ \A r \in late : r.target # c}

\* Mutated form: every write sets the lifecycle stage.
LifecycleAlways(current, isCreate) == "lead"

\* What _properties_for says about lifecyclestage: only a creation sets it.
Lifecycle(current, isCreate) == IF isCreate THEN "lead" ELSE current

\* PATCH of contact c, or POST when c is new, with the properties of lead l.
Store(l, c, isCreate) ==
  /\ email' = [email EXCEPT ![c] = EmailOf[l]]
  /\ stage' = [stage EXCEPT ![c] = Lifecycle(@, isCreate)]
  /\ holds' = [holds EXCEPT ![c] = l]

Deletes(c) ==
  /\ email[c] # NoEmail
  /\ email' = [email EXCEPT ![c] = NoEmail]
  /\ stage' = [stage EXCEPT ![c] = "lead"]
  /\ holds' = [holds EXCEPT ![c] = NoLead]
  /\ excused' = excused \cup {p \in Calls : target[p] = c}
  /\ bereft' = bereft \cup {p \in Calls : step[p] # "idle" /\ EmailOf[lead[p]] = email[c]}
  /\ UNCHANGED <<step, lead, target, late, outcome, wrote>>

Promotes(c) ==
  /\ email[c] # NoEmail
  /\ stage[c] = "lead"
  /\ stage' = [stage EXCEPT ![c] = "customer"]
  /\ UNCHANGED <<email, holds, step, lead, target, late, outcome, history>>

-----------------------------------------------------------------------------
(* sync_lead.                                                              *)

\* Mutated form: the contact id of one call is left for the next.
EndRemembering(p, result) ==
  /\ step' = [step EXCEPT ![p] = "idle"]
  /\ lead' = [lead EXCEPT ![p] = NoLead]
  /\ UNCHANGED target
  /\ outcome' = [outcome EXCEPT ![p] = result]

End(p, result) ==
  /\ step' = [step EXCEPT ![p] = "idle"]
  /\ lead' = [lead EXCEPT ![p] = NoLead]
  /\ target' = [target EXCEPT ![p] = NoContact]
  /\ outcome' = [outcome EXCEPT ![p] = result]

GoOn(p, next, contact) ==
  /\ step' = [step EXCEPT ![p] = next]
  /\ target' = [target EXCEPT ![p] = contact]
  /\ UNCHANGED <<lead, outcome>>

Begin(p, l) ==
  /\ step[p] = "idle"
  /\ EmailOf[l] # NoEmail
  /\ step' = [step EXCEPT ![p] = "finding"]
  /\ lead' = [lead EXCEPT ![p] = l]
  /\ outcome' = [outcome EXCEPT ![p] = "none"]
  /\ excused' = excused \ {p}
  /\ wrote' = wrote \ {p}
  /\ bereft' = bereft \ {p}
  /\ UNCHANGED <<hubspot, target, late>>

\* hubspot_email_required.
NeedsEmail(p, l) ==
  /\ step[p] = "idle"
  /\ EmailOf[l] = NoEmail
  /\ outcome' = [outcome EXCEPT ![p] = "permanent"]
  /\ excused' = excused \cup {p}
  /\ UNCHANGED <<hubspot, step, lead, target, late, wrote, bereft>>

\* _contact_id_for_email, the first time and after a conflict.
Finds(p) ==
  /\ step[p] \in {"finding", "finding again"}
  /\ \E c \in With(EmailOf[lead[p]]) : GoOn(p, "updating", c)
  /\ UNCHANGED <<hubspot, late, history>>

FindsNothing(p) ==
  /\ step[p] \in {"finding", "finding again"}
  /\ With(EmailOf[lead[p]]) = {}
  /\ IF step[p] = "finding" THEN GoOn(p, "creating", NoContact)
     ELSE End(p, "conflict")     \* hubspot_conflict_without_contact, to be retried
  /\ UNCHANGED <<hubspot, late, history>>

\* HubSpot has executed a call's PATCH or POST; the answer is on its way.
Wrote(p) ==
  /\ GoOn(p, "stored", NoContact)
  /\ wrote' = wrote \cup {p}
  /\ bereft' = bereft \ {p}
  /\ UNCHANGED <<late, excused>>

\* The request of _update_contact.
Updates(p) ==
  /\ step[p] = "updating"
  /\ email[target[p]] # NoEmail
  /\ Store(lead[p], target[p], FALSE)
  /\ Wrote(p)

\* 404: the contact has been deleted since it was found.
UpdateMisses(p) ==
  /\ step[p] = "updating"
  /\ email[target[p]] = NoEmail
  /\ End(p, "permanent")
  /\ UNCHANGED <<hubspot, late, history>>

Creates(p) ==
  /\ step[p] = "creating"
  /\ With(EmailOf[lead[p]]) = {}
  /\ \E c \in Fresh : Store(lead[p], c, TRUE)
  /\ Wrote(p)

\* 2xx arrives.
Delivered(p) ==
  /\ step[p] = "stored"
  /\ End(p, "delivered")
  /\ UNCHANGED <<hubspot, late, history>>

\* A transport error or a 5xx instead of the answer to what HubSpot has executed.
AnswerLost(p) ==
  /\ step[p] = "stored"
  /\ End(p, "retryable")
  /\ UNCHANGED <<hubspot, late, history>>

\* Mutated forms: a conflict is an error like any other, or taken for success.
ConflictFails(p) == End(p, "permanent")
ConflictIgnored(p) == End(p, "delivered")

AfterConflict(p) == GoOn(p, "finding again", NoContact)

\* 409: another call has created the contact since this one looked.
CreateConflicts(p) ==
  /\ step[p] = "creating"
  /\ With(EmailOf[lead[p]]) # {}
  /\ AfterConflict(p)
  /\ UNCHANGED <<hubspot, late, history>>

\* Transport errors, 429, 5xx and answers that make no sense.  The request was
\* not executed, or not yet.
RequestFails(p) ==
  /\ step[p] \notin {"idle", "stored"}
  /\ \/ late' = late
     \/ /\ step[p] \in {"updating", "creating"}
        /\ Cardinality(late) < MaxLate
        /\ late' = late \cup {[lead |-> lead[p], target |-> target[p]]}
  /\ End(p, "retryable")
  /\ UNCHANGED <<hubspot, history>>

\* 400, 401, 403: HubSpot refuses the request for a reason of its own.
Refuses(p) ==
  /\ step[p] \notin {"idle", "stored"}
  /\ End(p, "permanent")
  /\ excused' = excused \cup {p}
  /\ UNCHANGED <<hubspot, late, wrote, bereft>>

LateRequest(r) ==
  /\ r \in late
  /\ late' = late \ {r}
  /\ \/ r.target # NoContact /\ email[r.target] # NoEmail /\ Store(r.lead, r.target, FALSE)
     \/ /\ r.target = NoContact /\ With(EmailOf[r.lead]) = {}
        /\ \E c \in Fresh : Store(r.lead, c, TRUE)
     \/ UNCHANGED hubspot
  /\ UNCHANGED <<step, lead, target, outcome, history>>

Next ==
  \/ \E c \in Contacts : Deletes(c) \/ Promotes(c)
  \/ \E p \in Calls :
       \/ \E l \in Leads : Begin(p, l) \/ NeedsEmail(p, l)
       \/ Finds(p) \/ FindsNothing(p)
       \/ Updates(p) \/ UpdateMisses(p)
       \/ Creates(p) \/ CreateConflicts(p)
       \/ Delivered(p) \/ AnswerLost(p)
       \/ RequestFails(p) \/ Refuses(p)
  \/ \E r \in late : LateRequest(r)

Spec == Init /\ [][Next]_vars

-----------------------------------------------------------------------------
(* Properties.                                                             *)

\* Calls that only race each other all deliver: one that overtakes another between
\* its lookup and its creation sends it to a second lookup, which finds the contact,
\* and no call takes another's write for its own.  A conflict without a contact means
\* that somebody deleted the contact meanwhile, and so does a customer without one
\* when the answer to a write arrives, whatever others did while it was on its way.
RacesAreDelivered ==
  \A p \in Calls :
    /\ outcome[p] = "delivered" => p \in wrote
    /\ outcome[p] = "conflict" => p \in bereft
    /\ step[p] = "stored" /\ p \notin bereft => With(EmailOf[lead[p]]) # {}

\* Deliveries that race each other never end in "manual intervention required":
\* a call fails for good only when there is no address, when HubSpot refuses it
\* or when somebody has deleted the contact under it.
RacesAreRetryable == \A p \in Calls : outcome[p] = "permanent" => p \in excused

\* A sync never takes a contact that sales has moved on back to "lead": not as a
\* retry of a creation whose answer was lost, and not by a request executed late.
LifecycleKept ==
  [][\A c \in Contacts :
       stage[c] = "customer" /\ email'[c] # NoEmail => stage'[c] = "customer"]_vars
=============================================================================
