------------------------------ MODULE LeadStore ------------------------------
(***************************************************************************)
(* What intake promises: a lead is stored once, by the first submission    *)
(* that gets through, and every submission that is accepted, first or      *)
(* repeated, on time or after a failure, is told of that one row.          *)
(*                                                                         *)
(* LeadIntake implements this specification.                               *)
(***************************************************************************)

CONSTANTS
  Leads,        \* what makes a lead: its idempotency key and its bucket
  Submissions,  \* POST /leads requests
  Nobody        \* no submission

VARIABLES
  storedBy,     \* the submission whose row the lead has
  answer        \* what a submission was told

Pending == [kind |-> "pending", row |-> Nobody]
Refused == [kind |-> "refused", row |-> Nobody]
Created(s) == [kind |-> "created", row |-> s]
Duplicate(s) == [kind |-> "duplicate", row |-> s]

StoreInit ==
  /\ storedBy = [l \in Leads |-> Nobody]
  /\ answer = [s \in Submissions |-> Pending]

\* Nobody has to hear of it.
Store(l, s) ==
  /\ storedBy[l] = Nobody
  /\ \A m \in Leads : storedBy[m] # s
  /\ storedBy' = [storedBy EXCEPT ![l] = s]
  /\ UNCHANGED answer

Accept(l, s) ==
  /\ answer[s] = Pending
  /\ storedBy[l] # Nobody
  /\ answer' = [answer EXCEPT ![s] = IF storedBy[l] = s THEN Created(s)
                                     ELSE Duplicate(storedBy[l])]
  /\ UNCHANGED storedBy

StoreAndAccept(l, s) ==
  /\ answer[s] = Pending
  /\ storedBy[l] = Nobody
  /\ \A m \in Leads : storedBy[m] # s
  /\ storedBy' = [storedBy EXCEPT ![l] = s]
  /\ answer' = [answer EXCEPT ![s] = Created(s)]

Refuse(s) ==
  /\ answer[s] = Pending
  /\ answer' = [answer EXCEPT ![s] = Refused]
  /\ UNCHANGED storedBy

StoreAndRefuse(l, s) ==
  /\ answer[s] = Pending
  /\ storedBy[l] = Nobody
  /\ \A m \in Leads : storedBy[m] # s
  /\ storedBy' = [storedBy EXCEPT ![l] = s]
  /\ answer' = [answer EXCEPT ![s] = Refused]

StoreNext ==
  \E s \in Submissions :
    \/ Refuse(s)
    \/ \E l \in Leads :
         Store(l, s) \/ Accept(l, s) \/ StoreAndAccept(l, s) \/ StoreAndRefuse(l, s)

StoreSpec == StoreInit /\ [][StoreNext]_<<storedBy, answer>>
=============================================================================
