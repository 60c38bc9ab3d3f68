------------------------------ MODULE LeadLease ------------------------------
(***************************************************************************)
(* What the classification queue promises, without time, processes or a    *)
(* network.  A lead is inserted once, is leased to at most one holder at a *)
(* time, every lease is paid for with one of a bounded number of attempts, *)
(* a lease can be taken over only after it has expired, and a lead is      *)
(* settled once, by the end of a lease, and never touched again.           *)
(*                                                                         *)
(* ClassificationQueue implements this specification.                      *)
(***************************************************************************)
EXTENDS Naturals

CONSTANTS
  Leads,        \* rows of the leads table
  Workers,      \* classification worker ids
  NoWorker,     \* no lease
  MaxAttempts   \* leases a lead may be granted

VARIABLES
  status,       \* "absent", "pending", "classified" or "failed"
  holder,       \* who was last granted the lead and has not given it back
  expired,      \* leads whose lease may be taken over
  attempts      \* leases granted so far

leaseVars == <<status, holder, expired, attempts>>

Outcomes == {"classified", "failed"}

LeaseInit ==
  /\ status = [l \in Leads |-> "absent"]
  /\ holder = [l \in Leads |-> NoWorker]
  /\ expired = {}
  /\ attempts = [l \in Leads |-> 0]

Insert(l) ==
  /\ status[l] = "absent"
  /\ status' = [status EXCEPT ![l] = "pending"]
  /\ UNCHANGED <<holder, expired, attempts>>

Grantable(l) ==
  /\ status[l] = "pending"
  /\ attempts[l] < MaxAttempts
  /\ holder[l] = NoWorker \/ l \in expired

Grant(batch, w) ==
  /\ \A l \in batch : Grantable(l)
  /\ holder' = [l \in Leads |-> IF l \in batch THEN w ELSE holder[l]]
  /\ expired' = expired \ batch
  /\ attempts' = [l \in Leads |-> attempts[l] + IF l \in batch THEN 1 ELSE 0]
  /\ UNCHANGED status

\* The end of a lease: with an outcome the lead is settled, without one it is
\* given back for another attempt.
EndLease(l, next) ==
  /\ status[l] = "pending"
  /\ holder[l] # NoWorker
  /\ holder' = [holder EXCEPT ![l] = NoWorker]
  /\ expired' = expired \ {l}
  /\ status' = [status EXCEPT ![l] = next]
  /\ UNCHANGED attempts

Expire(batch) ==
  /\ \A l \in batch : holder[l] # NoWorker
  /\ expired' = expired \cup batch
  /\ UNCHANGED <<status, holder, attempts>>

LeaseNext ==
  \/ \E l \in Leads : Insert(l)
  \/ \E batch \in SUBSET Leads, w \in Workers : Grant(batch, w)
  \/ \E l \in Leads, next \in Outcomes \cup {"pending"} : EndLease(l, next)
  \/ \E batch \in SUBSET Leads : Expire(batch)

LeaseSpec == LeaseInit /\ [][LeaseNext]_leaseVars
=============================================================================
