--------------------------- MODULE MCHubSpotUpsert ---------------------------
(***************************************************************************)
(* Instances of HubSpotUpsert for TLC: two leads of one customer, and one  *)
(* lead that left no address.                                              *)
(***************************************************************************)
EXTENDS HubSpotUpsert, TLC

CONSTANTS l1, l2, l3, e1
TheLeads == {l1, l2, l3}
TheEmails == {e1}
TheEmailOf == (l1 :> e1) @@ (l2 :> e1) @@ (l3 :> NoEmail)
UpsertSymmetry == Permutations(Calls) \cup Permutations(Contacts) \cup Permutations({l1, l2})
=============================================================================
