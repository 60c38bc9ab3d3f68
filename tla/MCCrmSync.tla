----------------------------- MODULE MCCrmSync ------------------------------
(***************************************************************************)
(* Instances of CrmSync for TLC.                                           *)
(***************************************************************************)
EXTENDS CrmSync, TLC

CrmSymmetry == Permutations(Leads) \cup Permutations(Workers) \cup Permutations(Admins)
=============================================================================
