-------------------------- MODULE MCAdminDashboard ---------------------------
(***************************************************************************)
(* Instances of AdminDashboard for TLC.                                    *)
(***************************************************************************)
EXTENDS AdminDashboard, TLC

PageSymmetry == Permutations(Filters) \cup Permutations(Tokens)
=============================================================================
