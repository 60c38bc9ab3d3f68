----------------------- MODULE MCClassificationQueue ------------------------
(***************************************************************************)
(* Instances of ClassificationQueue for TLC.  Worker ids are               *)
(* interchangeable; leads are not, their numbers order the claims.         *)
(***************************************************************************)
EXTENDS ClassificationQueue, TLC

WorkerSymmetry == Permutations(Workers)
=============================================================================
