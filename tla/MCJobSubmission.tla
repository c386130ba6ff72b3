-------------------------- MODULE MCJobSubmission --------------------------
(* JobSubmission for TLC: requests are interchangeable. *)
EXTENDS JobSubmission, TLC

RequestSymmetry == Permutations(Requests)
=============================================================================
