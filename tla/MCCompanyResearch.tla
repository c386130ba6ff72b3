-------------------------- MODULE MCCompanyResearch --------------------------
(* CompanyResearch for TLC. *)
EXTENDS CompanyResearch, TLC

Symmetry == Permutations(Workers)
=============================================================================
