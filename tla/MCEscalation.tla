---------------------------- MODULE MCEscalation ----------------------------
(* Escalation for TLC: every decision is about one company, or all but one  *)
(* that lost its company.                                                   *)
EXTENDS Escalation

CONSTANTS c1, gone

SameCompany == [d \in Decisions |-> c1]

OneWithoutCompany == [d \in Decisions |-> IF d = gone THEN NoCompany ELSE c1]
=============================================================================
