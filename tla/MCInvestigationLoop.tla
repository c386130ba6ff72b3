------------------------ MODULE MCInvestigationLoop ------------------------
(* InvestigationLoop for TLC: two roles, role 2 owning two questions.       *)
EXTENDS InvestigationLoop

Plan == [q \in Questions |->
          CASE q = "risks" -> 1
            [] q \in {"market", "margins"} -> 2
            [] OTHER -> NoRole]
=============================================================================
