---------------------------- MODULE MCLLMCouncil ----------------------------
(* LLMCouncil for TLC: three agents, the two protected ones last.           *)
EXTENDS LLMCouncil

Three == <<"analyst", "red_team", "chair">>

\* Any other agent's request fills the window; the chair's fits its slice
Estimates == [a \in Agents |-> IF a = "chair" THEN 1 ELSE 2]

\* One council has every failure; the other competes with it for tokens
Failures == [c \in Councils |-> IF c = "first" THEN 3 ELSE 0]
=============================================================================
