----------------------------- MODULE MCWebFetch -----------------------------
(* WebFetch for TLC: two fetches of one domain, one of two requests and the *)
(* other from an origin with a Crawl-delay, and one of another domain,      *)
(* which may arrive late enough to find the first domain idle.              *)
EXTENDS WebFetch

DomainPlan == [f \in Fetches |-> IF f = 3 THEN "d2" ELSE "d1"]
DelayPlan == [f \in Fetches |-> IF f = 2 THEN 3 ELSE 0]
HopPlan == [f \in Fetches |-> IF f = 1 THEN 2 ELSE 1]
ArrivalPlan == [f \in Fetches |-> IF f = 1 THEN 0 ELSE 3]
Self == [f \in Fetches |-> f]
=============================================================================
