------------------------------ MODULE WebFetch ------------------------------
(***************************************************************************)
(* What web research does with an address: it is fetched through the       *)
(* process's limiter (WebLimiter) and what came back is parsed in the      *)
(* process's pool (ExtractionPool).  Fetches of several jobs of a process  *)
(* share both.                                                             *)
(***************************************************************************)
EXTENDS WebLimiter, ExtractionPool

CONSTANT CallOf  \* fetch |-> the pool call for its document

ASSUME FetchAssumption == CallOf \in [Fetches -> Calls]

vars == <<limiterVars, poolVars>>

Init == LimiterInit /\ PoolInit

\* The document is handed over when the fetch is over, its slot given back
Fetch(f) == FetchStep(f) /\ UNCHANGED poolVars
Extract(f) == at[f] = "ended" /\ CallStep(CallOf[f]) /\ UNCHANGED limiterVars

\* The stage or its job is cancelled, or the deadline of the fetch is over
Abandon(f) ==
  \/ CancelFetch(f) /\ UNCHANGED poolVars
  \/ CancelCall(CallOf[f]) /\ UNCHANGED limiterVars

Ended(f) == at[f] = "gone" \/ place[CallOf[f]] = "over"
AllEnded == \A f \in Fetches : Ended(f)

Finished == AllEnded /\ UNCHANGED vars

Next ==
  \/ LimiterTick /\ UNCHANGED poolVars
  \/ Deaths /\ UNCHANGED limiterVars
  \/ \E f \in Fetches : Fetch(f) \/ Extract(f) \/ Abandon(f)
  \/ Finished

Spec == Init /\ [][Next]_vars

(* The event loop runs on and time passes: a request is answered or runs    *)
(* into its own deadline, a parse returns or is killed by its timeout.      *)
(* Nobody has to be abandoned, and fairness alone promises no fetch a       *)
(* permit or the gate.                                                      *)
FairSpec ==
  /\ Spec
  /\ WF_vars(LimiterTick /\ UNCHANGED poolVars)
  /\ \A f \in Fetches : WF_vars(Fetch(f)) /\ WF_vars(Extract(f))

\* Every fetch gets through the limiter and the pool, or is given up
EveryFetchEnds == <>AllEnded
=============================================================================
