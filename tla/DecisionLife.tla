---------------------------- MODULE DecisionLife ----------------------------
(***************************************************************************)
(* What the escalation promises about research decisions, with no          *)
(* transactions, locks, observers or sweeps in sight: a company has at     *)
(* most one open decision when one is opened, a decision climbs its rounds *)
(* one by one up to the limit, each only after a completed job of the      *)
(* round before, a finding is the finding of such a job, and a closed      *)
(* decision stays where it is, but for an operator who abandons it.        *)
(***************************************************************************)
EXTENDS Integers

CONSTANTS Decisions, Company, Legacy, MaxRounds

VARIABLES
  status,   \* per decision, "absent" before its request commits
  round,    \* per decision
  done      \* <<decision, round>> for which a job completed

lifeVars == <<status, round, done>>

Active == {"research_required", "queued", "reanalysis"}
Findings == {"completed", "exhausted"}
Statuses == Active \cup Findings \cup {"abandoned", "absent"}

LifeInit ==
  /\ status \in [Decisions -> {"absent", "research_required", "queued"}]
  /\ \A d \in Decisions : status[d] = "absent" <=> d \notin Legacy
  /\ round = [d \in Decisions |-> 0]
  /\ done = {}

\* A request opens a decision of a company that has none open.
OpenDecision(d) ==
  /\ status[d] = "absent"
  /\ \A e \in Decisions : Company[e] = Company[d] => status[e] \notin Active
  /\ status' = [status EXCEPT ![d] = "queued"]
  /\ UNCHANGED <<round, done>>

\* A job of a round completes.  There is one only of the rounds the decision
\* has reached, and of the next if a transaction that bought it failed.
CompleteJob(d, k) ==
  /\ k <= round[d] + 1
  /\ k > 0 => <<d, k - 1>> \in done
  /\ done' = done \cup {<<d, k>>}
  /\ UNCHANGED <<status, round>>

Earned(d) == status[d] \in Active /\ <<d, round[d]>> \in done

\* What one transaction may make of a decision
Moves(d) ==
  \/ /\ Earned(d)
     /\ status'[d] = "reanalysis"
     /\ round'[d] = round[d] + 1 /\ round'[d] < MaxRounds
  \/ /\ \/ status'[d] = status[d]
        \/ status'[d] = "queued" /\ status[d] \in Active
        \/ status'[d] \in Findings /\ Earned(d)
        \/ status'[d] = "abandoned" /\ status[d] # "absent"
     /\ round'[d] = round[d]

\* One sweep may move several decisions.
Commit ==
  /\ status' \in [Decisions -> Statuses] /\ round' \in [Decisions -> Nat]
  /\ \A d \in Decisions : Moves(d)
  /\ UNCHANGED done

LifeNext ==
  \/ \E d \in Decisions : OpenDecision(d) \/ \E k \in 0 .. MaxRounds - 1 : CompleteJob(d, k)
  \/ Commit

LifeSpec == LifeInit /\ [][LifeNext]_lifeVars
=============================================================================
