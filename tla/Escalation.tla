----------------------------- MODULE Escalation -----------------------------
(***************************************************************************)
(* Research decisions and the jobs they buy: services/escalation           *)
(* (controller.py, rounds.py, store.py, job_hook.py), the escalate and     *)
(* cancel endpoints.  A decision is opened by an escalation request, buys  *)
(* one job per round and is moved on by whoever notices that the job of    *)
(* its round ended: the terminal observer or a periodic sweep.             *)
(*                                                                         *)
(* Decisions and jobs are written in different transactions.  A job is     *)
(* committed by JobStore the moment it is enqueued (JobSubmission); the    *)
(* decision's row is committed at the end of the transaction that enqueued *)
(* it.  `row` is the committed table, `work` the row as a transaction has  *)
(* it, and `lock` says whose.  A job's life (JobQueue) is reduced to its   *)
(* end.  Evidence is the number of decisive items the corpus has on a      *)
(* company.                                                                *)
(***************************************************************************)
EXTENDS Integers, FiniteSets

CONSTANTS
  Decisions,   \* ids of decisions; a request makes one of its own
  Company,     \* [Decisions -> companies], NoCompany after its deletion
  NoCompany,
  Legacy,      \* decisions from before baselines were recorded (V3.17.8);
               \* the unique index held for them too
  Sweepers,    \* workers that run the sweep hook
  MaxRounds,   \* v3_escalation_max_rounds
  NoJob,       \* last_job_id = NULL
  MaxFaults    \* bound on crashes and database errors in a behaviour

ASSUME EscalationAssumption ==
  /\ Legacy \subseteq Decisions /\ IsFiniteSet(Legacy)
  /\ \A d, e \in Legacy : Company[d] = Company[e] /\ Company[d] # NoCompany => d = e
  /\ MaxRounds \in Nat \ {0}
  /\ MaxFaults \in Nat
  /\ {"none", "observer", "cancel"} \cap Sweepers = {}
  /\ NoJob \notin Decisions \X Nat \X Nat

VARIABLES
  row,       \* the committed decisions
  work,      \* a decision as the transaction that writes it has it
  lock,      \* the holder of a decision's row lock
  request,   \* where the escalation request of each decision is
  cancel,    \* where the operator's cancel of each decision is
  stale,     \* the last_job_id that cancel read
  jobs,      \* <<decision, round, generation>> |-> job
  evidence,  \* per company
  told,      \* ended jobs whose terminal observers are still to run
  phase,     \* where each sweep is
  todo,      \* the decisions it has selected and not yet treated
  fixed,     \* whether it has recovered or repaired any
  faults

decisionVars == <<row, work, lock>>
requestVars == <<request, cancel, stale>>
sweepVars == <<phase, todo, fixed>>
vars == <<decisionVars, requestVars, jobs, evidence, told, sweepVars, faults>>

OpenStatuses == {"research_required", "queued", "reanalysis"}
ClosedStatuses == {"completed", "exhausted", "abandoned"}

NoBaseline == -1   \* evidence_before_json = NULL

Row(status, before) ==
  [status |-> status, reason |-> "none", round |-> 0, lastJob |-> NoJob,
   before |-> before]

Open(r) == r.status \in OpenStatuses

Closed(r, status, reason) == [r EXCEPT !.status = status, !.reason = reason]

---------------------------------------------------------------------------
(* Jobs *)

NewJob(d) == [status |-> "live", asked |-> FALSE, gathered |-> FALSE,
              start |-> evidence[Company[d]]]

Ended(j) == jobs[j].status # "live"

Generations(d, k) == {g \in 1 .. Cardinality(DOMAIN jobs) : <<d, k, g>> \in DOMAIN jobs}

\* JobStore.enqueue under round_idempotency_key: join the live generation or
\* start the next one.
RoundJob(d, k) ==
  LET n == Cardinality(Generations(d, k)) IN
  <<d, k, IF n > 0 /\ ~Ended(<<d, k, n>>) THEN n ELSE n + 1>>

Enqueue(d, k) ==
  jobs' = [j \in DOMAIN jobs \cup {RoundJob(d, k)} |->
             IF j \in DOMAIN jobs THEN jobs[j] ELSE NewJob(d)]

\* The research of a job adds something new to the corpus.
JobGathers(j) ==
  /\ ~Ended(j) /\ ~jobs[j].gathered
  /\ jobs' = [jobs EXCEPT ![j].gathered = TRUE]
  /\ evidence' = [evidence EXCEPT ![Company[j[1]]] = @ + 1]
  /\ UNCHANGED <<decisionVars, requestVars, told, sweepVars, faults>>

\* A worker notifies only of the ends it writes after running the handler,
\* and may not live to do it.
JobEnds(j) ==
  /\ ~Ended(j)
  /\ \E s \in {"completed", "failed", "dead_letter", "cancelled"} :
       /\ s = "cancelled" => jobs[j].asked
       /\ jobs' = [jobs EXCEPT ![j].status = s]
       /\ \/ s # "cancelled" /\ told' = told \cup {j}
          \/ s \in {"dead_letter", "cancelled"} /\ UNCHANGED told
  /\ UNCHANGED <<decisionVars, requestVars, evidence, sweepVars, faults>>

---------------------------------------------------------------------------
(* An escalation request for one candidate *)

\* escalate_discovery_run refuses while a decision is open; else it takes the
\* baseline.
RequestReads(d) ==
  /\ request[d] = "new"
  /\ \/ /\ \E e \in Decisions : Company[e] = Company[d] /\ Open(row[e])
        /\ request' = [request EXCEPT ![d] = "over"]
        /\ UNCHANGED work
     \/ /\ \A e \in Decisions : Company[e] = Company[d] => ~Open(row[e])
        /\ request' = [request EXCEPT ![d] = "creating"]
        /\ work' = [work EXCEPT ![d] =
                      Row("research_required", evidence[Company[d]])]
  /\ UNCHANGED <<row, lock, cancel, stale, jobs, evidence, told, sweepVars, faults>>

InTransaction(e) == request[e] \in {"created", "enqueued"}

\* Mutant: there is no partial unique index.
OneOpenIndexMissing(d) == TRUE

\* ux_research_decisions_one_open
OneOpenIndex(d) ==
  \A e \in Decisions \ {d} : Company[e] = Company[d] => ~Open(row[e])

\* The insert is flushed, not committed.  It waits while another transaction
\* may still add, or close, a decision of the company; a violated index fails
\* the whole request.
RequestCreates(d) ==
  /\ request[d] = "creating"
  /\ \A e \in Decisions \ {d} :
       Company[e] = Company[d] =>
         ~InTransaction(e) /\ (Open(row[e]) => lock[e] = "none")
  /\ request' = [request EXCEPT ![d] =
                   IF OneOpenIndex(d) THEN "created" ELSE "over"]
  /\ work' = [work EXCEPT ![d] = IF OneOpenIndex(d) THEN @ ELSE row[d]]
  /\ UNCHANGED <<row, lock, cancel, stale, jobs, evidence, told, sweepVars,
                 faults>>

RequestEnqueues(d) ==
  /\ request[d] = "created"
  /\ Enqueue(d, 0)
  /\ request' = [request EXCEPT ![d] = "enqueued"]
  /\ work' = [work EXCEPT ![d].status = "queued", ![d].lastJob = RoundJob(d, 0)]
  /\ UNCHANGED <<row, lock, cancel, stale, evidence, told, sweepVars, faults>>

RequestCommits(d) ==
  /\ request[d] = "enqueued"
  /\ request' = [request EXCEPT ![d] = "over"]
  /\ row' = [row EXCEPT ![d] = work[d]]
  /\ UNCHANGED <<work, lock, cancel, stale, jobs, evidence, told, sweepVars, faults>>

\* A crash or an error rolls the decision back; its job is already committed.
RequestFails(d) ==
  /\ request[d] \in {"creating", "created", "enqueued"}
  /\ faults < MaxFaults
  /\ faults' = faults + 1
  /\ request' = [request EXCEPT ![d] = "over"]
  /\ work' = [work EXCEPT ![d] = row[d]]
  /\ UNCHANGED <<row, lock, cancel, stale, jobs, evidence, told, sweepVars>>

---------------------------------------------------------------------------
(* The end of a round *)

\* Mutants: the round limit is off by one; a failed job is judged like one
\* that completed; a missing baseline counts as a measured one.
RoundsUsedUpLate(k) == k >= MaxRounds
RanAlways(s) == s # "dead_letter"
KnownAlways(r) == TRUE

RoundsUsedUp(k) == k + 1 >= MaxRounds
Ran(s) == s = "completed"
Known(r) == r.before # NoBaseline

\* decide_next_state: the first reason that applies.
Verdict(s, known, improved, gaps, k, cost) ==
  IF s = "dead_letter" THEN <<"abandoned", "job_dead_lettered">>
  ELSE IF ~Ran(s) THEN <<"abandoned", "research_did_not_complete">>
  ELSE IF ~known THEN <<"abandoned", "evidence_baseline_missing">>
  ELSE IF ~improved THEN <<"exhausted", "no_improvement">>
  ELSE IF ~gaps THEN <<"completed", "evidence_sufficient">>
  ELSE IF RoundsUsedUp(k) THEN <<"abandoned", "max_rounds">>
  ELSE IF cost = "unknown" THEN <<"abandoned", "cost_unknown">>
  ELSE IF cost = "capped" THEN <<"abandoned", "cost_cap">>
  ELSE <<"reanalysis", "none">>

\* What the verdict makes of the row: the next round is measured against what
\* was measured now.
AfterRound(d, r, verdict) ==
  IF verdict[1] = "reanalysis"
    THEN [r EXCEPT !.status = "reanalysis", !.round = @ + 1,
                   !.before = evidence[Company[d]],
                   !.lastJob = RoundJob(d, r.round + 1)]
    ELSE Closed(r, verdict[1], verdict[2])

Improved(d, r) == evidence[Company[d]] > r.before

\* complete_round: the rows that the row r of d, whose job ended, may become.
\* The gaps that remain and the cost are whatever the database says.
RoundOutcomes(d, r) ==
  {AfterRound(d, r, Verdict(jobs[r.lastJob].status, Known(r), Improved(d, r),
                            gaps, r.round, cost)) :
     gaps \in BOOLEAN, cost \in {"affordable", "unknown", "capped"}}

\* The job of the next round is committed before the row that names it.
BuysNextRound(d, r) ==
  IF Open(r) THEN Enqueue(d, r.round) ELSE UNCHANGED jobs

RoundIsOver(r) == Open(r) /\ r.lastJob # NoJob /\ Ended(r.lastJob)

---------------------------------------------------------------------------
(* The terminal observer, advance_research_decision *)

\* Mutant: the decision is read by id, whatever its status.
AdvancesAnyStatus(d, j) == row[d].lastJob = j

Advances(d, j) == row[d].lastJob = j /\ Open(row[d])

\* No open decision points at the job, possibly because it is not committed
\* yet.
ObserverFindsNothing(j) ==
  /\ ~Advances(j[1], j)
  /\ told' = told \ {j}
  /\ UNCHANGED <<decisionVars, requestVars, jobs, evidence, sweepVars, faults>>

\* FOR UPDATE waits for the lock.
ObserverAdvances(j) ==
  LET d == j[1] IN
  /\ Advances(d, j)
  /\ lock[d] = "none"
  /\ told' = told \ {j}
  /\ lock' = [lock EXCEPT ![d] = "observer"]
  /\ \E r \in RoundOutcomes(d, row[d]) :
       /\ work' = [work EXCEPT ![d] = r]
       /\ BuysNextRound(d, r)
  /\ UNCHANGED <<row, requestVars, evidence, sweepVars, faults>>

\* notify_terminal swallows what an observer raises; a crash loses it too.
NotificationLost(j) ==
  /\ faults < MaxFaults
  /\ faults' = faults + 1
  /\ told' = told \ {j}
  /\ UNCHANGED <<decisionVars, requestVars, jobs, evidence, sweepVars>>

---------------------------------------------------------------------------
(* The operator's cancel *)

\* The row is read without a lock.
CancelReads(d) ==
  /\ cancel[d] = "none"
  /\ row[d].status # "absent"
  /\ cancel' = [cancel EXCEPT ![d] = IF Open(row[d]) THEN "writing" ELSE "done"]
  /\ stale' = [stale EXCEPT ![d] = IF Open(row[d]) THEN row[d].lastJob ELSE NoJob]
  /\ UNCHANGED <<decisionVars, request, jobs, evidence, told, sweepVars, faults>>

\* request_cancel of a job: cancelled if still pending, else flagged.
AskToStop(j) ==
  IF j = NoJob \/ Ended(j) THEN UNCHANGED jobs
  ELSE \E s \in {"live", "cancelled"} :
         jobs' = [jobs EXCEPT ![j].status = s, ![j].asked = TRUE]

\* The UPDATE waits for the lock, writes two columns whatever the row has
\* become, and the job that was read is asked to stop.
CancelWrites(d) ==
  /\ cancel[d] = "writing"
  /\ lock[d] = "none"
  /\ lock' = [lock EXCEPT ![d] = "cancel"]
  /\ work' = [work EXCEPT ![d] = Closed(row[d], "abandoned", "operator_cancelled")]
  /\ AskToStop(stale[d])
  /\ cancel' = [cancel EXCEPT ![d] = "done"]
  /\ stale' = [stale EXCEPT ![d] = NoJob]
  /\ UNCHANGED <<row, request, evidence, told, sweepVars, faults>>

---------------------------------------------------------------------------
(* The transaction of an observer or of a cancel *)

HeldByOne(d) == lock[d] \in {"observer", "cancel"}

TransactionCommits(d) ==
  /\ HeldByOne(d)
  /\ row' = [row EXCEPT ![d] = work[d]]
  /\ lock' = [lock EXCEPT ![d] = "none"]
  /\ UNCHANGED <<work, requestVars, jobs, evidence, told, sweepVars, faults>>

TransactionFails(d) ==
  /\ HeldByOne(d)
  /\ faults < MaxFaults
  /\ faults' = faults + 1
  /\ lock' = [lock EXCEPT ![d] = "none"]
  /\ work' = [work EXCEPT ![d] = row[d]]
  /\ UNCHANGED <<row, requestVars, jobs, evidence, told, sweepVars>>

---------------------------------------------------------------------------
(* The sweep, reconcile_missed_rounds: one transaction for all decisions *)

\* What the sweep's transaction sees of a decision.
Seen(s, d) == IF lock[d] = s THEN work[d] ELSE row[d]

\* FOR UPDATE SKIP LOCKED of the decisions that satisfy a condition.
Select(s, S) ==
  /\ todo' = [todo EXCEPT ![s] = S]
  /\ lock' = [d \in Decisions |-> IF d \in S THEN s ELSE lock[d]]
  /\ work' = [d \in Decisions |-> IF d \in S THEN Seen(s, d) ELSE work[d]]

Selectable(s) == {d \in Decisions : lock[d] \in {"none", s}}

SweepSelectsStranded(s) ==
  /\ phase[s] = "idle"
  /\ Select(s, {d \in Selectable(s) : Open(row[d]) /\ row[d].lastJob = NoJob})
  /\ phase' = [phase EXCEPT ![s] = "recover"]
  /\ UNCHANGED <<row, requestVars, jobs, evidence, told, fixed, faults>>

\* The query for the job of round 0 is by the key enqueue was given, without
\* the generation that every stored key ends in.
RoundZeroKeyFound(d) == <<d, 0>> \in DOMAIN jobs

RoundZeroNeverStarted(d) ==
  /\ work[d].status = "research_required"
  /\ work[d].round = 0
  /\ ~RoundZeroKeyFound(d)

Treated(s, d, r, counts) ==
  /\ todo' = [todo EXCEPT ![s] = @ \ {d}]
  /\ work' = [work EXCEPT ![d] = r]
  /\ fixed' = [fixed EXCEPT ![s] = @ \/ counts]
  /\ UNCHANGED <<row, lock, requestVars, evidence, told, phase, faults>>

\* A decision that cannot be researched or measured is closed; the sweep does
\* not count it among the recovered.
SweepClosesStranded(s, d) ==
  /\ phase[s] = "recover" /\ d \in todo[s]
  /\ \/ /\ Company[d] = NoCompany
        /\ Treated(s, d, Closed(work[d], "abandoned", "research_did_not_complete"),
                   FALSE)
     \/ /\ Company[d] # NoCompany
        /\ work[d].before = NoBaseline
        /\ ~RoundZeroNeverStarted(d)
        /\ Treated(s, d, Closed(work[d], "abandoned", "evidence_baseline_missing"),
                   FALSE)
  /\ UNCHANGED jobs

SweepRecovers(s, d) ==
  LET k == work[d].round
      before == IF work[d].before = NoBaseline THEN evidence[Company[d]]
                                               ELSE work[d].before
  IN
  /\ phase[s] = "recover" /\ d \in todo[s]
  /\ Company[d] # NoCompany
  /\ work[d].before = NoBaseline => RoundZeroNeverStarted(d)
  /\ Enqueue(d, k)
  /\ Treated(s, d, [work[d] EXCEPT !.status = "queued", !.before = before,
                                   !.lastJob = RoundJob(d, k)], TRUE)

SweepSelectsEnded(s) ==
  /\ phase[s] = "recover" /\ todo[s] = {}
  /\ Select(s, {d \in Selectable(s) : RoundIsOver(Seen(s, d))})
  /\ phase' = [phase EXCEPT ![s] = "reconcile"]
  /\ UNCHANGED <<row, requestVars, jobs, evidence, told, fixed, faults>>

SweepReconciles(s, d) ==
  /\ phase[s] = "reconcile" /\ d \in todo[s]
  /\ \E r \in RoundOutcomes(d, work[d]) :
       Treated(s, d, r, TRUE) /\ BuysNextRound(d, r)

\* What it did not commit is rolled back.
SweepReleases(s) ==
  /\ work' = [d \in Decisions |-> IF lock[d] = s THEN row'[d] ELSE work[d]]
  /\ lock' = [d \in Decisions |-> IF lock[d] = s THEN "none" ELSE lock[d]]
  /\ todo' = [todo EXCEPT ![s] = {}]
  /\ phase' = [phase EXCEPT ![s] = "idle"]
  /\ fixed' = [fixed EXCEPT ![s] = FALSE]
  /\ UNCHANGED <<requestVars, jobs, evidence, told>>

\* Mutant: the sweep never commits.
NeverCommits(s) == FALSE

\* The session is committed only if something was recovered or repaired.
MustCommit(s) == fixed[s]

SweepEnds(s) ==
  /\ phase[s] = "reconcile" /\ todo[s] = {}
  /\ row' = [d \in Decisions |->
               IF lock[d] = s /\ MustCommit(s) THEN work[d] ELSE row[d]]
  /\ SweepReleases(s)
  /\ UNCHANGED faults

SweepFails(s) ==
  /\ phase[s] # "idle"
  /\ faults < MaxFaults
  /\ faults' = faults + 1
  /\ UNCHANGED row
  /\ SweepReleases(s)

---------------------------------------------------------------------------
\* A legacy decision has no baseline.  It may name its job or have lost it
\* (ON DELETE SET NULL), and its round 0 may have been enqueued either way.
LegacyRows(d) ==
  {Row("research_required", NoBaseline), Row("queued", NoBaseline),
   [Row("queued", NoBaseline) EXCEPT !.lastJob = <<d, 0, 1>>]}

InitialRows(d) == IF d \in Legacy THEN LegacyRows(d) ELSE {Row("absent", NoBaseline)}

Init ==
  /\ evidence = [c \in {Company[d] : d \in Decisions} |-> 0]
  /\ \E D \in SUBSET Legacy :
       jobs = [j \in {<<d, 0, 1>> : d \in D} |-> NewJob(j[1])]
  /\ row \in [Decisions -> UNION {InitialRows(d) : d \in Decisions}]
  /\ \A d \in Decisions :
       row[d] \in InitialRows(d) /\ row[d].lastJob \in DOMAIN jobs \cup {NoJob}
  /\ work = row
  /\ lock = [d \in Decisions |-> "none"]
  /\ request = [d \in Decisions |-> IF d \in Legacy THEN "over" ELSE "new"]
  /\ cancel = [d \in Decisions |-> "none"]
  /\ stale = [d \in Decisions |-> NoJob]
  /\ told = {}
  /\ phase = [s \in Sweepers |-> "idle"]
  /\ todo = [s \in Sweepers |-> {}]
  /\ fixed = [s \in Sweepers |-> FALSE]
  /\ faults = 0

Request(d) ==
  \/ RequestReads(d) \/ RequestCreates(d) \/ RequestEnqueues(d) \/ RequestCommits(d)

Observer(j) == ObserverFindsNothing(j) \/ ObserverAdvances(j)

Sweep(s) ==
  \/ SweepSelectsStranded(s) \/ SweepSelectsEnded(s) \/ SweepEnds(s)
  \/ \E d \in Decisions :
       SweepClosesStranded(s, d) \/ SweepRecovers(s, d) \/ SweepReconciles(s, d)

Next ==
  \/ \E d \in Decisions :
       \/ Request(d) \/ RequestFails(d)
       \/ CancelReads(d) \/ CancelWrites(d)
       \/ TransactionCommits(d) \/ TransactionFails(d)
  \/ \E j \in DOMAIN jobs : JobGathers(j) \/ JobEnds(j)
  \/ \E j \in told : Observer(j) \/ NotificationLost(j)
  \/ \E s \in Sweepers : Sweep(s) \/ SweepFails(s)

\* Transactions are finished, jobs end (JobQueue's EveryJobEnds) and the sweep
\* comes round again.  Nothing makes a notification or a cancel happen.
Fairness ==
  /\ \A d \in Decisions : WF_vars(Request(d)) /\ WF_vars(TransactionCommits(d))
  /\ \A s \in Sweepers : WF_vars(Sweep(s))
  /\ WF_vars(\E j \in DOMAIN jobs : JobEnds(j))

Spec == Init /\ [][Next]_vars

FairSpec == Spec /\ Fairness

---------------------------------------------------------------------------
(* Properties *)

Jobs == Decisions \X (0 .. MaxRounds - 1) \X Nat

RowType ==
  [status : OpenStatuses \cup ClosedStatuses \cup {"absent"},
   reason : {"none", "job_dead_lettered", "research_did_not_complete",
             "evidence_baseline_missing", "no_improvement", "evidence_sufficient",
             "max_rounds", "cost_unknown", "cost_cap", "operator_cancelled"},
   round : 0 .. MaxRounds - 1, lastJob : Jobs \cup {NoJob},
   before : Nat \cup {NoBaseline}]

\* Every variable has its type.  No job, and no decision, is ever in a round
\* beyond the limit: decide_next_state authorises none, and neither recovery
\* nor a repeated closing invents one.
TypeOK ==
  /\ row \in [Decisions -> RowType]
  /\ work \in [Decisions -> RowType]
  /\ lock \in [Decisions -> Sweepers \cup {"none", "observer", "cancel"}]
  /\ request \in [Decisions -> {"new", "creating", "created", "enqueued",
                                "over"}]
  /\ cancel \in [Decisions -> {"none", "writing", "done"}]
  /\ stale \in [Decisions -> Jobs \cup {NoJob}]
  /\ DOMAIN jobs \subseteq Jobs
  /\ \A j \in DOMAIN jobs :
       jobs[j] \in [status : {"live", "completed", "failed", "dead_letter",
                              "cancelled"},
                    asked : BOOLEAN, gathered : BOOLEAN, start : Nat]
  /\ \A d \in Decisions : evidence[Company[d]] \in Nat
  /\ told \subseteq DOMAIN jobs
  /\ phase \in [Sweepers -> {"idle", "recover", "reconcile"}]
  /\ todo \in [Sweepers -> SUBSET Decisions]
  /\ fixed \in [Sweepers -> BOOLEAN]
  /\ faults \in 0 .. MaxFaults

\* A company never has two open decisions, however requests, closings and
\* roll-backs interleave (ux_research_decisions_one_open).
OneOpenDecisionPerCompany ==
  \A d, e \in Decisions :
    /\ Open(row[d]) /\ Open(row[e])
    /\ Company[d] = Company[e] /\ Company[d] # NoCompany
    => d = e

\* A finding about the evidence ("exhausted", "completed") is recorded only
\* for a round whose job really completed and whose baseline was taken: a
\* failed, lost or unmeasured round never reads as a finished investigation,
\* whichever of observer and sweep judged it (decide_next_state).
FindingsRestOnACompletedRound ==
  \A d \in Decisions :
    row[d].status \in {"exhausted", "completed"} =>
      /\ row[d].lastJob \in DOMAIN jobs
      /\ jobs[row[d].lastJob].status = "completed"
      /\ row[d].before # NoBaseline

\* A closed decision is never reopened, judged again or made to buy another
\* job, whoever notices the end of its last one late (the OPEN re-check under
\* the lock of advance_research_decision and of both halves of the sweep).
\* Only a cancel that read it while it was open may still replace the verdict.
ClosedDecisionsStayClosed ==
  [][\A d \in Decisions :
       row[d].status \in ClosedStatuses =>
         /\ \/ row'[d] = row[d]
            \/ /\ lock[d] = "cancel"
               /\ row'[d] = Closed(row[d], "abandoned", "operator_cancelled")
         /\ \A j \in DOMAIN jobs' \ DOMAIN jobs : j[1] # d]_vars

\* Whatever interleaves, fails or is lost, the committed decisions only do what
\* DecisionLife promises: no second open decision, no round that is skipped,
\* repeated after its end, or climbed without a completed job of the one
\* before, and no finding but of a completed job of its own round
\* (complete_round under the row lock, ux_research_decisions_one_open).
Life ==
  INSTANCE DecisionLife WITH
    status <- [d \in Decisions |-> row[d].status],
    round <- [d \in Decisions |-> row[d].round],
    done <- {<<j[1], j[2]>> : j \in {i \in DOMAIN jobs : jobs[i].status = "completed"}}

ImplementsDecisionLife == Life!LifeSpec

\* Every decision that is opened is closed in the end, although requests,
\* observers and sweeps may fail at any point: its company is never locked
\* out for good (reconcile_missed_rounds).
EveryDecisionCloses ==
  \A d \in Decisions : Open(row[d]) ~> row[d].status \in ClosedStatuses

---------------------------------------------------------------------------
(* What comments promise and the code does not keep *)

\* controller.py:403: "nothing that could move the evidence exists until the
\* measurement it will be judged against is on the row".  The baseline of a
\* round is not later than its job.
BaselinePrecedesTheJob ==
  \A d \in Decisions :
    Open(row[d]) /\ row[d].lastJob # NoJob =>
      row[d].before <= jobs[row[d].lastJob].start

\* controller.py:639: a decision that cannot be measured "is closed with
\* evidence_baseline_missing, which frees the company".
StrandedDecisionsAreFreed ==
  \A d \in Legacy : <>(row[d].status \in ClosedStatuses)
=============================================================================
