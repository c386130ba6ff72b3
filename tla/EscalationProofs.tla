-------------------------- MODULE EscalationProofs --------------------------
(***************************************************************************)
(* For every set of decisions, companies and sweepers, every round limit   *)
(* and any number of faults: types, at most one open decision of a         *)
(* company, findings only from completed and measured rounds, and closed   *)
(* decisions that stay closed.  The argument: whoever writes a decision    *)
(* holds its row lock and found it open, and the transaction of a request  *)
(* excludes every other opening of its company until it ends.  The last    *)
(* part proves that the committed decisions implement DecisionLife.        *)
(***************************************************************************)
EXTENDS Escalation, FiniteSetTheorems, TLAPS

Reasons ==
  {"none", "job_dead_lettered", "research_did_not_complete",
   "evidence_baseline_missing", "no_improvement", "evidence_sufficient",
   "max_rounds", "cost_unknown", "cost_cap", "operator_cancelled"}

JobStates ==
  [status : {"live", "completed", "failed", "dead_letter", "cancelled"},
   asked : BOOLEAN, gathered : BOOLEAN, start : Nat]

\* TypeOK, and that the jobs and the evidence are tables
Tables ==
  /\ TypeOK
  /\ jobs \in [DOMAIN jobs -> JobStates] /\ IsFiniteSet(DOMAIN jobs)
  /\ evidence \in [{Company[d] : d \in Decisions} -> Nat]

\* A job that is named exists
Named ==
  \A d \in Decisions : {row[d].lastJob, work[d].lastJob} \subseteq DOMAIN jobs \cup {NoJob}

\* A request writes its own decision, which nobody else has seen yet.
Private == \A d \in Decisions : request[d] # "over" => row[d].status = "absent"

Unseen == \A d \in Decisions : row[d].status = "absent" => lock[d] = "none" /\ cancel[d] = "none"

\* The holder of a row lock found the decision open, or closes it.
Locked ==
  \A d \in Decisions : lock[d] # "none" =>
    work[d].status # "absent" /\ (Open(work[d]) => Open(row[d]))

\* A sweep treats what it locked; in its second half, with a job.
Selected ==
  \A s \in Sweepers : \A d \in todo[s] :
    /\ lock[d] = s /\ Open(row[d])
    /\ phase[s] = "reconcile" => work[d].lastJob \in DOMAIN jobs

Held == Private /\ Unseen /\ Locked /\ Selected

Rests(r) ==
  r.status \in {"exhausted", "completed"} =>
    /\ r.lastJob \in DOMAIN jobs
    /\ jobs[r.lastJob].status = "completed"
    /\ r.before # NoBaseline

Findings == \A d \in Decisions : Rests(row[d]) /\ Rests(work[d])

\* A request past its insert is alone with its company
Exclusive ==
  \A d \in Decisions : InTransaction(d) =>
    \A e \in Decisions \ {d} :
      Company[e] = Company[d] => ~InTransaction(e) /\ ~Open(row[e])

IInv == Tables /\ Named /\ Held /\ Findings /\ Exclusive /\ OneOpenDecisionPerCompany

---------------------------------------------------------------------------
(* Single rows *)

LEMMA ClosedRow ==
  ASSUME NEW r \in RowType, NEW status \in ClosedStatuses, NEW reason \in Reasons
  PROVE  /\ Closed(r, status, reason) \in RowType
         /\ ~Open(Closed(r, status, reason))
         /\ Closed(r, status, reason).status = status
         /\ Closed(r, status, reason).lastJob = r.lastJob
         /\ Closed(r, status, reason).before = r.before
  BY DEF Closed, RowType, Reasons, Open, OpenStatuses, ClosedStatuses

\* A round's job is a job of its decision.
LEMMA RoundJobIsAJob ==
  ASSUME Tables, NEW d \in Decisions, NEW k \in 0 .. MaxRounds - 1
  PROVE  RoundJob(d, k) \in Jobs /\ RoundJob(d, k)[1] = d
<1>1. IsFiniteSet(1 .. Cardinality(DOMAIN jobs))
  BY FS_CardinalityType, FS_Interval DEF Tables
<1>2. Cardinality(Generations(d, k)) \in Nat
  BY <1>1, FS_Subset, FS_CardinalityType DEF Generations
<1>. QED
  BY <1>2 DEF RoundJob, Jobs

\* Enqueueing adds at most the job of the round, and changes no other.
LEMMA EnqueueAdds ==
  ASSUME Tables, NEW d \in Decisions, NEW k \in 0 .. MaxRounds - 1, Enqueue(d, k)
  PROVE  /\ jobs' \in [DOMAIN jobs \cup {RoundJob(d, k)} -> JobStates]
         /\ DOMAIN jobs' = DOMAIN jobs \cup {RoundJob(d, k)}
         /\ IsFiniteSet(DOMAIN jobs') /\ DOMAIN jobs' \subseteq Jobs
         /\ \A j \in DOMAIN jobs : jobs'[j] = jobs[j]
<1>1. NewJob(d) \in JobStates
  BY DEF NewJob, JobStates, Tables
<1>2. jobs' \in [DOMAIN jobs \cup {RoundJob(d, k)} -> JobStates]
  BY <1>1 DEF Enqueue, Tables
<1>3. DOMAIN jobs' = DOMAIN jobs \cup {RoundJob(d, k)}
  BY <1>2
<1>4. IsFiniteSet(DOMAIN jobs')
  BY <1>3, FS_AddElement DEF Tables
<1>. QED
  BY <1>2, <1>3, <1>4, RoundJobIsAJob DEF Enqueue, Tables, TypeOK

\* What decide_next_state says is a verdict; a finding only of a round that
\* completed and was measured, and another round only below the limit.
LEMMA Verdicts ==
  ASSUME NEW s, NEW known \in BOOLEAN, NEW improved \in BOOLEAN, NEW gaps \in BOOLEAN,
         NEW k, NEW cost, NEW v, v = Verdict(s, known, improved, gaps, k, cost)
  PROVE  /\ v[1] \in ClosedStatuses \cup {"reanalysis"}
         /\ v[2] \in Reasons
         /\ v[1] \in {"exhausted", "completed"} => s = "completed" /\ known
         /\ v[1] = "reanalysis" => ~RoundsUsedUp(k)
  BY DEF Verdict, Ran, ClosedStatuses, Reasons

\* What the end of a round makes of a row
LEMMA RoundOutcome ==
  ASSUME Tables, NEW d \in Decisions, NEW r \in RowType, r.lastJob \in DOMAIN jobs,
         NEW n \in RoundOutcomes(d, r), BuysNextRound(d, n)
  PROVE  /\ n \in RowType /\ n.status # "absent"
         /\ n.lastJob \in DOMAIN jobs'
         /\ Rests(n)
         /\ Open(n) => Enqueue(d, n.round)
         /\ ~Open(n) => UNCHANGED jobs
<1>1. PICK gaps \in BOOLEAN, cost \in {"affordable", "unknown", "capped"} :
        n = AfterRound(d, r, Verdict(jobs[r.lastJob].status, Known(r), Improved(d, r),
                                     gaps, r.round, cost))
  BY DEF RoundOutcomes
<1>. DEFINE v == Verdict(jobs[r.lastJob].status, Known(r), Improved(d, r),
                         gaps, r.round, cost)
<1>2. /\ v[1] \in ClosedStatuses \cup {"reanalysis"}
      /\ v[2] \in Reasons
      /\ v[1] \in {"exhausted", "completed"} =>
           jobs[r.lastJob].status = "completed" /\ Known(r)
      /\ v[1] = "reanalysis" => ~RoundsUsedUp(r.round)
  <2>1. Known(r) \in BOOLEAN /\ Improved(d, r) \in BOOLEAN
    BY DEF Known, Improved
  <2>. QED
    BY <2>1, Verdicts
<1>5. n = AfterRound(d, r, v)
  BY <1>1
<1>. HIDE DEF v
<1>3. CASE v[1] = "reanalysis"
  <2>1. r.round + 1 \in 0 .. MaxRounds - 1
    BY <1>2, <1>3, EscalationAssumption DEF RoundsUsedUp, RowType
  <2>2. n = [status |-> "reanalysis", reason |-> r.reason, round |-> r.round + 1,
             lastJob |-> RoundJob(d, r.round + 1), before |-> evidence[Company[d]]]
    BY <1>3, <1>5 DEF AfterRound, RowType
  <2>3. n \in RowType
    BY <2>1, <2>2, RoundJobIsAJob DEF RowType, Tables, OpenStatuses
  <2>4. Open(n) /\ Enqueue(d, n.round)
    BY <2>2 DEF Open, OpenStatuses, BuysNextRound
  <2>5. n.lastJob \in DOMAIN jobs'
    BY <2>1, <2>2, <2>4, EnqueueAdds
  <2>. QED
    BY <2>2, <2>3, <2>4, <2>5 DEF Rests
<1>4. CASE v[1] # "reanalysis"
  <2>1. n = Closed(r, v[1], v[2]) /\ v[1] \in ClosedStatuses
    BY <1>2, <1>4, <1>5 DEF AfterRound
  <2>2. n \in RowType /\ ~Open(n) /\ n.status = v[1] /\ n.lastJob = r.lastJob
        /\ n.before = r.before
    BY <1>2, <2>1, ClosedRow
  <2>. QED
    BY <1>2, <2>1, <2>2 DEF Rests, Known, BuysNextRound, ClosedStatuses
<1>. QED
  BY <1>3, <1>4

---------------------------------------------------------------------------
(* What the steps that judge or recover a decision do to it *)

\* r is what d becomes: d was open, and r names a job that exists.
Becomes(d, r) ==
  /\ d \in Decisions /\ Open(row[d])
  /\ r \in RowType /\ r.status # "absent"
  /\ r.lastJob \in DOMAIN jobs' /\ Rests(r)
  /\ Enqueue(d, r.round) \/ UNCHANGED jobs

LEMMA ObserverJudges ==
  ASSUME IInv, NEW j \in told, ObserverAdvances(j)
  PROVE  \E r : work' = [work EXCEPT ![j[1]] = r] /\ Becomes(j[1], r)
<1>. DEFINE d == j[1]
<1>1. d \in Decisions /\ row[d] \in RowType /\ row[d].lastJob \in DOMAIN jobs
  BY DEF IInv, Tables, TypeOK, Jobs, ObserverAdvances, Advances
<1>2. PICK r \in RoundOutcomes(d, row[d]) :
        work' = [work EXCEPT ![d] = r] /\ BuysNextRound(d, r)
  BY DEF ObserverAdvances
<1>. QED
  BY <1>1, <1>2, RoundOutcome DEF IInv, Becomes, ObserverAdvances, Advances

LEMMA SweepJudges ==
  ASSUME IInv, NEW s \in Sweepers, NEW d \in Decisions, SweepReconciles(s, d)
  PROVE  \E r : Treated(s, d, r, TRUE) /\ Becomes(d, r)
<1>1. work[d] \in RowType /\ work[d].lastJob \in DOMAIN jobs /\ Open(row[d])
  BY DEF IInv, Tables, TypeOK, Held, Selected, SweepReconciles
<1>. QED
  BY <1>1, RoundOutcome DEF IInv, Becomes, SweepReconciles

LEMMA SweepRecovery ==
  ASSUME IInv, NEW s \in Sweepers, NEW d \in Decisions, SweepRecovers(s, d)
  PROVE  \E r : Treated(s, d, r, TRUE) /\ Becomes(d, r)
<1>. DEFINE k == work[d].round
            r == [work[d] EXCEPT
                    !.status = "queued",
                    !.before = IF work[d].before = NoBaseline THEN evidence[Company[d]]
                               ELSE work[d].before,
                    !.lastJob = RoundJob(d, k)]
<1>1. work[d] \in RowType /\ Open(row[d]) /\ k \in 0 .. MaxRounds - 1
  BY DEF IInv, Tables, TypeOK, Held, Selected, SweepRecovers, RowType
<1>2. RoundJob(d, k) \in Jobs /\ evidence[Company[d]] \in Nat
  BY <1>1, RoundJobIsAJob DEF IInv, Tables
<1>3. /\ r \in RowType /\ r.status = "queued" /\ r.lastJob = RoundJob(d, k)
      /\ r.round = k
  BY <1>1, <1>2 DEF RowType, OpenStatuses
<1>4. Treated(s, d, r, TRUE) /\ Enqueue(d, k)
  BY DEF SweepRecovers
<1>5. RoundJob(d, k) \in DOMAIN jobs'
  BY <1>1, <1>4, EnqueueAdds DEF IInv
<1>. HIDE DEF r
<1>. QED
  BY <1>1, <1>3, <1>4, <1>5 DEF Becomes, Rests

---------------------------------------------------------------------------
\* Jobs are only added, and how one ended does not change.
JobsGrow ==
  /\ jobs' \in [DOMAIN jobs' -> JobStates] /\ IsFiniteSet(DOMAIN jobs')
  /\ DOMAIN jobs \subseteq DOMAIN jobs' /\ DOMAIN jobs' \subseteq Jobs
  /\ \A j \in DOMAIN jobs : Ended(j) => jobs'[j].status = jobs[j].status

LEMMA EnqueueGrows ==
  ASSUME Tables, NEW d \in Decisions, NEW k \in 0 .. MaxRounds - 1, Enqueue(d, k)
  PROVE  JobsGrow
  BY EnqueueAdds DEF JobsGrow

LEMMA BecomingGrows ==
  ASSUME IInv, NEW d, NEW r, Becomes(d, r)
  PROVE  JobsGrow
<1>1. CASE UNCHANGED jobs
  BY <1>1 DEF JobsGrow, IInv, Tables, TypeOK
<1>2. CASE Enqueue(d, r.round)
  BY <1>2, EnqueueGrows DEF Becomes, IInv, RowType
<1>. QED
  BY <1>1, <1>2 DEF Becomes

LEMMA NextJobsGrow == IInv /\ [Next]_vars => JobsGrow
<1>1. SUFFICES ASSUME IInv, [Next]_vars PROVE JobsGrow
  OBVIOUS
<1>2. ASSUME UNCHANGED jobs PROVE JobsGrow
  BY <1>1, <1>2 DEF JobsGrow, IInv, Tables, TypeOK
<1>3. ASSUME NEW j \in DOMAIN jobs, NEW n \in JobStates,
             jobs' = [jobs EXCEPT ![j] = n], Ended(j) => n.status = jobs[j].status
      PROVE  JobsGrow
  BY <1>1, <1>3 DEF JobsGrow, IInv, Tables, TypeOK
<1>4. CASE \E d \in Decisions : RequestEnqueues(d)
  BY <1>1, <1>4, EnqueueGrows, EscalationAssumption DEF RequestEnqueues, IInv
<1>5. CASE \E d \in Decisions : CancelWrites(d)
  <2>1. PICK d \in Decisions : CancelWrites(d)
    BY <1>5
  <2>2. CASE stale[d] \notin DOMAIN jobs
    <3>1. jobs' = jobs
      BY <1>1, <2>1, <2>2 DEF CancelWrites, AskToStop, IInv, Tables
    <3>. QED
      BY <1>2, <3>1
  <2>3. CASE stale[d] \in DOMAIN jobs
    <3>1. jobs[stale[d]] \in JobStates
      BY <1>1, <2>3 DEF IInv, Tables
    <3>2. PICK t \in {"live", "cancelled"} :
            \/ UNCHANGED jobs
            \/ /\ ~Ended(stale[d])
               /\ jobs' = [jobs EXCEPT ![stale[d]] =
                             [jobs[stale[d]] EXCEPT !.status = t, !.asked = TRUE]]
      BY <1>1, <2>1, <2>3 DEF CancelWrites, AskToStop, IInv, Tables
    <3>3. [jobs[stale[d]] EXCEPT !.status = t, !.asked = TRUE] \in JobStates
      BY <3>1 DEF JobStates
    <3>. QED
      BY <1>2, <1>3, <2>3, <3>2, <3>3
  <2>. QED
    BY <2>2, <2>3
<1>6. CASE \E j \in DOMAIN jobs : JobGathers(j) \/ JobEnds(j)
  <2>1. PICK j \in DOMAIN jobs : JobGathers(j) \/ JobEnds(j)
    BY <1>6
  <2>2. jobs[j] \in JobStates
    BY <1>1 DEF IInv, Tables
  <2>3. PICK n \in JobStates : ~Ended(j) /\ jobs' = [jobs EXCEPT ![j] = n]
    <3>1. CASE JobGathers(j)
      <4>1. [jobs[j] EXCEPT !.gathered = TRUE] \in JobStates
        BY <2>2 DEF JobStates
      <4>. QED
        BY <3>1, <4>1 DEF JobGathers
    <3>2. CASE JobEnds(j)
      <4>1. PICK t \in {"completed", "failed", "dead_letter", "cancelled"} :
              jobs' = [jobs EXCEPT ![j] = [jobs[j] EXCEPT !.status = t]]
        BY <3>2 DEF JobEnds
      <4>2. [jobs[j] EXCEPT !.status = t] \in JobStates
        BY <2>2 DEF JobStates
      <4>. QED
        BY <3>2, <4>1, <4>2 DEF JobEnds
    <3>. QED
      BY <2>1, <3>1, <3>2
  <2>. QED
    BY <1>3, <2>3
<1>7. CASE \E j \in told : ObserverAdvances(j)
  BY <1>1, <1>7, ObserverJudges, BecomingGrows
<1>8. CASE \E s \in Sweepers, d \in Decisions : SweepRecovers(s, d) \/ SweepReconciles(s, d)
  BY <1>1, <1>8, SweepRecovery, SweepJudges, BecomingGrows
<1>. QED
  BY <1>1, <1>2, <1>4, <1>5, <1>6, <1>7, <1>8
     DEF Next, vars, Request, Observer, Sweep, RequestReads, RequestCreates, RequestCommits,
         RequestFails, CancelReads, TransactionCommits, TransactionFails,
         ObserverFindsNothing, NotificationLost, SweepSelectsStranded, SweepSelectsEnded,
         SweepEnds, SweepClosesStranded, SweepFails, SweepReleases

---------------------------------------------------------------------------
(* Committed and uncommitted rows *)

\* What IInv says of one row, with the jobs js
Sound(r, js) ==
  /\ r \in RowType
  /\ r.lastJob \in DOMAIN js \cup {NoJob}
  /\ r.status \in {"exhausted", "completed"} =>
       /\ r.lastJob \in DOMAIN js
       /\ js[r.lastJob].status = "completed"
       /\ r.before # NoBaseline

AllSound(js) ==
  /\ row \in [Decisions -> RowType] /\ work \in [Decisions -> RowType]
  /\ \A d \in Decisions : Sound(row[d], js) /\ Sound(work[d], js)

LEMMA SoundNow == IInv => AllSound(jobs)
  BY DEF IInv, Tables, TypeOK, Named, Findings, Rests, Sound, AllSound

\* No step makes a row unsound by what it does to the jobs.
LEMMA SoundLater ==
  ASSUME IInv, JobsGrow
  PROVE  /\ \A r : Sound(r, jobs) => Sound(r, jobs')
         /\ AllSound(jobs')
<1>1. \A r : Sound(r, jobs) => Sound(r, jobs')
  BY DEF Sound, JobsGrow, Ended
<1>. QED
  BY <1>1, SoundNow DEF AllSound

LEMMA BecomesSound ==
  ASSUME IInv, NEW d, NEW r, Becomes(d, r)
  PROVE  Sound(r, jobs')
<1>1. JobsGrow
  BY BecomingGrows
<1>2. Rests(r) /\ r \in RowType /\ r.lastJob \in DOMAIN jobs'
  BY DEF Becomes
<1>. QED
  BY <1>1, <1>2 DEF Sound, Rests, JobsGrow, Ended

\* Every row a step leaves is sound.
LEMMA NextSound == IInv /\ [Next]_vars => AllSound(jobs)'
<1>1. SUFFICES ASSUME IInv, [Next]_vars PROVE AllSound(jobs)'
  OBVIOUS
<1>2. JobsGrow /\ AllSound(jobs') /\ \A r : Sound(r, jobs) => Sound(r, jobs')
  BY <1>1, NextJobsGrow, SoundLater
<1>3. ASSUME UNCHANGED row, UNCHANGED work PROVE AllSound(jobs)'
  BY <1>2, <1>3 DEF AllSound
<1>4. ASSUME NEW d, NEW r, Sound(r, jobs'), UNCHANGED row, work' = [work EXCEPT ![d] = r]
      PROVE  AllSound(jobs)'
  <2>1. r \in RowType
    BY <1>4 DEF Sound
  <2>. QED
    BY <1>2, <1>4, <2>1 DEF AllSound
<1>5. ASSUME NEW d, UNCHANGED work, row' = [row EXCEPT ![d] = work[d]]
      PROVE  AllSound(jobs)'
  BY <1>2, <1>5 DEF AllSound
<1>6. ASSUME NEW status \in {"abandoned"}, NEW reason \in Reasons, NEW r, Sound(r, jobs)
      PROVE  Sound(Closed(r, status, reason), jobs')
  <2>1. Sound(r, jobs') /\ r \in RowType
    BY <1>2, <1>6 DEF Sound
  <2>. QED
    BY <2>1, ClosedRow DEF Sound, ClosedStatuses
<1>7. ASSUME NEW d \in Decisions,
             \/ RequestReads(d) \/ RequestCreates(d) \/ RequestEnqueues(d)
             \/ RequestCommits(d) \/ RequestFails(d)
      PROVE  AllSound(jobs)'
  <2>1. Sound(work[d], jobs') /\ Sound(row[d], jobs') /\ work[d] \in RowType
    BY <1>2 DEF AllSound
  <2>2. CASE RequestReads(d)
    <3>1. Sound(Row("research_required", evidence[Company[d]]), jobs')
      <4>1. evidence[Company[d]] \in Nat
        BY <1>1 DEF IInv, Tables, TypeOK
      <4>2. Row("research_required", evidence[Company[d]]) \in RowType
        BY <4>1, EscalationAssumption DEF Row, RowType, OpenStatuses
      <4>. QED
        BY <4>2 DEF Sound, Row
    <3>. QED
      BY <1>3, <1>4, <2>2, <3>1 DEF RequestReads
  <2>3. CASE RequestCreates(d)
    BY <1>4, <2>1, <2>3 DEF RequestCreates
  <2>4. CASE RequestEnqueues(d)
    <3>1. RoundJob(d, 0) \in Jobs /\ RoundJob(d, 0) \in DOMAIN jobs'
      <4>1. 0 \in 0 .. MaxRounds - 1
        BY EscalationAssumption
      <4>2. Tables /\ Enqueue(d, 0)
        BY <1>1, <2>4 DEF RequestEnqueues, IInv
      <4>. QED
        BY <4>1, <4>2, RoundJobIsAJob, EnqueueAdds
    <3>. DEFINE r == [work[d] EXCEPT !.status = "queued", !.lastJob = RoundJob(d, 0)]
    <3>2. r \in RowType /\ r.status = "queued" /\ r.lastJob = RoundJob(d, 0)
      BY <2>1, <3>1 DEF RowType, OpenStatuses
    <3>3. Sound(r, jobs')
      BY <3>1, <3>2 DEF Sound
    <3>4. UNCHANGED row /\ work' = [work EXCEPT ![d] = r]
      BY <2>4 DEF RequestEnqueues
    <3>. HIDE DEF r
    <3>. QED
      BY <1>4, <3>3, <3>4
  <2>5. CASE RequestCommits(d)
    BY <1>5, <2>5 DEF RequestCommits
  <2>6. CASE RequestFails(d)
    BY <1>4, <2>1, <2>6 DEF RequestFails
  <2>. QED
    BY <1>7, <2>2, <2>3, <2>4, <2>5, <2>6
<1>8. ASSUME NEW d \in Decisions,
             CancelReads(d) \/ CancelWrites(d) \/ TransactionCommits(d) \/ TransactionFails(d)
      PROVE  AllSound(jobs)'
  <2>1. Sound(row[d], jobs) /\ Sound(row[d], jobs')
    BY <1>1, <1>2, SoundNow DEF AllSound
  <2>2. Sound(Closed(row[d], "abandoned", "operator_cancelled"), jobs')
    BY <1>6, <2>1 DEF Reasons
  <2>3. CASE CancelReads(d)
    BY <1>3, <2>3 DEF CancelReads, decisionVars
  <2>4. CASE CancelWrites(d)
    BY <1>4, <2>2, <2>4 DEF CancelWrites
  <2>5. CASE TransactionCommits(d)
    BY <1>5, <2>5 DEF TransactionCommits
  <2>6. CASE TransactionFails(d)
    BY <1>4, <2>1, <2>6 DEF TransactionFails
  <2>. QED
    BY <1>8, <2>3, <2>4, <2>5, <2>6
<1>9. ASSUME NEW j \in told, Observer(j) PROVE AllSound(jobs)'
  <2>1. CASE ObserverFindsNothing(j)
    BY <1>3, <2>1 DEF ObserverFindsNothing, decisionVars
  <2>2. CASE ObserverAdvances(j)
    BY <1>1, <1>4, <2>2, ObserverJudges, BecomesSound DEF ObserverAdvances
  <2>. QED
    BY <1>9, <2>1, <2>2 DEF Observer
<1>10. ASSUME NEW s \in Sweepers, SweepSelectsStranded(s) \/ SweepSelectsEnded(s)
       PROVE  AllSound(jobs)'
  <2>1. /\ UNCHANGED row
        /\ \E S : work' = [d \in Decisions |-> IF d \in S THEN Seen(s, d) ELSE work[d]]
    BY <1>10 DEF SweepSelectsStranded, SweepSelectsEnded, Select
  <2>. QED
    BY <1>2, <2>1 DEF AllSound, Seen
<1>11. ASSUME NEW s \in Sweepers, SweepEnds(s) \/ SweepFails(s) PROVE AllSound(jobs)'
  <2>1. row' \in [Decisions -> RowType] /\ \A d \in Decisions : row'[d] \in {row[d], work[d]}
    BY <1>2, <1>11 DEF SweepEnds, SweepFails, AllSound
  <2>2. work' = [d \in Decisions |-> IF lock[d] = s THEN row'[d] ELSE work[d]]
    BY <1>11 DEF SweepEnds, SweepFails, SweepReleases
  <2>. QED
    BY <1>2, <2>1, <2>2 DEF AllSound
<1>12. ASSUME NEW s \in Sweepers, NEW d \in Decisions,
              SweepClosesStranded(s, d) \/ SweepRecovers(s, d) \/ SweepReconciles(s, d)
       PROVE  AllSound(jobs)'
  <2>1. CASE SweepClosesStranded(s, d)
    <3>1. Sound(work[d], jobs)
      BY <1>1, SoundNow DEF AllSound
    <3>2. PICK reason \in Reasons :
            work' = [work EXCEPT ![d] = Closed(work[d], "abandoned", reason)]
      BY <2>1 DEF SweepClosesStranded, Treated, Reasons
    <3>3. Sound(Closed(work[d], "abandoned", reason), jobs')
      BY <1>6, <3>1
    <3>4. UNCHANGED row
      BY <2>1 DEF SweepClosesStranded, Treated
    <3>. QED
      BY <1>4, <3>2, <3>3, <3>4
  <2>2. CASE SweepRecovers(s, d) \/ SweepReconciles(s, d)
    <3>1. PICK r : Treated(s, d, r, TRUE) /\ Becomes(d, r)
      BY <1>1, <2>2, SweepRecovery, SweepJudges
    <3>2. Sound(r, jobs')
      BY <1>1, <3>1, BecomesSound
    <3>. QED
      BY <1>4, <3>1, <3>2 DEF Treated
  <2>. QED
    BY <1>12, <2>1, <2>2
<1>. QED
  BY <1>1, <1>3, <1>7, <1>8, <1>9, <1>10, <1>11, <1>12
     DEF Next, vars, decisionVars, Request, Sweep, JobGathers, JobEnds, NotificationLost

---------------------------------------------------------------------------
(* Types *)

\* TypeOK of what is neither a row nor a job
Control ==
  /\ lock \in [Decisions -> Sweepers \cup {"none", "observer", "cancel"}]
  /\ request \in [Decisions -> {"new", "creating", "created", "enqueued", "over"}]
  /\ cancel \in [Decisions -> {"none", "writing", "done"}]
  /\ stale \in [Decisions -> Jobs \cup {NoJob}]
  /\ evidence \in [{Company[d] : d \in Decisions} -> Nat]
  /\ told \subseteq DOMAIN jobs
  /\ phase \in [Sweepers -> {"idle", "recover", "reconcile"}]
  /\ todo \in [Sweepers -> SUBSET Decisions]
  /\ fixed \in [Sweepers -> BOOLEAN]
  /\ faults \in 0 .. MaxFaults

LEMMA NextControl == IInv /\ [Next]_vars => Control'
<1>1. SUFFICES ASSUME IInv, [Next]_vars PROVE Control'
  OBVIOUS
<1>2. Control /\ DOMAIN jobs \subseteq DOMAIN jobs'
  BY <1>1, NextJobsGrow DEF Control, IInv, Tables, TypeOK, JobsGrow
<1>3. CASE UNCHANGED vars
  BY <1>2, <1>3 DEF Control, vars, decisionVars, requestVars, sweepVars
<1>4. ASSUME NEW d \in Decisions,
             \/ RequestReads(d) \/ RequestCreates(d) \/ RequestEnqueues(d)
             \/ RequestCommits(d) \/ RequestFails(d)
      PROVE  Control'
  <2>1. UNCHANGED <<lock, cancel, stale, evidence, told, sweepVars>>
    BY <1>4 DEF RequestReads, RequestCreates, RequestEnqueues, RequestCommits, RequestFails
  <2>2. PICK p \in {"creating", "created", "enqueued", "over"} :
          request' = [request EXCEPT ![d] = p]
    BY <1>4 DEF RequestReads, RequestCreates, RequestEnqueues, RequestCommits, RequestFails
  <2>3. faults' \in 0 .. MaxFaults
    BY <1>2, <1>4, EscalationAssumption
       DEF Control, RequestReads, RequestCreates, RequestEnqueues, RequestCommits, RequestFails
  <2>. QED
    BY <1>2, <2>1, <2>2, <2>3 DEF Control, sweepVars
<1>5. ASSUME NEW d \in Decisions,
             CancelReads(d) \/ CancelWrites(d) \/ TransactionCommits(d) \/ TransactionFails(d)
      PROVE  Control'
  <2>1. UNCHANGED <<request, evidence, told, sweepVars>>
    BY <1>5 DEF CancelReads, CancelWrites, TransactionCommits, TransactionFails, requestVars
  <2>2. lock' \in [Decisions -> Sweepers \cup {"none", "observer", "cancel"}]
    BY <1>2, <1>5 DEF Control, CancelReads, CancelWrites, TransactionCommits, TransactionFails,
                      decisionVars
  <2>3. cancel' \in [Decisions -> {"none", "writing", "done"}]
    BY <1>2, <1>5 DEF Control, CancelReads, CancelWrites, TransactionCommits, TransactionFails,
                      requestVars
  <2>4. row[d].lastJob \in Jobs \cup {NoJob}
    BY <1>1 DEF IInv, Tables, TypeOK, RowType
  <2>5. stale' \in [Decisions -> Jobs \cup {NoJob}]
    BY <1>2, <1>5, <2>4 DEF Control, CancelReads, CancelWrites, TransactionCommits,
                            TransactionFails, requestVars
  <2>6. faults' \in 0 .. MaxFaults
    BY <1>2, <1>5, EscalationAssumption
       DEF Control, CancelReads, CancelWrites, TransactionCommits, TransactionFails
  <2>. QED
    BY <1>2, <2>1, <2>2, <2>3, <2>5, <2>6 DEF Control, sweepVars
<1>6. ASSUME NEW j \in DOMAIN jobs, JobGathers(j) \/ JobEnds(j) PROVE Control'
  <2>1. Company[j[1]] \in {Company[d] : d \in Decisions}
    BY <1>1, <1>6 DEF IInv, Tables, TypeOK, Jobs
  <2>2. evidence' \in [{Company[d] : d \in Decisions} -> Nat]
    BY <1>2, <1>6, <2>1 DEF Control, JobGathers, JobEnds
  <2>3. told' \subseteq DOMAIN jobs'
    BY <1>2, <1>6 DEF Control, JobGathers, JobEnds
  <2>. QED
    BY <1>2, <1>6, <2>2, <2>3 DEF Control, JobGathers, JobEnds, decisionVars, requestVars, sweepVars
<1>7. ASSUME NEW j \in told, Observer(j) \/ NotificationLost(j) PROVE Control'
  <2>1. told' \subseteq DOMAIN jobs'
    BY <1>2, <1>7 DEF Control, Observer, ObserverFindsNothing, ObserverAdvances, NotificationLost
  <2>2. lock' \in [Decisions -> Sweepers \cup {"none", "observer", "cancel"}]
    BY <1>2, <1>7 DEF Control, Observer, ObserverFindsNothing, ObserverAdvances, NotificationLost,
                      decisionVars
  <2>3. faults' \in 0 .. MaxFaults
    BY <1>2, <1>7, EscalationAssumption
       DEF Control, Observer, ObserverFindsNothing, ObserverAdvances, NotificationLost
  <2>4. UNCHANGED <<requestVars, evidence, sweepVars>>
    BY <1>7 DEF Observer, ObserverFindsNothing, ObserverAdvances, NotificationLost
  <2>. QED
    BY <1>2, <2>1, <2>2, <2>3, <2>4 DEF Control, requestVars, sweepVars
<1>8. ASSUME NEW s \in Sweepers, Sweep(s) \/ SweepFails(s) PROVE Control'
  <2>1. CASE SweepSelectsStranded(s) \/ SweepSelectsEnded(s)
    <3>1. PICK S \in SUBSET Decisions : Select(s, S)
      BY <2>1 DEF SweepSelectsStranded, SweepSelectsEnded, Selectable
    <3>2. /\ lock' \in [Decisions -> Sweepers \cup {"none", "observer", "cancel"}]
          /\ todo' \in [Sweepers -> SUBSET Decisions]
      BY <1>2, <3>1 DEF Select, Control
    <3>. QED
      BY <1>2, <2>1, <3>2 DEF SweepSelectsStranded, SweepSelectsEnded, Control, requestVars
  <2>2. CASE SweepEnds(s) \/ SweepFails(s)
    <3>1. SweepReleases(s) /\ faults' \in 0 .. MaxFaults
      BY <1>2, <2>2, EscalationAssumption DEF Control, SweepEnds, SweepFails
    <3>. QED
      BY <1>2, <3>1 DEF Control, SweepReleases, requestVars
  <2>3. ASSUME NEW d \in Decisions,
               SweepClosesStranded(s, d) \/ SweepRecovers(s, d) \/ SweepReconciles(s, d)
        PROVE  Control'
    <3>1. \E r : \E counts \in BOOLEAN : Treated(s, d, r, counts)
      <4>1. CASE SweepClosesStranded(s, d)
        BY <4>1 DEF SweepClosesStranded
      <4>2. CASE SweepRecovers(s, d)
        BY <4>2 DEF SweepRecovers
      <4>3. CASE SweepReconciles(s, d)
        BY <4>3 DEF SweepReconciles
      <4>. QED
        BY <2>3, <4>1, <4>2, <4>3
    <3>. QED
      BY <1>2, <3>1 DEF Control, Treated, requestVars
  <2>. QED
    BY <1>8, <2>1, <2>2, <2>3 DEF Sweep
<1>. QED
  BY <1>1, <1>3, <1>4, <1>5, <1>6, <1>7, <1>8 DEF Next, Request

LEMMA NextTables == IInv /\ [Next]_vars => Tables'
<1>1. SUFFICES ASSUME IInv, [Next]_vars PROVE Tables'
  OBVIOUS
<1>2. AllSound(jobs)' /\ Control' /\ JobsGrow
  BY <1>1, NextSound, NextControl, NextJobsGrow
<1>. QED
  BY <1>2 DEF AllSound, Control, JobsGrow, Tables, TypeOK, JobStates

---------------------------------------------------------------------------
(* Who writes what *)

LEMMA SweeperNames == \A s \in Sweepers : s \notin {"none", "observer", "cancel"}
  BY EscalationAssumption

\* A committed row changes only by what its request, or the holder of its
\* lock, wrote.
LEMMA HowRowsChange ==
  IInv /\ [Next]_vars =>
    \A d \in Decisions :
      \/ row'[d] = row[d]
      \/ row'[d] = work[d] /\ lock[d] # "none" /\ lock'[d] = "none"
      \/ RequestCommits(d)
<1>1. SUFFICES ASSUME IInv, [Next]_vars, NEW d \in Decisions
      PROVE  \/ row'[d] = row[d]
             \/ row'[d] = work[d] /\ lock[d] # "none" /\ lock'[d] = "none"
             \/ RequestCommits(d)
  OBVIOUS
<1>2. CASE UNCHANGED row
  BY <1>2
<1>3. CASE \E e \in Decisions : RequestCommits(e)
  <2>1. PICK e \in Decisions : RequestCommits(e)
    BY <1>3
  <2>2. e # d => row'[d] = row[d]
    BY <1>1, <2>1 DEF RequestCommits, IInv, Tables, TypeOK
  <2>. QED
    BY <2>1, <2>2
<1>4. CASE \E e \in Decisions : TransactionCommits(e)
  BY <1>1, <1>4 DEF TransactionCommits, HeldByOne, IInv, Tables, TypeOK
<1>5. CASE \E s \in Sweepers : SweepEnds(s)
  <2>1. PICK s \in Sweepers : SweepEnds(s)
    BY <1>5
  <2>2. /\ row'[d] = IF lock[d] = s /\ MustCommit(s) THEN work[d] ELSE row[d]
        /\ lock'[d] = IF lock[d] = s THEN "none" ELSE lock[d]
    BY <1>1, <2>1 DEF SweepEnds, SweepReleases
  <2>. QED
    BY <2>2, SweeperNames
<1>. QED
  BY <1>1, <1>2, <1>3, <1>4, <1>5
     DEF Next, vars, decisionVars, Request, Observer, Sweep, RequestReads, RequestCreates,
         RequestEnqueues, RequestFails, CancelReads, CancelWrites, TransactionFails,
         JobGathers, JobEnds, ObserverFindsNothing, ObserverAdvances, NotificationLost,
         SweepSelectsStranded, SweepSelectsEnded, SweepClosesStranded, SweepRecovers,
         SweepReconciles, Treated, SweepFails

\* The row a request commits is its own.
LEMMA CommittedRow ==
  ASSUME IInv, NEW d \in Decisions, RequestCommits(d)
  PROVE  /\ row'[d] = work[d] /\ request[d] = "enqueued" /\ request'[d] = "over"
         /\ row[d].status = "absent"
         /\ \A e \in Decisions \ {d} : row'[e] = row[e] /\ request'[e] = request[e]
  BY DEF RequestCommits, IInv, Tables, TypeOK, Held, Private

LEMMA RequestsMove ==
  ASSUME IInv, [Next]_vars, NEW d \in Decisions, request'[d] # "over"
  PROVE  request[d] # "over"
<1>1. CASE UNCHANGED request
  BY <1>1
<1>2. CASE \E e \in Decisions : RequestReads(e) \/ RequestCreates(e) \/ RequestEnqueues(e)
                                \/ RequestCommits(e) \/ RequestFails(e)
  BY <1>2 DEF RequestReads, RequestCreates, RequestEnqueues, RequestCommits, RequestFails,
              IInv, Tables, TypeOK
<1>. QED
  BY <1>1, <1>2
     DEF Next, vars, requestVars, Request, Observer, Sweep, CancelReads, CancelWrites,
         TransactionCommits, TransactionFails, JobGathers, JobEnds, ObserverFindsNothing,
         ObserverAdvances, NotificationLost, SweepSelectsStranded, SweepSelectsEnded, SweepEnds,
         SweepClosesStranded, SweepRecovers, SweepReconciles, Treated, SweepFails, SweepReleases

LEMMA NextPrivate == IInv /\ [Next]_vars => Private'
<1>1. SUFFICES ASSUME IInv, [Next]_vars, NEW d \in Decisions, request'[d] # "over"
      PROVE  row'[d].status = "absent"
  BY DEF Private
<1>2. request[d] # "over" /\ row[d].status = "absent" /\ lock[d] = "none"
  BY <1>1, RequestsMove DEF IInv, Held, Private, Unseen
<1>. QED
  BY <1>1, <1>2, HowRowsChange, CommittedRow

\* A lock is kept with the row it covers, is released, or covers what its
\* holder may have made of a row that is there.
LEMMA HowLocksChange ==
  ASSUME IInv, [Next]_vars, NEW d \in Decisions
  PROVE  \/ lock'[d] = "none"
         \/ lock'[d] = lock[d] /\ work'[d] = work[d]
         \/ /\ row'[d] = row[d] /\ row[d].status # "absent"
            /\ work'[d].status # "absent" /\ (Open(work'[d]) => Open(row[d]))
<1>. DEFINE Goal == \/ lock'[d] = "none"
                    \/ lock'[d] = lock[d] /\ work'[d] = work[d]
                    \/ /\ row'[d] = row[d] /\ row[d].status # "absent"
                       /\ work'[d].status # "absent" /\ (Open(work'[d]) => Open(row[d]))
<1>1. /\ row \in [Decisions -> RowType] /\ work \in [Decisions -> RowType]
      /\ lock \in [Decisions -> Sweepers \cup {"none", "observer", "cancel"}]
      /\ row[d].status = "absent" => lock[d] = "none"
      /\ request[d] # "over" => row[d].status = "absent"
      /\ lock[d] # "none" =>
           work[d].status # "absent" /\ (Open(work[d]) => Open(row[d]))
  BY DEF IInv, Tables, TypeOK, Held, Private, Unseen, Locked
<1>2. CASE UNCHANGED <<work, lock>>
  BY <1>2
<1>3. ASSUME NEW e \in Decisions,
             \/ RequestReads(e) \/ RequestCreates(e) \/ RequestEnqueues(e) \/ RequestFails(e)
      PROVE  Goal
  <2>1. UNCHANGED lock /\ request[e] # "over" /\ (e # d => work'[d] = work[d])
    BY <1>1, <1>3 DEF RequestReads, RequestCreates, RequestEnqueues, RequestFails
  <2>. QED
    BY <1>1, <2>1
<1>4. ASSUME NEW e \in Decisions, NEW r, UNCHANGED row, work' = [work EXCEPT ![e] = r],
             \A x \in Decisions \ {e} : lock'[x] = lock[x],
             row[e].status # "absent" /\ r.status # "absent" /\ (Open(r) => Open(row[e]))
      PROVE  Goal
  BY <1>1, <1>4
<1>5. ASSUME NEW e \in Decisions, CancelWrites(e) PROVE Goal
  <2>. DEFINE r == Closed(row[e], "abandoned", "operator_cancelled")
  <2>1. cancel[e] # "none" /\ row[e] \in RowType
    BY <1>1, <1>5 DEF CancelWrites
  <2>2. row[e].status # "absent"
    BY <2>1 DEF IInv, Held, Unseen
  <2>3. r.status # "absent" /\ ~Open(r)
    BY <2>1, ClosedRow DEF ClosedStatuses, Reasons
  <2>4. /\ UNCHANGED row /\ work' = [work EXCEPT ![e] = r]
        /\ \A x \in Decisions \ {e} : lock'[x] = lock[x]
    BY <1>1, <1>5 DEF CancelWrites
  <2>. HIDE DEF r
  <2>. QED
    BY <1>4, <2>2, <2>3, <2>4
<1>6. ASSUME NEW e \in Decisions, TransactionCommits(e) \/ TransactionFails(e) PROVE Goal
  BY <1>1, <1>6 DEF TransactionCommits, TransactionFails
<1>7. ASSUME NEW j \in told, ObserverAdvances(j) PROVE Goal
  <2>1. PICK r : work' = [work EXCEPT ![j[1]] = r] /\ Becomes(j[1], r)
    BY <1>7, ObserverJudges
  <2>2. row[j[1]].status # "absent" /\ j[1] \in Decisions /\ Open(row[j[1]])
        /\ r.status # "absent"
    BY <2>1 DEF Becomes, Open, OpenStatuses
  <2>3. UNCHANGED row /\ \A x \in Decisions \ {j[1]} : lock'[x] = lock[x]
    BY <1>1, <1>7 DEF ObserverAdvances
  <2>. QED
    BY <1>4, <2>1, <2>2, <2>3
<1>8. ASSUME NEW s \in Sweepers, SweepSelectsStranded(s) \/ SweepSelectsEnded(s) PROVE Goal
  <2>1. PICK S : /\ UNCHANGED row
                 /\ lock'[d] = IF d \in S THEN s ELSE lock[d]
                 /\ work'[d] = IF d \in S THEN Seen(s, d) ELSE work[d]
                 /\ d \in S => lock[d] \in {"none", s}
                 /\ d \in S => lock[d] = s \/ Open(row[d])
    <3>1. CASE SweepSelectsStranded(s)
      <4>. DEFINE S == {x \in Selectable(s) : Open(row[x]) /\ row[x].lastJob = NoJob}
      <4>1. Select(s, S) /\ UNCHANGED row
        BY <3>1 DEF SweepSelectsStranded
      <4>2. d \in S => lock[d] \in {"none", s} /\ Open(row[d])
        BY DEF Selectable
      <4>. HIDE DEF S
      <4>. QED
        BY <4>1, <4>2 DEF Select
    <3>2. CASE SweepSelectsEnded(s)
      <4>. DEFINE S == {x \in Selectable(s) : RoundIsOver(Seen(s, x))}
      <4>1. Select(s, S) /\ UNCHANGED row
        BY <3>2 DEF SweepSelectsEnded
      <4>2. d \in S => lock[d] \in {"none", s} /\ (lock[d] = s \/ Open(row[d]))
        BY DEF Selectable, RoundIsOver, Seen
      <4>. HIDE DEF S
      <4>. QED
        BY <4>1, <4>2 DEF Select
    <3>. QED
      BY <1>8, <3>1, <3>2
  <2>. QED
    BY <1>1, <2>1 DEF Seen, Open, OpenStatuses
<1>9. ASSUME NEW s \in Sweepers, SweepEnds(s) \/ SweepFails(s) PROVE Goal
  BY <1>9 DEF SweepEnds, SweepFails, SweepReleases
<1>10. ASSUME NEW s \in Sweepers, NEW e \in Decisions, NEW r, NEW counts, Treated(s, e, r, counts),
              e \in todo[s], r.status # "absent"
       PROVE  Goal
  <2>1. Open(row[e]) /\ row[e].status # "absent"
    BY <1>10 DEF IInv, Held, Selected, Open, OpenStatuses
  <2>2. /\ UNCHANGED row /\ work' = [work EXCEPT ![e] = r]
        /\ \A x \in Decisions \ {e} : lock'[x] = lock[x]
    BY <1>10 DEF Treated
  <2>. QED
    BY <1>4, <1>10, <2>1, <2>2
<1>11. ASSUME NEW s \in Sweepers, NEW e \in Decisions,
              SweepClosesStranded(s, e) \/ SweepRecovers(s, e) \/ SweepReconciles(s, e)
       PROVE  Goal
  <2>1. CASE SweepClosesStranded(s, e)
    <3>1. PICK reason \in Reasons :
            Treated(s, e, Closed(work[e], "abandoned", reason), FALSE)
      BY <2>1 DEF SweepClosesStranded, Reasons
    <3>2. Closed(work[e], "abandoned", reason).status # "absent"
      BY <1>1, ClosedRow DEF ClosedStatuses
    <3>. QED
      BY <1>10, <2>1, <3>1, <3>2 DEF SweepClosesStranded
  <2>2. CASE SweepRecovers(s, e) \/ SweepReconciles(s, e)
    <3>1. PICK r : Treated(s, e, r, TRUE) /\ Becomes(e, r)
      BY <2>2, SweepRecovery, SweepJudges
    <3>2. e \in todo[s]
      BY <2>2 DEF SweepRecovers, SweepReconciles
    <3>. QED
      BY <1>10, <3>1, <3>2 DEF Becomes
  <2>. QED
    BY <1>11, <2>1, <2>2
<1>12. Goal
  <2>1. CASE UNCHANGED vars
    BY <1>2, <2>1 DEF vars, decisionVars
  <2>2. ASSUME NEW e \in Decisions,
               \/ Request(e) \/ RequestFails(e) \/ CancelReads(e) \/ CancelWrites(e)
               \/ TransactionCommits(e) \/ TransactionFails(e)
        PROVE  Goal
    BY <1>2, <1>3, <1>5, <1>6, <2>2 DEF Request, RequestCommits, CancelReads, decisionVars
  <2>3. ASSUME NEW j \in DOMAIN jobs, JobGathers(j) \/ JobEnds(j) PROVE Goal
    BY <1>2, <2>3 DEF JobGathers, JobEnds, decisionVars
  <2>4. ASSUME NEW j \in told, Observer(j) \/ NotificationLost(j) PROVE Goal
    BY <1>2, <1>7, <2>4 DEF Observer, ObserverFindsNothing, NotificationLost, decisionVars
  <2>5. ASSUME NEW s \in Sweepers, Sweep(s) \/ SweepFails(s) PROVE Goal
    BY <1>8, <1>9, <1>11, <2>5 DEF Sweep
  <2>. QED
    BY <2>1, <2>2, <2>3, <2>4, <2>5 DEF Next
<1>. QED
  BY <1>12

LEMMA NextUnseen == IInv /\ [Next]_vars => Unseen'
<1>1. SUFFICES ASSUME IInv, [Next]_vars, NEW d \in Decisions, row'[d].status = "absent"
      PROVE  lock'[d] = "none" /\ cancel'[d] = "none"
  BY DEF Unseen
<1>2. row[d].status = "absent" /\ lock[d] = "none" /\ cancel[d] = "none"
  BY <1>1, HowRowsChange, CommittedRow DEF IInv, Held, Unseen, Locked
<1>3. lock'[d] = "none"
  BY <1>1, <1>2, HowLocksChange
<1>4. cancel'[d] = "none"
  <2>1. CASE UNCHANGED cancel
    BY <1>2, <2>1
  <2>2. CASE \E e \in Decisions : CancelReads(e) \/ CancelWrites(e)
    <3>1. PICK e \in Decisions : CancelReads(e) \/ CancelWrites(e)
      BY <2>2
    <3>2. e # d
      BY <1>2, <3>1 DEF CancelReads, CancelWrites
    <3>3. cancel'[d] = cancel[d]
      BY <1>1, <3>1, <3>2 DEF CancelReads, CancelWrites, IInv, Tables, TypeOK
    <3>. QED
      BY <1>2, <3>3
  <2>. QED
    BY <1>1, <2>1, <2>2
     DEF Next, vars, requestVars, Request, Observer, Sweep, RequestReads, RequestCreates,
         RequestEnqueues, RequestCommits, RequestFails, TransactionCommits, TransactionFails,
         JobGathers, JobEnds, ObserverFindsNothing, ObserverAdvances, NotificationLost,
         SweepSelectsStranded, SweepSelectsEnded, SweepEnds, SweepClosesStranded, SweepRecovers,
         SweepReconciles, Treated, SweepFails, SweepReleases
<1>. QED
  BY <1>3, <1>4

LEMMA NextLocked == IInv /\ [Next]_vars => Locked'
<1>1. SUFFICES ASSUME IInv, [Next]_vars, NEW d \in Decisions, lock'[d] # "none"
      PROVE  work'[d].status # "absent" /\ (Open(work'[d]) => Open(row'[d]))
  BY DEF Locked, Open
<1>2. CASE lock'[d] = lock[d] /\ work'[d] = work[d]
  <2>1. row'[d] = row[d]
    BY <1>1, <1>2, HowRowsChange, CommittedRow DEF IInv, Held, Unseen
  <2>. QED
    BY <1>1, <1>2, <2>1 DEF IInv, Held, Locked
<1>. QED
  BY <1>1, <1>2, HowLocksChange DEF Open

\* What a sweep has still to treat stays as it is, or is what it now selects.
LEMMA HowSelectionsChange ==
  ASSUME IInv, [Next]_vars, NEW s \in Sweepers, NEW d \in todo'[s]
  PROVE  \/ /\ d \in todo[s] /\ phase'[s] = phase[s]
            /\ lock'[d] = lock[d] /\ row'[d] = row[d] /\ work'[d] = work[d]
         \/ /\ d \in Decisions /\ lock'[d] = s /\ row'[d] = row[d] /\ Open(row[d])
            /\ phase'[s] = "reconcile" => work'[d].lastJob \in DOMAIN jobs
<1>. DEFINE Goal == \/ /\ d \in todo[s] /\ phase'[s] = phase[s]
                       /\ lock'[d] = lock[d] /\ row'[d] = row[d] /\ work'[d] = work[d]
                    \/ /\ d \in Decisions /\ lock'[d] = s /\ row'[d] = row[d] /\ Open(row[d])
                       /\ phase'[s] = "reconcile" => work'[d].lastJob \in DOMAIN jobs
<1>1. /\ row \in [Decisions -> RowType] /\ work \in [Decisions -> RowType]
      /\ lock \in [Decisions -> Sweepers \cup {"none", "observer", "cancel"}]
      /\ todo \in [Sweepers -> SUBSET Decisions]
      /\ phase \in [Sweepers -> {"idle", "recover", "reconcile"}]
      /\ s \notin {"none", "observer", "cancel"}
  BY SweeperNames DEF IInv, Tables, TypeOK
<1>2. d \in todo[s] => d \in Decisions /\ lock[d] = s /\ Open(row[d]) /\ request[d] = "over"
  BY <1>1 DEF IInv, Held, Private, Selected, Open, OpenStatuses
<1>3. CASE UNCHANGED <<row, work, lock, phase, todo>>
  BY <1>3
<1>4. ASSUME NEW e \in Decisions,
             \/ RequestReads(e) \/ RequestCreates(e) \/ RequestEnqueues(e)
             \/ RequestCommits(e) \/ RequestFails(e)
      PROVE  Goal
  <2>1. UNCHANGED <<lock, phase, todo>> /\ request[e] # "over"
    BY <1>4 DEF RequestReads, RequestCreates, RequestEnqueues, RequestCommits, RequestFails,
                sweepVars
  <2>2. e # d => row'[d] = row[d] /\ work'[d] = work[d]
    BY <1>1, <1>2, <1>4, <2>1
       DEF RequestReads, RequestCreates, RequestEnqueues, RequestCommits, RequestFails
  <2>. QED
    BY <1>2, <2>1, <2>2
<1>5. ASSUME NEW e \in Decisions,
             \/ CancelReads(e) \/ CancelWrites(e) \/ TransactionCommits(e) \/ TransactionFails(e)
      PROVE  Goal
  <2>1. UNCHANGED <<phase, todo>>
    BY <1>5 DEF CancelReads, CancelWrites, TransactionCommits, TransactionFails, sweepVars
  <2>2. e # d => lock'[d] = lock[d] /\ row'[d] = row[d] /\ work'[d] = work[d]
    BY <1>1, <1>2, <1>5, <2>1 DEF CancelReads, CancelWrites, TransactionCommits, TransactionFails,
                                  decisionVars
  <2>3. CASE CancelReads(e)
    BY <1>3, <2>1, <2>3 DEF CancelReads, decisionVars
  <2>4. CASE ~CancelReads(e)
    <3>1. lock[e] \in {"none", "observer", "cancel"}
      BY <1>5, <2>4 DEF CancelWrites, TransactionCommits, TransactionFails, HeldByOne
    <3>. QED
      BY <1>1, <1>2, <2>1, <2>2, <3>1
  <2>. QED
    BY <2>3, <2>4
<1>6. ASSUME NEW j \in told, ObserverAdvances(j) PROVE Goal
  <2>1. /\ UNCHANGED <<row, phase, todo>> /\ lock[j[1]] = "none"
        /\ lock' = [lock EXCEPT ![j[1]] = "observer"]
        /\ \E r : work' = [work EXCEPT ![j[1]] = r]
    BY <1>6 DEF ObserverAdvances, sweepVars
  <2>. QED
    BY <1>1, <1>2, <2>1
<1>7. ASSUME NEW t \in Sweepers, SweepSelectsStranded(t) PROVE Goal
  <2>. DEFINE S == {x \in Selectable(t) : Open(row[x]) /\ row[x].lastJob = NoJob}
  <2>1. /\ Select(t, S) /\ UNCHANGED row
        /\ phase' = [phase EXCEPT ![t] = "recover"]
    BY <1>7 DEF SweepSelectsStranded
  <2>2. \A x \in S : x \in Decisions /\ lock[x] \in {"none", t} /\ Open(row[x])
    BY DEF Selectable
  <2>. HIDE DEF S
  <2>. QED
    BY <1>1, <1>2, <2>1, <2>2 DEF Select
<1>8. ASSUME NEW t \in Sweepers, SweepSelectsEnded(t) PROVE Goal
  <2>. DEFINE S == {x \in Selectable(t) : RoundIsOver(Seen(t, x))}
  <2>1. /\ Select(t, S) /\ UNCHANGED row
        /\ phase' = [phase EXCEPT ![t] = "reconcile"]
    BY <1>8 DEF SweepSelectsEnded
  <2>2. ASSUME NEW x \in S
        PROVE  /\ x \in Decisions /\ lock[x] \in {"none", t} /\ Open(row[x])
               /\ Seen(t, x).lastJob \in DOMAIN jobs
    <3>1. x \in Decisions /\ lock[x] \in {"none", t} /\ RoundIsOver(Seen(t, x))
      BY DEF Selectable
    <3>2. Open(Seen(t, x)) /\ Seen(t, x).lastJob # NoJob
      BY <3>1 DEF RoundIsOver
    <3>3. Seen(t, x).lastJob \in DOMAIN jobs \cup {NoJob}
      BY <3>1 DEF Seen, IInv, Named
    <3>4. Open(row[x])
      BY <3>1, <3>2, SweeperNames DEF Seen, IInv, Held, Locked
    <3>. QED
      BY <3>1, <3>2, <3>3, <3>4
  <2>. HIDE DEF S
  <2>. QED
    BY <1>1, <1>2, <2>1, <2>2 DEF Select
<1>9. ASSUME NEW t \in Sweepers, SweepEnds(t) \/ SweepFails(t) PROVE Goal
  <2>1. /\ \A x \in Decisions : lock[x] # t => row'[x] = row[x]
        /\ SweepReleases(t)
    BY <1>1, <1>9 DEF SweepEnds, SweepFails
  <2>. QED
    BY <1>1, <1>2, <2>1 DEF SweepReleases
<1>10. ASSUME NEW t \in Sweepers, NEW e \in Decisions,
              SweepClosesStranded(t, e) \/ SweepRecovers(t, e) \/ SweepReconciles(t, e)
       PROVE  Goal
  <2>1. e \in todo[t] /\ lock[e] = t
    BY <1>10 DEF SweepClosesStranded, SweepRecovers, SweepReconciles, IInv, Held, Selected
  <2>2. \E r : \E counts \in BOOLEAN : Treated(t, e, r, counts)
    <3>1. CASE SweepClosesStranded(t, e)
      BY <3>1 DEF SweepClosesStranded
    <3>2. CASE SweepRecovers(t, e)
      BY <3>2 DEF SweepRecovers
    <3>3. CASE SweepReconciles(t, e)
      BY <3>3 DEF SweepReconciles
    <3>. QED
      BY <1>10, <3>1, <3>2, <3>3
  <2>. QED
    BY <1>1, <1>2, <2>1, <2>2 DEF Treated
<1>11. Goal
  <2>1. CASE UNCHANGED vars
    BY <1>3, <2>1 DEF vars, decisionVars, sweepVars
  <2>2. ASSUME NEW e \in Decisions,
               \/ Request(e) \/ RequestFails(e) \/ CancelReads(e) \/ CancelWrites(e)
               \/ TransactionCommits(e) \/ TransactionFails(e)
        PROVE  Goal
    BY <1>4, <1>5, <2>2 DEF Request
  <2>3. ASSUME NEW j \in DOMAIN jobs, JobGathers(j) \/ JobEnds(j) PROVE Goal
    BY <1>3, <2>3 DEF JobGathers, JobEnds, decisionVars, sweepVars
  <2>4. ASSUME NEW j \in told, Observer(j) \/ NotificationLost(j) PROVE Goal
    BY <1>3, <1>6, <2>4 DEF Observer, ObserverFindsNothing, NotificationLost, decisionVars,
                            sweepVars
  <2>5. ASSUME NEW t \in Sweepers, Sweep(t) \/ SweepFails(t) PROVE Goal
    BY <1>7, <1>8, <1>9, <1>10, <2>5 DEF Sweep
  <2>. QED
    BY <2>1, <2>2, <2>3, <2>4, <2>5 DEF Next
<1>. QED
  BY <1>11

LEMMA NextSelected == IInv /\ [Next]_vars => Selected'
<1>1. SUFFICES ASSUME IInv, [Next]_vars, NEW s \in Sweepers, NEW d \in todo'[s]
      PROVE  /\ lock'[d] = s /\ Open(row'[d])
             /\ phase'[s] = "reconcile" => work'[d].lastJob \in DOMAIN jobs'
  BY DEF Selected, Open
<1>2. DOMAIN jobs \subseteq DOMAIN jobs'
  BY <1>1, NextJobsGrow DEF JobsGrow
<1>3. d \in todo[s] =>
        /\ lock[d] = s /\ Open(row[d])
        /\ phase[s] = "reconcile" => work[d].lastJob \in DOMAIN jobs
  BY <1>1 DEF IInv, Held, Selected
<1>. QED
  BY <1>1, <1>2, <1>3, HowSelectionsChange DEF Open

---------------------------------------------------------------------------
(* One open decision of a company *)

\* Only the commit of its request opens a decision.
LEMMA HowDecisionsOpen ==
  ASSUME IInv, [Next]_vars, NEW d \in Decisions, Open(row'[d])
  PROVE  Open(row[d]) \/ (RequestCommits(d) /\ InTransaction(d))
  BY HowRowsChange, CommittedRow DEF IInv, Held, Locked, InTransaction, Open

\* The insert of a request finds its company free.
LEMMA HowTransactionsBegin ==
  ASSUME IInv, [Next]_vars, NEW d \in Decisions,
         request'[d] \in {"created", "enqueued"}, ~InTransaction(d)
  PROVE  /\ \A e \in Decisions \ {d} :
              Company[e] = Company[d] => ~InTransaction(e) /\ ~Open(row[e])
         /\ UNCHANGED row /\ \A e \in Decisions \ {d} : request'[e] = request[e]
<1>1. PICK e \in Decisions :
        \/ RequestReads(e) \/ RequestCreates(e) \/ RequestEnqueues(e)
        \/ RequestCommits(e) \/ RequestFails(e)
  <2>1. request' # request
    BY DEF InTransaction
  <2>. QED
    BY <2>1
     DEF Next, vars, requestVars, Request, Observer, Sweep, CancelReads, CancelWrites,
         TransactionCommits, TransactionFails, JobGathers, JobEnds, ObserverFindsNothing,
         ObserverAdvances, NotificationLost, SweepSelectsStranded, SweepSelectsEnded, SweepEnds,
         SweepClosesStranded, SweepRecovers, SweepReconciles, Treated, SweepFails, SweepReleases
<1>2. request \in [Decisions -> {"new", "creating", "created", "enqueued", "over"}]
  BY DEF IInv, Tables, TypeOK
<1>3. e = d /\ RequestCreates(d) /\ OneOpenIndex(d)
  BY <1>1, <1>2 DEF InTransaction, RequestReads, RequestCreates, RequestEnqueues, RequestCommits,
                    RequestFails
<1>. QED
  BY <1>2, <1>3 DEF RequestCreates, OneOpenIndex

LEMMA NextExclusive == IInv /\ [Next]_vars => Exclusive'
<1>1. SUFFICES ASSUME IInv, [Next]_vars,
                      NEW d \in Decisions, request'[d] \in {"created", "enqueued"},
                      NEW e \in Decisions \ {d}, Company[e] = Company[d]
      PROVE  request'[e] \notin {"created", "enqueued"} /\ ~Open(row'[e])
  BY DEF Exclusive, InTransaction, Open
<1>2. CASE InTransaction(d)
  <2>1. ~InTransaction(e) /\ ~Open(row[e])
    BY <1>1, <1>2 DEF IInv, Exclusive
  <2>2. ~Open(row'[e])
    BY <1>1, <2>1, HowDecisionsOpen
  <2>3. request'[e] \notin {"created", "enqueued"}
    BY <1>1, <1>2, <2>1, HowTransactionsBegin
  <2>. QED
    BY <2>2, <2>3
<1>3. CASE ~InTransaction(d)
  BY <1>1, <1>3, HowTransactionsBegin DEF InTransaction, Open
<1>. QED
  BY <1>2, <1>3

LEMMA NextOneOpen == IInv /\ [Next]_vars => OneOpenDecisionPerCompany'
<1>1. SUFFICES ASSUME IInv, [Next]_vars, NEW d \in Decisions, NEW e \in Decisions,
                      Open(row'[d]), Open(row'[e]),
                      Company[d] = Company[e], Company[d] # NoCompany, d # e
      PROVE  FALSE
  BY DEF OneOpenDecisionPerCompany, Open
<1>2. ASSUME NEW x \in Decisions, NEW y \in Decisions, x # y, Company[x] = Company[y],
             Open(row'[y]), RequestCommits(x), InTransaction(x)
      PROVE  FALSE
  BY <1>1, <1>2, CommittedRow DEF IInv, Exclusive, Open
<1>. QED
  BY <1>1, <1>2, HowDecisionsOpen DEF IInv, OneOpenDecisionPerCompany

---------------------------------------------------------------------------
(* The invariant *)

LEMMA InitIInv == Init => IInv
<1>1. SUFFICES ASSUME Init PROVE IInv
  OBVIOUS
<1>2. PICK D \in SUBSET Legacy : jobs = [j \in {<<d, 0, 1>> : d \in D} |-> NewJob(j[1])]
  BY <1>1 DEF Init
<1>3. /\ DOMAIN jobs = {<<d, 0, 1>> : d \in D} /\ DOMAIN jobs \subseteq Jobs
      /\ jobs \in [DOMAIN jobs -> JobStates]
  <2>1. DOMAIN jobs = {<<d, 0, 1>> : d \in D}
    BY <1>2
  <2>2. DOMAIN jobs \subseteq Jobs
    BY <1>2, <2>1, EscalationAssumption DEF Jobs
  <2>3. ASSUME NEW d \in D PROVE NewJob(d) \in JobStates
    BY <1>1, <1>2, <2>3, EscalationAssumption DEF Init, NewJob, JobStates
  <2>. QED
    BY <1>2, <2>1, <2>2, <2>3
<1>4. IsFiniteSet(DOMAIN jobs)
  <2>1. IsFiniteSet(D)
    BY <1>2, EscalationAssumption, FS_Subset
  <2>. DEFINE f == [d \in D |-> <<d, 0, 1>>]
  <2>2. f \in Surjection(D, DOMAIN jobs)
    BY <1>3 DEF Surjection
  <2>. QED
    BY <2>1, <2>2, FS_Surjection
<1>5. ASSUME NEW d \in Decisions, NEW r \in InitialRows(d), r.lastJob \in DOMAIN jobs \cup {NoJob}
      PROVE  /\ Sound(r, jobs) /\ r \in RowType
             /\ d \in Legacy => Open(r)
             /\ d \notin Legacy => r.status = "absent"
  <2>1. r.lastJob \in Jobs \cup {NoJob}
    BY <1>3, <1>5
  <2>2. CASE d \in Legacy
    <3>1. /\ r.status \in {"research_required", "queued"} /\ r.reason = "none" /\ r.round = 0
          /\ r.before = NoBaseline
          /\ r = [status |-> r.status, reason |-> r.reason, round |-> r.round,
                  lastJob |-> r.lastJob, before |-> r.before]
      BY <1>5, <2>2 DEF InitialRows, LegacyRows, Row
    <3>. QED
      BY <1>5, <2>1, <2>2, <3>1, EscalationAssumption
         DEF Sound, RowType, Open, OpenStatuses, NoBaseline
  <2>3. CASE d \notin Legacy
    <3>1. r = Row("absent", NoBaseline)
      BY <1>5, <2>3 DEF InitialRows
    <3>. QED
      BY <1>5, <2>3, <3>1, EscalationAssumption DEF Sound, RowType, Row, NoBaseline
  <2>. QED
    BY <2>2, <2>3
<1>6. \A d \in Decisions : row[d] \in InitialRows(d) /\ row[d].lastJob \in DOMAIN jobs \cup {NoJob}
  BY <1>1 DEF Init
<1>7. /\ AllSound(jobs)
      /\ \A d \in Legacy : Open(row[d])
      /\ \A d \in Decisions \ Legacy : row[d].status = "absent"
  <2>1. row = [d \in Decisions |-> row[d]] /\ work = row
    BY <1>1 DEF Init
  <2>. QED
    BY <1>5, <1>6, <2>1, EscalationAssumption DEF AllSound
<1>8. Control
  BY <1>1, EscalationAssumption DEF Init, Control
<1>9. Tables
  BY <1>3, <1>4, <1>7, <1>8 DEF Tables, TypeOK, Control, AllSound, JobStates
<1>10. Named /\ Findings
  BY <1>7 DEF AllSound, Sound, Named, Findings, Rests
<1>11. Held
  BY <1>1, <1>7 DEF Init, Held, Private, Unseen, Locked, Selected, Open, OpenStatuses
<1>12. Exclusive
  BY <1>1 DEF Init, Exclusive, InTransaction
<1>13. OneOpenDecisionPerCompany
  BY <1>7, EscalationAssumption DEF OneOpenDecisionPerCompany, Open, OpenStatuses
<1>. QED
  BY <1>9, <1>10, <1>11, <1>12, <1>13 DEF IInv

\* Every step keeps every conjunct of IInv.
LEMMA NextIInv == IInv /\ [Next]_vars => IInv'
<1>1. SUFFICES ASSUME IInv, [Next]_vars PROVE IInv'
  OBVIOUS
<1>2. Named' /\ Findings'
  BY <1>1, NextSound DEF AllSound, Sound, Named, Findings, Rests
<1>3. Held'
  BY <1>1, NextPrivate, NextUnseen, NextLocked, NextSelected DEF Held
<1>. QED
  BY <1>1, <1>2, <1>3, NextTables, NextExclusive, NextOneOpen DEF IInv

\* The inductive invariant holds in every reachable state.
THEOREM EscalationInvariant == Spec => []IInv
  BY InitIInv, NextIInv, PTL DEF Spec

\* Every variable has its type: no decision and no job is ever in a round
\* beyond v3_escalation_max_rounds, for any limit.
THEOREM TypeCorrect == Spec => []TypeOK
<1>1. IInv => TypeOK
  BY DEF IInv, Tables
<1>. QED
  BY <1>1, EscalationInvariant, PTL

\* A company never has two open decisions, however the transactions of
\* requests, cancels, observers and sweeps interleave and fail.
THEOREM OneOpenDecision == Spec => []OneOpenDecisionPerCompany
<1>1. IInv => OneOpenDecisionPerCompany
  BY DEF IInv
<1>. QED
  BY <1>1, EscalationInvariant, PTL

\* A decision is closed with a finding only for a round whose job completed
\* and whose baseline was measured (decide_next_state).
THEOREM FindingsAreEarned == Spec => []FindingsRestOnACompletedRound
<1>1. IInv => FindingsRestOnACompletedRound
  BY DEF IInv, Findings, Rests, FindingsRestOnACompletedRound
<1>. QED
  BY <1>1, EscalationInvariant, PTL

---------------------------------------------------------------------------
(* Closed decisions *)

\* A job is started only for a decision that is not closed.
LEMMA HowJobsStart ==
  ASSUME IInv, [Next]_vars, NEW j \in DOMAIN jobs' \ DOMAIN jobs
  PROVE  j[1] \in Decisions /\ row[j[1]].status \notin ClosedStatuses
<1>1. ASSUME NEW d \in Decisions, NEW k \in 0 .. MaxRounds - 1, Enqueue(d, k)
      PROVE  j[1] = d
  <2>1. Tables
    BY DEF IInv
  <2>2. DOMAIN jobs' = DOMAIN jobs \cup {RoundJob(d, k)} /\ RoundJob(d, k)[1] = d
    BY <1>1, <2>1, EnqueueAdds, RoundJobIsAJob
  <2>. QED
    BY <2>2
<1>2. ASSUME NEW d, NEW r, Becomes(d, r)
      PROVE  d \in Decisions /\ j[1] = d /\ row[d].status \notin ClosedStatuses
  BY <1>1, <1>2 DEF Becomes, Open, OpenStatuses, ClosedStatuses, RowType
<1>3. CASE \E d \in Decisions : RequestEnqueues(d)
  <2>1. PICK d \in Decisions : RequestEnqueues(d)
    BY <1>3
  <2>2. j[1] = d
    BY <1>1, <2>1, EscalationAssumption DEF RequestEnqueues
  <2>3. row[d].status = "absent"
    BY <2>1 DEF RequestEnqueues, IInv, Held, Private
  <2>. QED
    BY <2>2, <2>3 DEF ClosedStatuses
<1>4. CASE \E i \in told : ObserverAdvances(i)
  BY <1>2, <1>4, ObserverJudges
<1>5. CASE \E s \in Sweepers, d \in Decisions : SweepRecovers(s, d) \/ SweepReconciles(s, d)
  BY <1>2, <1>5, SweepRecovery, SweepJudges
<1>6. CASE DOMAIN jobs' = DOMAIN jobs
  BY <1>6
<1>7. (\E d \in Decisions : CancelWrites(d)) \/ (\E i \in DOMAIN jobs : JobGathers(i) \/ JobEnds(i))
      => DOMAIN jobs' = DOMAIN jobs
  BY DEF CancelWrites, AskToStop, JobGathers, JobEnds
<1>. QED
  BY <1>3, <1>4, <1>5, <1>6, <1>7
     DEF Next, vars, Request, Observer, Sweep, RequestReads, RequestCreates, RequestCommits,
         RequestFails, CancelReads, TransactionCommits, TransactionFails,
         ObserverFindsNothing, NotificationLost, SweepSelectsStranded, SweepSelectsEnded,
         SweepEnds, SweepClosesStranded, SweepFails, SweepReleases

\* The request of a decision that is there is over.
LEMMA OpenIsOver ==
  ASSUME IInv, NEW d \in Decisions, row[d].status # "absent"
  PROVE  request[d] = "over"
  BY DEF IInv, Held, Private

\* Who holds the lock of a closed decision writes a cancel.
Overruled ==
  \A d \in Decisions :
    row[d].status \in ClosedStatuses /\ lock[d] # "none" =>
      /\ lock[d] = "cancel"
      /\ work[d] = Closed(row[d], "abandoned", "operator_cancelled")

\* Nobody but a cancel locks, or drafts, a closed decision.
LEMMA HowClosedAreLocked ==
  ASSUME IInv, [Next]_vars, NEW d \in Decisions, row[d].status \in ClosedStatuses
  PROVE  \/ lock'[d] = "none"
         \/ lock'[d] = lock[d] /\ work'[d] = work[d]
         \/ CancelWrites(d)
<1>. DEFINE Goal == \/ lock'[d] = "none"
                    \/ lock'[d] = lock[d] /\ work'[d] = work[d]
                    \/ CancelWrites(d)
<1>1. /\ work \in [Decisions -> RowType]
      /\ lock \in [Decisions -> Sweepers \cup {"none", "observer", "cancel"}]
      /\ ~Open(row[d]) /\ row[d].status # "absent" /\ request[d] = "over"
  BY OpenIsOver DEF IInv, Tables, TypeOK, Open, OpenStatuses, ClosedStatuses
<1>2. CASE UNCHANGED <<work, lock>>
  BY <1>2
<1>3. ASSUME NEW e \in Decisions,
             \/ RequestReads(e) \/ RequestCreates(e) \/ RequestEnqueues(e)
             \/ RequestCommits(e) \/ RequestFails(e)
      PROVE  Goal
  <2>1. UNCHANGED lock /\ request[e] # "over"
    BY <1>3 DEF RequestReads, RequestCreates, RequestEnqueues, RequestCommits, RequestFails
  <2>2. e # d
    BY <1>1, <2>1
  <2>. QED
    BY <1>1, <1>3, <2>1, <2>2
       DEF RequestReads, RequestCreates, RequestEnqueues, RequestCommits, RequestFails
<1>4. ASSUME NEW e \in Decisions,
             CancelReads(e) \/ CancelWrites(e) \/ TransactionCommits(e) \/ TransactionFails(e)
      PROVE  Goal
  BY <1>1, <1>4 DEF CancelReads, CancelWrites, TransactionCommits, TransactionFails, decisionVars
<1>5. ASSUME NEW j \in told, ObserverAdvances(j) PROVE Goal
  <2>1. j[1] # d
    BY <1>1, <1>5 DEF ObserverAdvances, Advances
  <2>. QED
    BY <1>1, <1>5, <2>1 DEF ObserverAdvances
<1>6. ASSUME NEW s \in Sweepers, SweepSelectsStranded(s) \/ SweepSelectsEnded(s) PROVE Goal
  <2>1. PICK S : /\ Select(s, S)
                 /\ d \in S => lock[d] = s \/ Open(row[d])
    <3>1. CASE SweepSelectsStranded(s)
      BY <3>1 DEF SweepSelectsStranded
    <3>2. CASE SweepSelectsEnded(s)
      <4>. DEFINE S == {x \in Selectable(s) : RoundIsOver(Seen(s, x))}
      <4>1. Select(s, S) /\ (d \in S => lock[d] = s \/ Open(row[d]))
        BY <3>2 DEF SweepSelectsEnded, Selectable, RoundIsOver, Seen
      <4>. HIDE DEF S
      <4>. QED
        BY <4>1
    <3>. QED
      BY <1>6, <3>1, <3>2
  <2>. QED
    BY <1>1, <2>1 DEF Select, Seen
<1>7. ASSUME NEW s \in Sweepers, SweepEnds(s) \/ SweepFails(s) PROVE Goal
  BY <1>7 DEF SweepEnds, SweepFails, SweepReleases
<1>8. ASSUME NEW s \in Sweepers, NEW e \in Decisions,
             SweepClosesStranded(s, e) \/ SweepRecovers(s, e) \/ SweepReconciles(s, e)
      PROVE  Goal
  <2>1. e \in todo[s]
    BY <1>8 DEF SweepClosesStranded, SweepRecovers, SweepReconciles
  <2>2. e # d
    BY <1>1, <2>1 DEF IInv, Held, Selected
  <2>3. UNCHANGED lock /\ \E r : work' = [work EXCEPT ![e] = r]
    BY <1>8 DEF SweepClosesStranded, SweepRecovers, SweepReconciles, Treated
  <2>. QED
    BY <1>1, <2>2, <2>3
<1>9. Goal
  <2>1. CASE UNCHANGED vars
    BY <1>2, <2>1 DEF vars, decisionVars
  <2>2. ASSUME NEW e \in Decisions,
               \/ Request(e) \/ RequestFails(e) \/ CancelReads(e) \/ CancelWrites(e)
               \/ TransactionCommits(e) \/ TransactionFails(e)
        PROVE  Goal
    BY <1>3, <1>4, <2>2 DEF Request
  <2>3. ASSUME NEW j \in DOMAIN jobs, JobGathers(j) \/ JobEnds(j) PROVE Goal
    BY <1>2, <2>3 DEF JobGathers, JobEnds, decisionVars
  <2>4. ASSUME NEW j \in told, Observer(j) \/ NotificationLost(j) PROVE Goal
    BY <1>2, <1>5, <2>4 DEF Observer, ObserverFindsNothing, NotificationLost, decisionVars
  <2>5. ASSUME NEW s \in Sweepers, Sweep(s) \/ SweepFails(s) PROVE Goal
    BY <1>6, <1>7, <1>8, <2>5 DEF Sweep
  <2>. QED
    BY <2>1, <2>2, <2>3, <2>4, <2>5 DEF Next
<1>. QED
  BY <1>9

\* Overruled is kept: a lock is taken of an open decision, or by a cancel.
LEMMA NextOverruled ==
  ASSUME IInv, Overruled, [Next]_vars
  PROVE  Overruled'
<1>1. SUFFICES ASSUME NEW d \in Decisions, row'[d].status \in ClosedStatuses,
                      lock'[d] # "none"
      PROVE  /\ lock'[d] = "cancel"
             /\ work'[d] = Closed(row'[d], "abandoned", "operator_cancelled")
  BY DEF Overruled, Closed
<1>2. row'[d] = row[d]
  <2>1. CASE RequestCommits(d)
    BY <1>1, <2>1, CommittedRow DEF RequestCommits, IInv, Held, Unseen
  <2>. QED
    BY <1>1, <2>1, HowRowsChange
<1>3. CASE CancelWrites(d)
  BY <1>2, <1>3 DEF CancelWrites, Closed, IInv, Tables, TypeOK
<1>4. CASE lock'[d] = lock[d] /\ work'[d] = work[d]
  BY <1>1, <1>2, <1>4 DEF Overruled
<1>. QED
  BY <1>1, <1>2, <1>3, <1>4, HowClosedAreLocked

\* A closed decision is never reopened, judged again or made to buy another
\* job, whoever notices the end of its last one, and however late; only a
\* cancel that read it earlier replaces its status and reason.
THEOREM ClosedStayClosed == Spec => ClosedDecisionsStayClosed
<1>1. ASSUME IInv, Overruled, [Next]_vars, NEW d \in Decisions,
             row[d].status \in ClosedStatuses
      PROVE  /\ \/ row'[d] = row[d]
                \/ /\ lock[d] = "cancel"
                   /\ row'[d] = Closed(row[d], "abandoned", "operator_cancelled")
             /\ \A j \in DOMAIN jobs' \ DOMAIN jobs : j[1] # d
  <2>1. ~RequestCommits(d)
    BY <1>1, CommittedRow DEF ClosedStatuses
  <2>2. \/ row'[d] = row[d]
        \/ /\ lock[d] = "cancel"
           /\ row'[d] = Closed(row[d], "abandoned", "operator_cancelled")
    BY <1>1, <2>1, HowRowsChange DEF Overruled
  <2>. QED
    BY <1>1, <2>2, HowJobsStart
<1>2. IInv /\ Overruled /\ [Next]_vars =>
        [\A d \in Decisions :
           row[d].status \in ClosedStatuses =>
             /\ \/ row'[d] = row[d]
                \/ /\ lock[d] = "cancel"
                   /\ row'[d] = Closed(row[d], "abandoned", "operator_cancelled")
             /\ \A j \in DOMAIN jobs' \ DOMAIN jobs : j[1] # d]_vars
  BY <1>1
<1>3. Init => Overruled
  BY DEF Init, Overruled
<1>. QED
  BY <1>2, <1>3, NextOverruled, EscalationInvariant, PTL DEF Spec, ClosedDecisionsStayClosed

---------------------------------------------------------------------------
(* DecisionLife is implemented.  The draft in a transaction is what one     *)
(* lawful move makes of the committed row, and every job has its place on   *)
(* the ladder of rounds.                                                    *)

\* A job of round k of d completed, among the jobs js.
Done(js, d, k) == \E j \in DOMAIN js : j[1] = d /\ j[2] = k /\ js[j].status = "completed"

\* The job a row of d names is the job of its round.
NamesRound(d, r) == r.lastJob # NoJob => r.lastJob[1] = d /\ r.lastJob[2] = r.round

EarnedBy(js, d, r) == Open(r) /\ Done(js, d, r.round)

\* The row w is what one transaction may make of the row r.
Lawful(js, d, r, w) ==
  \/ EarnedBy(js, d, r) /\ w.status = "reanalysis" /\ w.round = r.round + 1
  \/ /\ w.round = r.round
     /\ \/ w.status = r.status
        \/ w.status = "queued" /\ Open(r)
        \/ w.status \in {"exhausted", "completed"} /\ EarnedBy(js, d, r)
        \/ w.status = "abandoned" /\ r.status # "absent"

\* Before a sweep has judged the end of a round, the round is the committed one.
Unjudged(d) ==
  \E s \in Sweepers : lock[d] = s /\ (phase[s] # "reconcile" \/ d \in todo[s])

Drafted(d) ==
  /\ NamesRound(d, work[d])
  /\ lock[d] # "none" => Lawful(jobs, d, row[d], work[d])
  /\ Unjudged(d) => work[d].round = row[d].round
  /\ request[d] \in {"creating", "created", "enqueued"} => work[d].round = 0
  /\ request[d] = "enqueued" => work[d].status = "queued"

\* Every round below that of d, and below that of one of its jobs, completed.
Placed(d) ==
  /\ NamesRound(d, row[d])
  /\ row[d].status = "absent" => row[d].round = 0
  /\ row[d].round > 0 => Done(jobs, d, row[d].round - 1)

HasPlace(j, js) ==
  /\ j[2] <= row[j[1]].round + 1
  /\ j[2] > 0 => Done(js, j[1], j[2] - 1)

Ladder ==
  /\ \A d \in Decisions : Drafted(d) /\ Placed(d)
  /\ \A j \in DOMAIN jobs : HasPlace(j, jobs)

\* What completed stays completed.
LEMMA DoneStays ==
  ASSUME IInv, JobsGrow, NEW d, NEW k, Done(jobs, d, k)
  PROVE  Done(jobs', d, k)
  BY DEF Done, JobsGrow, Ended

\* A lawful draft stays lawful: jobs are only added, or end.
LEMMA LawfulStays ==
  ASSUME IInv, JobsGrow, NEW d, NEW r, NEW w, Lawful(jobs, d, r, w)
  PROVE  Lawful(jobs', d, r, w)
  BY DoneStays DEF Lawful, EarnedBy

\* A job that exists is not NoJob, and has a decision and a round.
LEMMA JobsAreNamed ==
  ASSUME IInv, NEW j \in DOMAIN jobs
  PROVE  j # NoJob /\ j[1] \in Decisions /\ j[2] \in 0 .. MaxRounds - 1
  BY EscalationAssumption DEF IInv, Tables, TypeOK, Jobs

\* The job of a round is of that decision and round.
LEMMA RoundJobOfRound ==
  ASSUME NEW d, NEW k
  PROVE  RoundJob(d, k)[1] = d /\ RoundJob(d, k)[2] = k
  BY DEF RoundJob

---------------------------------------------------------------------------
(* The drafts of those who judge or recover a decision *)

\* n is a lawful draft for d, and its round has a place for a job.
Draft(d, n) ==
  /\ Lawful(jobs, d, row[d], n) /\ NamesRound(d, n)
  /\ n.round <= row[d].round + 1
  /\ n.round > 0 => Done(jobs, d, n.round - 1)

\* What complete_round makes of a row of the committed round is a lawful draft.
LEMMA OutcomeIsLawful ==
  ASSUME IInv, Ladder, NEW d \in Decisions, Open(row[d]),
         NEW r \in RowType, r.lastJob \in DOMAIN jobs, NamesRound(d, r),
         r.round = row[d].round, NEW n \in RoundOutcomes(d, r)
  PROVE  Draft(d, n)
<1>1. PICK gaps \in BOOLEAN, cost \in {"affordable", "unknown", "capped"} :
        n = AfterRound(d, r, Verdict(jobs[r.lastJob].status, Known(r), Improved(d, r),
                                     gaps, r.round, cost))
  BY DEF RoundOutcomes
<1>. DEFINE v == Verdict(jobs[r.lastJob].status, Known(r), Improved(d, r),
                         gaps, r.round, cost)
<1>2. /\ v[1] \in {"exhausted", "completed", "abandoned", "reanalysis"}
      /\ v[1] # "abandoned" => jobs[r.lastJob].status = "completed"
      /\ v[2] \in Reasons
  BY DEF Verdict, Ran, Reasons
<1>3. n = AfterRound(d, r, v)
  BY <1>1
<1>. HIDE DEF v
<1>4. row[d].round \in Nat /\ row[d].status # "absent"
      /\ (row[d].round > 0 => Done(jobs, d, row[d].round - 1))
  BY DEF IInv, Tables, TypeOK, RowType, Ladder, Placed, Open, OpenStatuses
<1>5. v[1] # "abandoned" => EarnedBy(jobs, d, row[d])
  <2>1. r.lastJob[1] = d /\ r.lastJob[2] = row[d].round
    BY JobsAreNamed DEF NamesRound
  <2>. QED
    BY <1>2, <2>1 DEF EarnedBy, Done
<1>6. CASE v[1] = "reanalysis"
  <2>1. /\ n.status = "reanalysis" /\ n.round = row[d].round + 1
        /\ n.lastJob = RoundJob(d, n.round)
    BY <1>3, <1>6 DEF AfterRound, RowType
  <2>. QED
    BY <1>4, <1>5, <1>6, <2>1, RoundJobOfRound DEF Draft, Lawful, NamesRound, EarnedBy
<1>7. CASE v[1] # "reanalysis"
  <2>1. n = Closed(r, v[1], v[2])
    BY <1>3, <1>7 DEF AfterRound
  <2>2. n.status = v[1] /\ n.round = row[d].round /\ n.lastJob = r.lastJob
    BY <2>1 DEF Closed, RowType
  <2>. QED
    BY <1>2, <1>4, <1>5, <1>7, <2>2 DEF Draft, Lawful, NamesRound
<1>. QED
  BY <1>6, <1>7

\* The observer judges the committed row.
LEMMA ObserverDrafts ==
  ASSUME IInv, Ladder, NEW j \in told, ObserverAdvances(j)
  PROVE  \E r : /\ work' = [work EXCEPT ![j[1]] = r]
                /\ Becomes(j[1], r) /\ Draft(j[1], r)
<1>. DEFINE d == j[1]
<1>1. /\ d \in Decisions /\ row[d] \in RowType /\ row[d].lastJob \in DOMAIN jobs
      /\ Open(row[d])
  BY DEF IInv, Tables, TypeOK, Jobs, ObserverAdvances, Advances
<1>2. PICK r \in RoundOutcomes(d, row[d]) :
        work' = [work EXCEPT ![d] = r] /\ BuysNextRound(d, r)
  BY DEF ObserverAdvances
<1>3. NamesRound(d, row[d])
  BY <1>1 DEF Ladder, Placed
<1>4. Draft(d, r)
  BY <1>1, <1>2, <1>3, OutcomeIsLawful
<1>5. Becomes(d, r)
  BY <1>1, <1>2, RoundOutcome DEF IInv, Becomes
<1>. QED
  BY <1>2, <1>4, <1>5

\* What a sweep is about to treat
LEMMA SweepTreats ==
  ASSUME IInv, Ladder, NEW s \in Sweepers, NEW d \in todo[s]
  PROVE  /\ d \in Decisions /\ lock[d] = s /\ Open(row[d]) /\ work[d] \in RowType
         /\ work[d].round = row[d].round /\ NamesRound(d, work[d])
         /\ phase[s] = "reconcile" => work[d].lastJob \in DOMAIN jobs
         /\ work[d].round > 0 => Done(jobs, d, work[d].round - 1)
<1>1. /\ d \in Decisions /\ lock[d] = s /\ Open(row[d]) /\ work[d] \in RowType
      /\ phase[s] = "reconcile" => work[d].lastJob \in DOMAIN jobs
  BY DEF IInv, Tables, TypeOK, Held, Selected
<1>2. Unjudged(d)
  BY <1>1 DEF Unjudged
<1>. QED
  BY <1>1, <1>2 DEF Ladder, Drafted, Placed

\* Either half of the sweep drafts lawfully; recovery keeps the round.
LEMMA SweepDrafts ==
  ASSUME IInv, Ladder, NEW s \in Sweepers, NEW d \in Decisions,
         SweepReconciles(s, d) \/ SweepRecovers(s, d)
  PROVE  \E r : /\ Treated(s, d, r, TRUE) /\ Becomes(d, r) /\ Draft(d, r)
                /\ phase[s] # "reconcile" => r.round = row[d].round
<1>1. /\ d \in todo[s] /\ lock[d] = s /\ Open(row[d]) /\ work[d] \in RowType
      /\ work[d].round = row[d].round /\ NamesRound(d, work[d])
      /\ phase[s] = "reconcile" => work[d].lastJob \in DOMAIN jobs
      /\ work[d].round > 0 => Done(jobs, d, work[d].round - 1)
  BY SweepTreats DEF SweepReconciles, SweepRecovers
<1>2. CASE SweepReconciles(s, d)
  <2>1. PICK r \in RoundOutcomes(d, work[d]) : Treated(s, d, r, TRUE) /\ BuysNextRound(d, r)
    BY <1>2 DEF SweepReconciles
  <2>2. phase[s] = "reconcile"
    BY <1>2 DEF SweepReconciles
  <2>3. Draft(d, r)
    BY <1>1, <2>1, <2>2, OutcomeIsLawful
  <2>4. Becomes(d, r)
    BY <1>1, <2>1, <2>2, RoundOutcome DEF IInv, Becomes
  <2>. QED
    BY <2>1, <2>2, <2>3, <2>4
<1>3. CASE SweepRecovers(s, d)
  <2>1. PICK r : Treated(s, d, r, TRUE) /\ Becomes(d, r)
    BY <1>3, SweepRecovery
  <2>2. /\ r.status = "queued" /\ r.round = work[d].round
        /\ r.lastJob = RoundJob(d, work[d].round)
    <3>. DEFINE w == [work[d] EXCEPT
                        !.status = "queued",
                        !.before = IF work[d].before = NoBaseline THEN evidence[Company[d]]
                                   ELSE work[d].before,
                        !.lastJob = RoundJob(d, work[d].round)]
    <3>1. work' = [work EXCEPT ![d] = w]
      BY <1>3 DEF SweepRecovers, Treated
    <3>2. work' = [work EXCEPT ![d] = r]
      BY <2>1 DEF Treated
    <3>3. w.status = "queued" /\ w.round = work[d].round
          /\ w.lastJob = RoundJob(d, work[d].round)
      BY <1>1 DEF RowType
    <3>. HIDE DEF w
    <3>4. work \in [Decisions -> RowType]
      BY DEF IInv, Tables, TypeOK
    <3>5. r = w
      BY <3>1, <3>2, <3>4
    <3>. QED
      BY <3>3, <3>5
  <2>3. row[d].round \in Nat
    BY DEF IInv, Tables, TypeOK, RowType
  <2>4. Draft(d, r)
    BY <1>1, <2>2, <2>3, RoundJobOfRound DEF Draft, Lawful, NamesRound
  <2>. QED
    BY <1>1, <2>1, <2>2, <2>4
<1>. QED
  BY <1>2, <1>3

---------------------------------------------------------------------------
(* The ladder is kept *)

\* A job is started in its place.
LEMMA NewJobsHavePlace ==
  ASSUME IInv, Ladder, [Next]_vars, NEW j \in DOMAIN jobs' \ DOMAIN jobs
  PROVE  j[1] \in Decisions /\ HasPlace(j, jobs)
<1>1. ASSUME NEW d \in Decisions, NEW k \in 0 .. MaxRounds - 1, Enqueue(d, k)
      PROVE  j[1] = d /\ j[2] = k
  <2>1. DOMAIN jobs' = DOMAIN jobs \cup {RoundJob(d, k)}
    BY <1>1, EnqueueAdds DEF IInv
  <2>. QED
    BY <2>1, RoundJobOfRound
<1>2. ASSUME NEW d, NEW r, Becomes(d, r), Draft(d, r)
      PROVE  d \in Decisions /\ HasPlace(j, jobs)
  <2>1. d \in Decisions /\ r.round \in 0 .. MaxRounds - 1 /\ Enqueue(d, r.round)
    BY <1>2 DEF Becomes, RowType
  <2>. QED
    BY <1>1, <1>2, <2>1 DEF Draft, HasPlace
<1>3. CASE \E d \in Decisions : RequestEnqueues(d)
  <2>1. PICK d \in Decisions : RequestEnqueues(d)
    BY <1>3
  <2>2. j[1] = d /\ j[2] = 0
    BY <1>1, <2>1, EscalationAssumption DEF RequestEnqueues
  <2>3. row[d].round \in Nat
    BY DEF IInv, Tables, TypeOK, RowType
  <2>. QED
    BY <2>2, <2>3 DEF HasPlace
<1>4. CASE \E i \in told : ObserverAdvances(i)
  <2>1. PICK d, r : Becomes(d, r) /\ Draft(d, r)
    BY <1>4, ObserverDrafts
  <2>2. d = j[1]
    BY <1>1, <2>1 DEF Becomes, RowType
  <2>. QED
    BY <1>2, <2>1, <2>2
<1>5. CASE \E s \in Sweepers, d \in Decisions : SweepRecovers(s, d) \/ SweepReconciles(s, d)
  <2>1. PICK d, r : Becomes(d, r) /\ Draft(d, r)
    BY <1>5, SweepDrafts
  <2>2. d = j[1]
    BY <1>1, <2>1 DEF Becomes, RowType
  <2>. QED
    BY <1>2, <2>1, <2>2
<1>6. CASE DOMAIN jobs' = DOMAIN jobs
  BY <1>6
<1>7. (\E d \in Decisions : CancelWrites(d)) \/ (\E i \in DOMAIN jobs : JobGathers(i) \/ JobEnds(i))
      => DOMAIN jobs' = DOMAIN jobs
  BY DEF CancelWrites, AskToStop, JobGathers, JobEnds
<1>. QED
  BY <1>3, <1>4, <1>5, <1>6, <1>7
     DEF Next, vars, Request, Observer, Sweep, RequestReads, RequestCreates, RequestCommits,
         RequestFails, CancelReads, TransactionCommits, TransactionFails,
         ObserverFindsNothing, NotificationLost, SweepSelectsStranded, SweepSelectsEnded,
         SweepEnds, SweepClosesStranded, SweepFails, SweepReleases

\* A commit is one lawful move, or opens the decision in round 0.
LEMMA CommitsAreLawful ==
  ASSUME IInv, Ladder, [Next]_vars, NEW d \in Decisions
  PROVE  /\ NamesRound(d, row'[d])
         /\ \/ Lawful(jobs, d, row[d], row'[d]) /\ (row'[d].status = "absent" => row'[d] = row[d])
            \/ /\ RequestCommits(d) /\ row[d].status = "absent" /\ InTransaction(d)
               /\ row'[d].status = "queued" /\ row[d].round = 0 /\ row'[d].round = 0
<1>1. Drafted(d) /\ Placed(d)
  BY DEF Ladder
<1>2. CASE row'[d] = row[d]
  BY <1>1, <1>2 DEF Placed, Lawful
<1>3. CASE row'[d] = work[d] /\ lock[d] # "none"
  BY <1>1, <1>3 DEF Drafted, IInv, Held, Locked
<1>4. CASE RequestCommits(d)
  BY <1>1, <1>4, CommittedRow DEF Drafted, Placed, InTransaction
<1>. QED
  BY <1>2, <1>3, <1>4, HowRowsChange

\* A round is kept, or is followed by the next.
LEMMA RoundsClimb ==
  ASSUME IInv, Ladder, [Next]_vars, NEW d \in Decisions
  PROVE  row[d].round \in Nat /\ row'[d].round \in {row[d].round, row[d].round + 1}
<1>1. row[d].round \in Nat
  BY DEF IInv, Tables, TypeOK, RowType
<1>. QED
  BY <1>1, CommitsAreLawful DEF Lawful

\* A committed row keeps its place on the ladder.
LEMMA NextPlaced ==
  ASSUME IInv, Ladder, [Next]_vars, NEW d \in Decisions
  PROVE  Placed(d)'
<1>1. JobsGrow
  BY NextJobsGrow
<1>2. Placed(d) /\ row[d].round \in Nat
  BY RoundsClimb DEF Ladder
<1>3. NamesRound(d, row'[d])
  BY CommitsAreLawful
<1>4. row'[d].status = "absent" => row'[d].round = 0
  BY <1>2, CommitsAreLawful DEF Placed
<1>5. ASSUME row'[d].round > 0 PROVE Done(jobs', d, row'[d].round - 1)
  <2>1. CASE row'[d].round = row[d].round
    BY <1>1, <1>2, <1>5, <2>1, DoneStays DEF Placed
  <2>2. CASE row'[d].round = row[d].round + 1
    <3>1. Done(jobs, d, row[d].round)
      BY <1>2, <1>5, <2>2, CommitsAreLawful DEF Lawful, EarnedBy
    <3>2. row'[d].round - 1 = row[d].round
      BY <1>2, <2>2
    <3>. QED
      BY <1>1, <3>1, <3>2, DoneStays
  <2>. QED
    BY <2>1, <2>2, RoundsClimb
<1>. QED
  BY <1>3, <1>4, <1>5 DEF Placed, NamesRound

\* So does every job.
LEMMA NextHasPlace ==
  ASSUME IInv, Ladder, [Next]_vars, NEW j \in DOMAIN jobs'
  PROVE  HasPlace(j, jobs)'
<1>1. JobsGrow
  BY NextJobsGrow
<1>2. j[1] \in Decisions /\ HasPlace(j, jobs)
  BY JobsAreNamed, NewJobsHavePlace DEF Ladder
<1>3. j[2] \in Nat
  BY <1>1 DEF JobsGrow, Jobs
<1>4. j[2] <= row'[j[1]].round + 1
  BY <1>2, <1>3, RoundsClimb DEF HasPlace
<1>5. j[2] > 0 => Done(jobs', j[1], j[2] - 1)
  BY <1>1, <1>2, DoneStays DEF HasPlace
<1>. QED
  BY <1>4, <1>5 DEF HasPlace

---------------------------------------------------------------------------
(* Drafts *)

\* A draft nobody writes, whose sweep does not come back to it, stays good.
LEMMA DraftKept ==
  ASSUME IInv, Ladder, JobsGrow, NEW d \in Decisions,
         row'[d] = row[d] \/ lock[d] = "none", work'[d] = work[d], lock'[d] = lock[d],
         request'[d] = request[d], Unjudged(d)' => Unjudged(d)
  PROVE  Drafted(d)'
<1>1. Drafted(d)
  BY DEF Ladder
<1>2. lock[d] = "none" => ~Unjudged(d)
  BY SweeperNames DEF Unjudged
<1>3. lock'[d] # "none" => Lawful(jobs', d, row'[d], work'[d])
  BY <1>1, LawfulStays DEF Drafted
<1>4. Unjudged(d)' => work'[d].round = row'[d].round
  BY <1>1, <1>2 DEF Drafted
<1>. QED
  BY <1>1, <1>3, <1>4 DEF Drafted, NamesRound

\* A draft that is dropped or committed
LEMMA DraftReleased ==
  ASSUME NEW d \in Decisions, lock'[d] = "none", request'[d] = "over",
         NamesRound(d, work'[d])
  PROVE  Drafted(d)'
<1>1. ~Unjudged(d)'
  BY SweeperNames DEF Unjudged
<1>. QED
  BY <1>1 DEF Drafted, NamesRound

\* A draft that is written
LEMMA DraftWritten ==
  ASSUME IInv, JobsGrow, NEW d \in Decisions, row'[d] = row[d], request'[d] = "over",
         NamesRound(d, work'[d]), Lawful(jobs, d, row[d], work'[d]),
         Unjudged(d)' => work'[d].round = row[d].round
  PROVE  Drafted(d)'
<1>1. Lawful(jobs', d, row'[d], work'[d])
  BY LawfulStays
<1>. QED
  BY <1>1 DEF Drafted, NamesRound

\* Drafts after a step of a request
LEMMA RequestDrafts ==
  ASSUME IInv, Ladder, [Next]_vars, NEW e \in Decisions,
         \/ RequestReads(e) \/ RequestCreates(e) \/ RequestEnqueues(e)
         \/ RequestCommits(e) \/ RequestFails(e),
         NEW d \in Decisions
  PROVE  Drafted(d)'
<1>1. /\ row \in [Decisions -> RowType] /\ work \in [Decisions -> RowType]
      /\ request \in [Decisions -> {"new", "creating", "created", "enqueued", "over"}]
      /\ JobsGrow /\ Drafted(d) /\ Placed(d)
  BY NextJobsGrow DEF IInv, Tables, TypeOK, Ladder
<1>2. UNCHANGED <<lock, phase, todo>> /\ request[e] # "over"
  BY DEF RequestReads, RequestCreates, RequestEnqueues, RequestCommits, RequestFails, sweepVars
<1>3. Unjudged(d)' => Unjudged(d)
  BY <1>2 DEF Unjudged
<1>4. CASE d # e
  <2>1. row'[d] = row[d] /\ work'[d] = work[d] /\ request'[d] = request[d]
    BY <1>1, <1>4
       DEF RequestReads, RequestCreates, RequestEnqueues, RequestCommits, RequestFails
  <2>. QED
    BY <1>1, <1>2, <1>3, <2>1, DraftKept
<1>5. CASE d = e
  <2>1. row[d].status = "absent" /\ lock'[d] = "none" /\ row[d].round = 0
    BY <1>1, <1>2, <1>5 DEF IInv, Held, Private, Unseen, Placed
  <2>2. ~Unjudged(d)'
    BY <2>1, SweeperNames DEF Unjudged
  <2>3. CASE RequestReads(e)
    <3>1. \/ work'[d] = work[d] /\ request'[d] = "over"
          \/ /\ request'[d] = "creating"
             /\ work'[d] = Row("research_required", evidence[Company[d]])
      BY <1>1, <1>5, <2>3 DEF RequestReads
    <3>. QED
      BY <1>1, <2>1, <2>2, <3>1 DEF Drafted, NamesRound, Row
  <2>4. CASE RequestCreates(e)
    <3>1. \/ work'[d] = work[d] /\ request'[d] = "created" /\ request[d] = "creating"
          \/ work'[d] = row[d] /\ request'[d] = "over"
      BY <1>1, <1>5, <2>4 DEF RequestCreates
    <3>. QED
      BY <1>1, <2>1, <2>2, <3>1 DEF Drafted, Placed, NamesRound
  <2>5. CASE RequestEnqueues(e)
    <3>. DEFINE r == [work[d] EXCEPT !.status = "queued", !.lastJob = RoundJob(d, 0)]
    <3>1. work'[d] = r /\ request'[d] = "enqueued" /\ request[d] = "created"
      BY <1>1, <1>5, <2>5 DEF RequestEnqueues
    <3>2. r.status = "queued" /\ r.lastJob = RoundJob(d, 0) /\ r.round = work[d].round
      BY <1>1 DEF RowType
    <3>. HIDE DEF r
    <3>3. r.round = 0
      BY <1>1, <3>1, <3>2 DEF Drafted
    <3>. QED
      BY <2>1, <2>2, <3>1, <3>2, <3>3, RoundJobOfRound DEF Drafted, NamesRound
  <2>6. CASE RequestCommits(e)
    BY <1>1, <1>5, <2>1, <2>6, DraftReleased DEF RequestCommits, Drafted
  <2>7. CASE RequestFails(e)
    <3>1. work'[d] = row[d] /\ request'[d] = "over"
      BY <1>1, <1>5, <2>7 DEF RequestFails
    <3>. QED
      BY <1>1, <2>1, <3>1, DraftReleased DEF Placed
  <2>. QED
    BY <2>3, <2>4, <2>5, <2>6, <2>7
<1>. QED
  BY <1>4, <1>5

\* Drafts after a cancel, a commit or a roll-back
LEMMA TransactionDrafts ==
  ASSUME IInv, Ladder, [Next]_vars, NEW e \in Decisions,
         CancelReads(e) \/ CancelWrites(e) \/ TransactionCommits(e) \/ TransactionFails(e),
         NEW d \in Decisions
  PROVE  Drafted(d)'
<1>1. /\ row \in [Decisions -> RowType] /\ work \in [Decisions -> RowType]
      /\ lock \in [Decisions -> Sweepers \cup {"none", "observer", "cancel"}]
      /\ JobsGrow /\ Drafted(d) /\ Placed(d)
  BY NextJobsGrow DEF IInv, Tables, TypeOK, Ladder
<1>2. UNCHANGED <<request, phase, todo>>
  BY DEF CancelReads, CancelWrites, TransactionCommits, TransactionFails, requestVars, sweepVars
<1>3. CASE d # e \/ CancelReads(e)
  <2>1. row'[d] = row[d] /\ work'[d] = work[d] /\ lock'[d] = lock[d]
    BY <1>1, <1>3 DEF CancelReads, CancelWrites, TransactionCommits, TransactionFails,
                      decisionVars
  <2>2. Unjudged(d)' => Unjudged(d)
    BY <1>2, <2>1 DEF Unjudged
  <2>. QED
    BY <1>1, <1>2, <2>1, <2>2, DraftKept
<1>4. CASE d = e /\ CancelWrites(e)
  <2>1. row[d].status # "absent" /\ row[d] \in RowType
    BY <1>1, <1>4 DEF CancelWrites, IInv, Held, Unseen
  <2>2. request'[d] = "over"
    BY <1>2, <2>1, OpenIsOver
  <2>3. work'[d] = Closed(row[d], "abandoned", "operator_cancelled") /\ lock'[d] = "cancel"
        /\ row'[d] = row[d]
    BY <1>1, <1>4 DEF CancelWrites
  <2>4. /\ work'[d].status = "abandoned" /\ work'[d].round = row[d].round
        /\ work'[d].lastJob = row[d].lastJob
    BY <2>1, <2>3 DEF Closed, RowType
  <2>5. Lawful(jobs, d, row[d], work'[d]) /\ NamesRound(d, work'[d])
    BY <1>1, <2>1, <2>4 DEF Lawful, Placed, NamesRound
  <2>. QED
    BY <1>1, <2>2, <2>3, <2>4, <2>5, DraftWritten
<1>5. CASE d = e /\ (TransactionCommits(e) \/ TransactionFails(e))
  <2>1. lock'[d] = "none" /\ lock[d] # "none" /\ work'[d] \in {row[d], work[d]}
    BY <1>1, <1>5 DEF TransactionCommits, TransactionFails, HeldByOne
  <2>2. request'[d] = "over"
    BY <1>2, <2>1, OpenIsOver DEF IInv, Held, Unseen
  <2>. QED
    BY <1>1, <2>1, <2>2, DraftReleased DEF Drafted, Placed
<1>. QED
  BY <1>3, <1>4, <1>5

\* Drafts after the observer
LEMMA ObserverAdvancesDraft ==
  ASSUME IInv, Ladder, [Next]_vars, NEW j \in told, ObserverAdvances(j), NEW d \in Decisions
  PROVE  Drafted(d)'
<1>1. /\ work \in [Decisions -> RowType]
      /\ lock \in [Decisions -> Sweepers \cup {"none", "observer", "cancel"}]
      /\ JobsGrow
  BY NextJobsGrow DEF IInv, Tables, TypeOK
<1>2. /\ UNCHANGED <<row, request, phase, todo>>
      /\ lock' = [lock EXCEPT ![j[1]] = "observer"]
  BY DEF ObserverAdvances, requestVars, sweepVars
<1>3. PICK r : /\ work' = [work EXCEPT ![j[1]] = r]
               /\ Becomes(j[1], r) /\ Draft(j[1], r)
  BY ObserverDrafts
<1>4. CASE d # j[1]
  <2>1. row'[d] = row[d] /\ work'[d] = work[d] /\ lock'[d] = lock[d]
    BY <1>1, <1>2, <1>3, <1>4
  <2>2. Unjudged(d)' => Unjudged(d)
    BY <1>2, <2>1 DEF Unjudged
  <2>. QED
    BY <1>1, <1>2, <2>1, <2>2, DraftKept
<1>5. CASE d = j[1]
  <2>1. work'[d] = r /\ lock'[d] = "observer" /\ Draft(d, r) /\ Open(row[d])
    BY <1>1, <1>2, <1>3, <1>5 DEF Becomes
  <2>2. ~Unjudged(d)'
    BY <2>1, SweeperNames DEF Unjudged
  <2>3. request'[d] = "over"
    BY <1>2, <2>1, OpenIsOver DEF Open, OpenStatuses
  <2>. QED
    BY <1>1, <1>2, <2>1, <2>2, <2>3, DraftWritten DEF Draft
<1>. QED
  BY <1>4, <1>5

\* A selection starts a draft from the committed row, or goes on with the one
\* of the same sweep, which has judged nothing yet.
LEMMA SelectionDrafts ==
  ASSUME IInv, Ladder, [Next]_vars, NEW s \in Sweepers,
         SweepSelectsStranded(s) \/ SweepSelectsEnded(s), NEW d \in Decisions
  PROVE  Drafted(d)'
<1>1. /\ phase \in [Sweepers -> {"idle", "recover", "reconcile"}]
      /\ todo \in [Sweepers -> SUBSET Decisions]
      /\ JobsGrow /\ Drafted(d) /\ Placed(d)
  BY NextJobsGrow DEF IInv, Tables, TypeOK, Ladder
<1>2. UNCHANGED <<row, request>> /\ phase[s] # "reconcile"
  BY DEF SweepSelectsStranded, SweepSelectsEnded, requestVars
<1>3. PICK S : /\ Select(s, S)
               /\ d \in S => lock[d] \in {"none", s}
               /\ d \in S => lock[d] = s \/ Open(row[d])
  <2>1. CASE SweepSelectsStranded(s)
    <3>. DEFINE S == {x \in Selectable(s) : Open(row[x]) /\ row[x].lastJob = NoJob}
    <3>1. Select(s, S) /\ (d \in S => lock[d] \in {"none", s} /\ Open(row[d]))
      BY <2>1 DEF SweepSelectsStranded, Selectable
    <3>. HIDE DEF S
    <3>. QED
      BY <3>1
  <2>2. CASE SweepSelectsEnded(s)
    <3>. DEFINE S == {x \in Selectable(s) : RoundIsOver(Seen(s, x))}
    <3>1. /\ Select(s, S)
          /\ d \in S => lock[d] \in {"none", s} /\ (lock[d] = s \/ Open(row[d]))
      BY <2>2 DEF SweepSelectsEnded, Selectable, RoundIsOver, Seen
    <3>. HIDE DEF S
    <3>. QED
      BY <3>1
  <2>. QED
    BY <2>1, <2>2
<1>4. /\ lock'[d] = IF d \in S THEN s ELSE lock[d]
      /\ work'[d] = IF d \in S THEN Seen(s, d) ELSE work[d]
  BY <1>3 DEF Select
<1>5. \A t \in Sweepers \ {s} : phase'[t] = phase[t] /\ todo'[t] = todo[t]
  BY <1>1, <1>3 DEF SweepSelectsStranded, SweepSelectsEnded, Select
<1>6. CASE lock'[d] = lock[d] /\ work'[d] = work[d]
  <2>1. Unjudged(d)' => Unjudged(d)
    BY <1>2, <1>5, <1>6 DEF Unjudged
  <2>. QED
    BY <1>1, <1>2, <1>6, <2>1, DraftKept
<1>7. CASE d \in S /\ lock[d] = "none"
  <2>1. work'[d] = row[d] /\ Open(row[d])
    BY <1>3, <1>4, <1>7, SweeperNames DEF Seen
  <2>2. request'[d] = "over"
    BY <1>2, <2>1, OpenIsOver DEF Open, OpenStatuses
  <2>. QED
    BY <1>1, <1>2, <2>1, <2>2, DraftWritten DEF Placed, Lawful
<1>. QED
  BY <1>3, <1>4, <1>6, <1>7 DEF Seen

\* Drafts after the end or the failure of a sweep
LEMMA ReleaseDrafts ==
  ASSUME IInv, Ladder, [Next]_vars, NEW s \in Sweepers, SweepEnds(s) \/ SweepFails(s),
         NEW d \in Decisions
  PROVE  Drafted(d)'
<1>1. /\ phase \in [Sweepers -> {"idle", "recover", "reconcile"}]
      /\ todo \in [Sweepers -> SUBSET Decisions]
      /\ JobsGrow /\ Drafted(d) /\ Placed(d)
  BY NextJobsGrow DEF IInv, Tables, TypeOK, Ladder
<1>2. /\ SweepReleases(s) /\ UNCHANGED request
      /\ row'[d] \in {row[d], work[d]} /\ (lock[d] # s => row'[d] = row[d])
  BY DEF SweepEnds, SweepFails, SweepReleases, requestVars, IInv, Tables, TypeOK
<1>3. CASE lock[d] = s
  <2>1. lock'[d] = "none" /\ work'[d] = row'[d]
    BY <1>2, <1>3 DEF SweepReleases
  <2>2. request'[d] = "over"
    BY <1>2, <1>3, SweeperNames, OpenIsOver DEF IInv, Held, Unseen
  <2>. QED
    BY <1>1, <1>2, <2>1, <2>2, DraftReleased DEF Drafted, Placed
<1>4. CASE lock[d] # s
  <2>1. lock'[d] = lock[d] /\ work'[d] = work[d]
    BY <1>2, <1>4 DEF SweepReleases
  <2>2. \A t \in Sweepers \ {s} : phase'[t] = phase[t] /\ todo'[t] = todo[t]
    BY <1>1, <1>2 DEF SweepReleases
  <2>3. Unjudged(d)' => Unjudged(d)
    BY <1>4, <2>1, <2>2 DEF Unjudged
  <2>. QED
    BY <1>1, <1>2, <1>4, <2>1, <2>3, DraftKept
<1>. QED
  BY <1>3, <1>4

\* Drafts after a sweep treated one of the decisions it selected
LEMMA TreatmentDrafts ==
  ASSUME IInv, Ladder, [Next]_vars, NEW s \in Sweepers, NEW e \in Decisions,
         SweepClosesStranded(s, e) \/ SweepRecovers(s, e) \/ SweepReconciles(s, e),
         NEW d \in Decisions
  PROVE  Drafted(d)'
<1>1. /\ work \in [Decisions -> RowType] /\ todo \in [Sweepers -> SUBSET Decisions]
      /\ JobsGrow /\ Drafted(d) /\ Placed(d)
  BY NextJobsGrow DEF IInv, Tables, TypeOK, Ladder
<1>2. e \in todo[s]
  BY DEF SweepClosesStranded, SweepRecovers, SweepReconciles
<1>3. /\ lock[e] = s /\ Open(row[e]) /\ work[e] \in RowType
      /\ work[e].round = row[e].round /\ NamesRound(e, work[e])
  BY <1>2, SweepTreats
<1>4. PICK r, counts :
        /\ Treated(s, e, r, counts)
        /\ Lawful(jobs, e, row[e], r) /\ NamesRound(e, r)
        /\ phase[s] # "reconcile" => r.round = row[e].round
  <2>1. CASE SweepClosesStranded(s, e)
    <3>1. PICK reason \in Reasons :
            Treated(s, e, Closed(work[e], "abandoned", reason), FALSE)
      BY <2>1 DEF SweepClosesStranded, Reasons
    <3>. DEFINE r == Closed(work[e], "abandoned", reason)
    <3>2. r.status = "abandoned" /\ r.round = work[e].round /\ r.lastJob = work[e].lastJob
      BY <1>3 DEF Closed, RowType
    <3>. HIDE DEF r
    <3>3. Treated(s, e, r, FALSE)
      BY <3>1 DEF r
    <3>4. Lawful(jobs, e, row[e], r) /\ NamesRound(e, r)
      BY <1>3, <3>2 DEF Lawful, NamesRound, Open, OpenStatuses
    <3>. QED
      BY <1>3, <3>2, <3>3, <3>4
  <2>2. CASE SweepRecovers(s, e) \/ SweepReconciles(s, e)
    BY <2>2, SweepDrafts DEF Draft
  <2>. QED
    BY <2>1, <2>2
<1>5. /\ UNCHANGED <<row, lock, request, phase>>
      /\ work' = [work EXCEPT ![e] = r] /\ todo' = [todo EXCEPT ![s] = @ \ {e}]
  BY <1>4 DEF Treated, requestVars
<1>6. CASE d # e
  <2>1. work'[d] = work[d]
    BY <1>1, <1>5, <1>6
  <2>2. Unjudged(d)' => Unjudged(d)
    BY <1>1, <1>5 DEF Unjudged
  <2>. QED
    BY <1>1, <1>5, <2>1, <2>2, DraftKept
<1>7. CASE d = e
  <2>1. work'[d] = r
    BY <1>1, <1>5, <1>7
  <2>2. request'[d] = "over"
    BY <1>3, <1>5, <1>7, OpenIsOver DEF Open, OpenStatuses
  <2>3. Unjudged(d)' => phase[s] # "reconcile"
    BY <1>1, <1>3, <1>5, <1>7 DEF Unjudged
  <2>. QED
    BY <1>1, <1>4, <1>5, <1>7, <2>1, <2>2, <2>3, DraftWritten
<1>. QED
  BY <1>6, <1>7

\* Every step keeps the ladder.
LEMMA NextLadder == IInv /\ Ladder /\ [Next]_vars => Ladder'
<1>1. SUFFICES ASSUME IInv, Ladder, [Next]_vars, NEW d \in Decisions PROVE Drafted(d)'
  BY NextPlaced, NextHasPlace DEF Ladder
<1>2. ASSUME UNCHANGED <<row, work, lock, request, phase, todo>> PROVE Drafted(d)'
  <2>1. Unjudged(d)' => Unjudged(d)
    BY <1>2 DEF Unjudged
  <2>. QED
    BY <1>1, <1>2, <2>1, DraftKept, NextJobsGrow
<1>3. CASE UNCHANGED vars
  BY <1>2, <1>3 DEF vars, decisionVars, requestVars, sweepVars
<1>4. ASSUME NEW e \in Decisions,
             \/ Request(e) \/ RequestFails(e) \/ CancelReads(e) \/ CancelWrites(e)
             \/ TransactionCommits(e) \/ TransactionFails(e)
      PROVE  Drafted(d)'
  BY <1>1, <1>4, RequestDrafts, TransactionDrafts DEF Request
<1>5. ASSUME NEW j \in DOMAIN jobs, JobGathers(j) \/ JobEnds(j) PROVE Drafted(d)'
  BY <1>2, <1>5 DEF JobGathers, JobEnds, decisionVars, requestVars, sweepVars
<1>6. ASSUME NEW j \in told, Observer(j) \/ NotificationLost(j) PROVE Drafted(d)'
  <2>1. CASE ObserverAdvances(j)
    BY <1>1, <2>1, ObserverAdvancesDraft
  <2>2. CASE ObserverFindsNothing(j) \/ NotificationLost(j)
    BY <1>2, <2>2 DEF ObserverFindsNothing, NotificationLost, decisionVars, requestVars,
                      sweepVars
  <2>. QED
    BY <1>6, <2>1, <2>2 DEF Observer
<1>7. ASSUME NEW s \in Sweepers, Sweep(s) \/ SweepFails(s) PROVE Drafted(d)'
  BY <1>1, <1>7, SelectionDrafts, ReleaseDrafts, TreatmentDrafts DEF Sweep
<1>. QED
  BY <1>1, <1>3, <1>4, <1>5, <1>6, <1>7 DEF Next

\* The ladder holds of new and of legacy decisions.
LEMMA InitLadder == Init => Ladder
<1>1. SUFFICES ASSUME Init PROVE Ladder
  OBVIOUS
<1>2. ASSUME NEW d \in Decisions PROVE Drafted(d) /\ Placed(d)
  <2>1. row[d] \in InitialRows(d) /\ work[d] = row[d] /\ request[d] \in {"over", "new"}
        /\ lock[d] = "none"
    BY <1>1 DEF Init
  <2>2. NamesRound(d, row[d]) /\ row[d].round = 0
    BY <2>1 DEF InitialRows, LegacyRows, Row, NamesRound
  <2>3. ~Unjudged(d)
    BY <2>1, SweeperNames DEF Unjudged
  <2>. QED
    BY <2>1, <2>2, <2>3 DEF Drafted, Placed
<1>3. ASSUME NEW j \in DOMAIN jobs PROVE HasPlace(j, jobs)
  <2>1. j[1] \in Decisions /\ j[2] = 0
    BY <1>1, <1>3, EscalationAssumption DEF Init
  <2>2. row[j[1]].round = 0
    BY <1>2, <2>1, <1>1 DEF Init, InitialRows, LegacyRows, Row
  <2>. QED
    BY <2>1, <2>2 DEF HasPlace
<1>. QED
  BY <1>2, <1>3 DEF Ladder

---------------------------------------------------------------------------
(* Every step is one of DecisionLife, or none *)

Completed(js) == {<<j[1], j[2]>> : j \in {i \in DOMAIN js : js[i].status = "completed"}}

\* The pairs of Completed are the rounds of which a job completed.
LEMMA CompletedIsDone ==
  ASSUME NEW js, NEW d, NEW k
  PROVE  <<d, k>> \in Completed(js) <=> Done(js, d, k)
  BY DEF Completed, Done

\* Only the end of a job makes it complete.
LEMMA HowJobsComplete ==
  ASSUME IInv, [Next]_vars
  PROVE  \/ Completed(jobs') = Completed(jobs)
         \/ \E j \in DOMAIN jobs : /\ JobEnds(j)
                                   /\ Completed(jobs') = Completed(jobs) \cup {<<j[1], j[2]>>}
<1>1. JobsGrow /\ jobs \in [DOMAIN jobs -> JobStates]
  BY NextJobsGrow DEF IInv, Tables
<1>2. ASSUME \A j \in DOMAIN jobs' : jobs'[j].status = "completed" =>
               j \in DOMAIN jobs /\ jobs[j].status = "completed"
      PROVE  Completed(jobs') = Completed(jobs)
  BY <1>1, <1>2 DEF Completed, JobsGrow, Ended
<1>3. ASSUME NEW d, NEW k, Enqueue(d, k) PROVE Completed(jobs') = Completed(jobs)
  BY <1>2, <1>3 DEF Enqueue, NewJob
<1>4. CASE UNCHANGED jobs
  BY <1>4
<1>5. CASE \E d \in Decisions : RequestEnqueues(d)
  BY <1>3, <1>5 DEF RequestEnqueues
<1>6. CASE \E j \in told : ObserverAdvances(j)
  BY <1>3, <1>4, <1>6, ObserverJudges DEF Becomes
<1>7. CASE \E s \in Sweepers, d \in Decisions : SweepRecovers(s, d) \/ SweepReconciles(s, d)
  BY <1>3, <1>4, <1>7, SweepRecovery, SweepJudges DEF Becomes
<1>8. CASE \E d \in Decisions : CancelWrites(d)
  <2>1. PICK d \in Decisions : CancelWrites(d)
    BY <1>8
  <2>2. ASSUME NEW t \in {"live", "cancelled"},
               jobs' = [jobs EXCEPT ![stale[d]] =
                          [jobs[stale[d]] EXCEPT !.status = t, !.asked = TRUE]]
        PROVE  Completed(jobs') = Completed(jobs)
    <3>. DEFINE n == [jobs[stale[d]] EXCEPT !.status = t, !.asked = TRUE]
    <3>1. stale[d] \in DOMAIN jobs => n.status = t
      BY <1>1 DEF JobStates
    <3>2. jobs' = [jobs EXCEPT ![stale[d]] = n]
      BY <2>2
    <3>. HIDE DEF n
    <3>3. \A j \in DOMAIN jobs' : /\ j \in DOMAIN jobs
                                  /\ jobs'[j] = IF j = stale[d] THEN n ELSE jobs[j]
      BY <1>1, <3>2
    <3>. QED
      BY <1>2, <3>1, <3>3
  <2>3. \/ UNCHANGED jobs
        \/ \E t \in {"live", "cancelled"} :
             jobs' = [jobs EXCEPT ![stale[d]] =
                        [jobs[stale[d]] EXCEPT !.status = t, !.asked = TRUE]]
    BY <2>1 DEF CancelWrites, AskToStop
  <2>. QED
    BY <1>4, <2>2, <2>3
<1>9. CASE \E j \in DOMAIN jobs : JobGathers(j)
  <2>1. PICK j \in DOMAIN jobs : JobGathers(j)
    BY <1>9
  <2>. DEFINE n == [jobs[j] EXCEPT !.gathered = TRUE]
  <2>2. n.status = jobs[j].status /\ jobs' = [jobs EXCEPT ![j] = n]
    BY <1>1, <2>1 DEF JobGathers, JobStates
  <2>. HIDE DEF n
  <2>3. \A i \in DOMAIN jobs' : i \in DOMAIN jobs /\ jobs'[i].status = jobs[i].status
    BY <1>1, <2>1, <2>2
  <2>. QED
    BY <1>2, <2>3
<1>10. CASE \E j \in DOMAIN jobs : JobEnds(j)
  <2>1. PICK j \in DOMAIN jobs : JobEnds(j)
    BY <1>10
  <2>2. PICK t \in {"completed", "failed", "dead_letter", "cancelled"} :
          jobs' = [jobs EXCEPT ![j] = [jobs[j] EXCEPT !.status = t]]
    BY <2>1 DEF JobEnds
  <2>. DEFINE n == [jobs[j] EXCEPT !.status = t]
  <2>3. n.status = t /\ jobs' = [jobs EXCEPT ![j] = n]
    BY <1>1, <2>1, <2>2 DEF JobStates
  <2>. HIDE DEF n
  <2>4. /\ DOMAIN jobs' = DOMAIN jobs
        /\ \A i \in DOMAIN jobs : jobs'[i].status = IF i = j THEN t ELSE jobs[i].status
    BY <1>1, <2>1, <2>3
  <2>5. jobs[j].status = "live"
    BY <2>1 DEF JobEnds, Ended
  <2>6. CASE t = "completed"
    <3>1. {i \in DOMAIN jobs' : jobs'[i].status = "completed"} =
            {i \in DOMAIN jobs : jobs[i].status = "completed"} \cup {j}
      BY <2>1, <2>4, <2>6
    <3>2. Completed(jobs') = Completed(jobs) \cup {<<j[1], j[2]>>}
      BY <3>1 DEF Completed
    <3>. QED
      BY <2>1, <3>2
  <2>7. CASE t # "completed"
    BY <1>2, <2>4, <2>7
  <2>. QED
    BY <2>6, <2>7
<1>. QED
  BY <1>4, <1>5, <1>6, <1>7, <1>8, <1>9, <1>10
     DEF Next, vars, Request, Observer, Sweep, RequestReads, RequestCreates, RequestCommits,
         RequestFails, CancelReads, TransactionCommits, TransactionFails,
         ObserverFindsNothing, NotificationLost, SweepSelectsStranded, SweepSelectsEnded,
         SweepEnds, SweepClosesStranded, SweepFails, SweepReleases

\* A lawful commit that opens nothing is a move of DecisionLife.
LEMMA LawfulIsAMove ==
  ASSUME IInv, IInv', Ladder, [Next]_vars, NEW d \in Decisions, ~RequestCommits(d)
  PROVE  Life!Moves(d)
<1>. DEFINE st == [x \in Decisions |-> row[x].status]
            rd == [x \in Decisions |-> row[x].round]
<1>1. /\ st[d] = row[d].status /\ rd[d] = row[d].round
      /\ st'[d] = row'[d].status /\ rd'[d] = row'[d].round
  OBVIOUS
<1>2. row'[d].round < MaxRounds
  BY EscalationAssumption DEF IInv, Tables, TypeOK, RowType
<1>3. Lawful(jobs, d, row[d], row'[d])
  BY CommitsAreLawful
<1>4. <<d, rd[d]>> \in Completed(jobs) <=> Done(jobs, d, row[d].round)
  BY <1>1, CompletedIsDone
<1>. HIDE DEF st, rd
<1>5. EarnedBy(jobs, d, row[d]) => Life!Earned(d)
  BY <1>1, <1>4 DEF EarnedBy, Open, OpenStatuses, Life!Earned, Life!Active, Completed, st, rd
<1>6. Open(row[d]) => st[d] \in Life!Active
  BY <1>1 DEF Open, OpenStatuses, Life!Active
<1>. QED
  BY <1>1, <1>2, <1>3, <1>5, <1>6 DEF Lawful, Life!Moves, Life!Findings, st, rd

\* A commit of a request opens a decision, the end of a job completes it, and
\* every other step is a commit of lawful moves, or changes nothing here.
LEMMA StepImplementsDecisionLife ==
  ASSUME IInv, IInv', Ladder, [Next]_vars
  PROVE  [Life!LifeNext]_(Life!lifeVars)
<1>. DEFINE st == [x \in Decisions |-> row[x].status]
            rd == [x \in Decisions |-> row[x].round]
<1>1. CASE \E d \in Decisions : RequestCommits(d)
  <2>1. PICK d \in Decisions : RequestCommits(d)
    BY <1>1
  <2>2. /\ row[d].status = "absent" /\ row'[d].status = "queued"
        /\ row'[d].round = row[d].round
        /\ \A e \in Decisions \ {d} : row'[e] = row[e]
    <3>1. \A e \in Decisions \ {d} : row'[e] = row[e]
      BY <2>1, CommittedRow
    <3>2. Drafted(d) /\ Placed(d)
      BY DEF Ladder
    <3>. QED
      BY <2>1, <3>1, <3>2, CommittedRow DEF Drafted, Placed
  <2>3. \A e \in Decisions : Company[e] = Company[d] => ~Open(row[e])
    BY <2>1, <2>2 DEF RequestCommits, InTransaction, IInv, Exclusive, Open, OpenStatuses
  <2>4. st' = [st EXCEPT ![d] = "queued"] /\ rd' = rd
    BY <2>2
  <2>5. UNCHANGED jobs
    BY <2>1 DEF RequestCommits
  <2>6. Life!OpenDecision(d)
    BY <2>2, <2>3, <2>4, <2>5 DEF Life!OpenDecision, Life!Active, Open, OpenStatuses
  <2>. QED
    BY <2>6 DEF Life!LifeNext
<1>2. CASE \E j \in DOMAIN jobs : /\ JobEnds(j)
                                  /\ Completed(jobs') = Completed(jobs) \cup {<<j[1], j[2]>>}
  <2>1. PICK j \in DOMAIN jobs : /\ JobEnds(j)
                                 /\ Completed(jobs') = Completed(jobs) \cup {<<j[1], j[2]>>}
    BY <1>2
  <2>2. j[1] \in Decisions /\ j[2] \in 0 .. MaxRounds - 1 /\ HasPlace(j, jobs)
    BY JobsAreNamed DEF Ladder
  <2>3. UNCHANGED row
    BY <2>1 DEF JobEnds, decisionVars
  <2>4. j[2] > 0 => <<j[1], j[2] - 1>> \in Completed(jobs)
    BY <2>2, CompletedIsDone DEF HasPlace
  <2>5. Life!CompleteJob(j[1], j[2])
    BY <2>1, <2>2, <2>3, <2>4 DEF Life!CompleteJob, HasPlace, Completed
  <2>. QED
    BY <2>2, <2>5 DEF Life!LifeNext
<1>3. CASE /\ Completed(jobs') = Completed(jobs)
           /\ ~ \E d \in Decisions : RequestCommits(d)
  <2>1. \A d \in Decisions : Life!Moves(d)
    BY <1>3, LawfulIsAMove
  <2>2. st' \in [Decisions -> Life!Statuses] /\ rd' \in [Decisions -> Nat]
    BY DEF IInv, Tables, TypeOK, RowType, OpenStatuses, ClosedStatuses, Life!Statuses,
           Life!Active, Life!Findings
  <2>3. Life!Commit
    BY <1>3, <2>1, <2>2 DEF Life!Commit, Completed
  <2>. QED
    BY <2>3 DEF Life!LifeNext
<1>. QED
  BY <1>1, <1>2, <1>3, HowJobsComplete

\* Whatever the transactions of requests, observers, sweeps and cancels do to
\* one another, and whatever fails, the committed decisions are those of
\* DecisionLife: rounds are climbed one by one on completed jobs, findings are
\* those of their own round, and only a cancel touches what is closed.
THEOREM EscalationImplementsDecisionLife == Spec => ImplementsDecisionLife
<1>1. Init => Life!LifeInit
  <2>1. SUFFICES ASSUME Init PROVE Life!LifeInit
    OBVIOUS
  <2>2. ASSUME NEW d \in Decisions
        PROVE  /\ row[d].status \in {"absent", "research_required", "queued"}
               /\ row[d].status = "absent" <=> d \notin Legacy
               /\ row[d].round = 0
    BY <2>1 DEF Init, InitialRows, LegacyRows, Row
  <2>3. \A j \in DOMAIN jobs : jobs[j].status # "completed"
    BY <2>1 DEF Init, NewJob
  <2>. QED
    BY <2>2, <2>3 DEF Life!LifeInit
<1>2. IInv /\ IInv' /\ Ladder /\ [Next]_vars => [Life!LifeNext]_(Life!lifeVars)
  BY StepImplementsDecisionLife
<1>. QED
  BY <1>1, <1>2, InitLadder, NextLadder, EscalationInvariant, PTL
     DEF Spec, ImplementsDecisionLife, Life!LifeSpec
=============================================================================
