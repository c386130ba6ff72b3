---------------------------- MODULE DiscoveryRun ----------------------------
(***************************************************************************)
(* A discovery run beside the job that scans it: the endpoint that         *)
(* schedules the run, services/jobs/discovery_research_job.py and          *)
(* market_discovery_service.process_run.                                   *)
(*                                                                         *)
(* The run's row says what was scanned, the job's row (JobContract) who    *)
(* may scan.  A scanner is a worker that claimed the job, or the           *)
(* background task of the process that took the request.  It works on its  *)
(* own copy of the run, `mem`, as the ORM does: a commit writes the        *)
(* columns that changed in the copy.                                       *)
(*                                                                         *)
(* Modelled are runs over a given universe of tickers; the dynamic stage   *)
(* that replaces the universe is off.  Nothing in the repository asks a    *)
(* discovery job to stop, so no cancellation is modelled.                  *)
(***************************************************************************)
EXTENDS JobContract, FiniteSets

CONSTANTS
  Workers,     \* worker processes; a restart is a process with a new name
  Task,        \* the background task
  Universe,    \* number of tickers of the run
  MaxFaults,   \* bound on crashes and database errors in a behaviour
  MaxStalls    \* bound on leases that lapse under a live scanner

ASSUME DiscoveryAssumption ==
  /\ NoOne \notin Workers
  /\ Task \notin Workers
  /\ Universe \in Nat \ {0}
  /\ MaxFaults \in Nat
  /\ MaxStalls \in Nat

VARIABLES
  run,      \* the row of the run
  listed,   \* the tickers the run has a candidate for
  queued,   \* whether the job was committed
  job,      \* its row
  api,      \* where the request that created the run is
  pc,       \* where each scanner is
  mem,      \* its copy of the run
  faults,
  stalls

vars == <<run, listed, queued, job, api, pc, mem, faults, stalls>>

Tickers == 1 .. Universe
Scanners == Workers \cup {Task}

RunEnded(r) ==
  r.status \in {"completed", "completed_with_warnings", "failed", "cancelled"}

NewRun == [status |-> "pending", processed |-> 0, errors |-> 0]

Init ==
  /\ run = NewRun
  /\ listed = {}
  /\ queued = FALSE
  /\ job = FreshRow
  /\ api = "created"
  /\ pc = [s \in Scanners |-> "idle"]
  /\ mem = [s \in Scanners |-> NewRun]
  /\ faults = 0
  /\ stalls = 0

GoTo(s, place) == pc' = [pc EXCEPT ![s] = place]

Fault ==
  /\ faults < MaxFaults
  /\ faults' = faults + 1

---------------------------------------------------------------------------
(* The request: _schedule_run *)

StartTask == GoTo(Task, "load")

\* The durable queue, or the background task where it is switched off.
Schedule ==
  /\ api = "created"
  /\ api' = "answered"
  /\ \/ queued' = TRUE /\ UNCHANGED pc
     \/ StartTask /\ UNCHANGED queued
  /\ UNCHANGED <<run, listed, job, mem, faults, stalls>>

\* The enqueue raises; its commit may have landed.
EnqueueRaises ==
  /\ api = "created"
  /\ Fault
  /\ api' = "failed"
  /\ queued' \in BOOLEAN
  /\ UNCHANGED <<run, listed, job, pc, mem, stalls>>

\* existing_job: a lookup that fails counts as no job.
FallBack ==
  /\ api = "failed"
  /\ api' = "answered"
  /\ \/ queued /\ UNCHANGED <<pc, faults>>
     \/ ~queued /\ StartTask /\ UNCHANGED faults
     \/ StartTask /\ Fault
  /\ UNCHANGED <<run, listed, queued, job, mem, stalls>>

RequestDies ==
  /\ api \in {"created", "failed"}
  /\ Fault
  /\ api' = "answered"
  /\ UNCHANGED <<run, listed, queued, job, pc, mem, stalls>>

---------------------------------------------------------------------------
(* The job *)

BackoffElapses ==
  /\ ~job.due
  /\ job' = [job EXCEPT !.due = TRUE]
  /\ UNCHANGED <<run, listed, queued, api, pc, mem, faults, stalls>>

AtWork(w) == pc[w] \in {"load", "mark", "scan", "extract", "return"}

OwnerAtWork == \E w \in Workers : job.owner = w /\ AtWork(w)

LeaseLapses ==
  /\ job.lease = "live"
  /\ job' = [job EXCEPT !.lease = "lapsed"]
  /\ IF OwnerAtWork
       THEN stalls < MaxStalls /\ stalls' = stalls + 1
       ELSE UNCHANGED stalls
  /\ UNCHANGED <<run, listed, queued, api, pc, mem, faults>>

\* A claim is one step: what its stale scan may do is JobQueue's subject.
ClaimJob(w) ==
  /\ pc[w] = "idle"
  /\ queued
  /\ IsClaimable(job)
  /\ job' = Claim(job, w)
  /\ GoTo(w, "load")
  /\ UNCHANGED <<run, listed, queued, api, mem, faults, stalls>>

Retire(w) ==
  /\ pc[w] = "idle"
  /\ queued
  /\ IsAbandoned(job)
  /\ job' = Abandon(job)
  /\ UNCHANGED <<run, listed, queued, api, pc, mem, faults, stalls>>

Beat(w) ==
  /\ AtWork(w)
  /\ MayHeartbeat(job, w)
  /\ job' = Heartbeat(job)
  /\ UNCHANGED <<run, listed, queued, api, pc, mem, faults, stalls>>

---------------------------------------------------------------------------
(* process_run *)

\* Mutant: only the row's existence is checked.
MayProcessAny(s, r) == TRUE

\* An ended run is not reprocessed; the background task leaves a running one
\* alone, the lease holder does not (owned_by_lease).
MayProcess(s, r) == ~RunEnded(r) /\ (s = Task => r.status # "running")

Leave(s) == GoTo(s, IF s = Task THEN "gone" ELSE "return")

Load(s) ==
  /\ pc[s] = "load"
  /\ mem' = [mem EXCEPT ![s] = run]
  /\ IF MayProcess(s, run) THEN GoTo(s, "mark") ELSE Leave(s)
  /\ UNCHANGED <<run, listed, queued, job, api, faults, stalls>>

\* Mutants: a retry starts over; it forgets the errors counted so far.
ResumedFromStart(s, r) == [NewRun EXCEPT !.status = "running"]
ResumedErrorFree(s, r) == [r EXCEPT !.status = "running", !.errors = 0]

\* processed_count is a cursor into the universe, on the durable path only.
Resumed(s, r) ==
  IF s \in Workers /\ r.processed > 0
    THEN [r EXCEPT !.status = "running"]
    ELSE [NewRun EXCEPT !.status = "running"]

Mark(s) ==
  /\ pc[s] = "mark"
  /\ run' = IF mem[s].status = "running" THEN run
                                         ELSE [run EXCEPT !.status = "running"]
  /\ mem' = [mem EXCEPT ![s] = Resumed(s, @)]
  /\ GoTo(s, "scan")
  /\ UNCHANGED <<listed, queued, job, api, faults, stalls>>

MoreToScan(s) == mem[s].processed < Universe

\* The checkpoint before each ticker renews the lease, or stops the worker
\* that lost it; the background task has none.
Checkpoint(s) ==
  /\ pc[s] = "scan"
  /\ MoreToScan(s)
  /\ \/ s = Task /\ GoTo(s, "extract") /\ UNCHANGED job
     \/ /\ s \in Workers /\ MayHeartbeat(job, s)
        /\ job' = Heartbeat(job)
        /\ GoTo(s, "extract")
     \/ /\ s \in Workers /\ ~MayHeartbeat(job, s)
        /\ GoTo(s, "idle")
        /\ UNCHANGED job
  /\ UNCHANGED <<run, listed, queued, api, mem, faults, stalls>>

\* One ticker: its candidate and the counters are one commit.  An extraction
\* that raised leaves no candidate; one that failed leaves one, and both count
\* as errors.
Extract(s) ==
  LET t == mem[s].processed + 1 IN
  /\ pc[s] = "extract"
  /\ \E candidate, error \in BOOLEAN :
       /\ candidate \/ error
       /\ candidate => t \notin listed
       /\ listed' = IF candidate THEN listed \cup {t} ELSE listed
       /\ mem' = [mem EXCEPT ![s].processed = t,
                             ![s].errors = IF error THEN @ + 1 ELSE @]
       /\ run' = [run EXCEPT !.processed = t,
                             !.errors = IF error THEN mem[s].errors + 1 ELSE @]
  /\ GoTo(s, "scan")
  /\ UNCHANGED <<queued, job, api, faults, stalls>>

FinishRun == run' = IF RunEnded(run) THEN run ELSE [run EXCEPT !.status = "failed"]

Owns(w) == job.owner = w

\* uq_discovery_candidate_run_ticker_exchange: a second candidate for a ticker
\* is refused, which fails the job for good (an IntegrityError is permanent)
\* or ends the task, which marks the run.
Collide(s) ==
  /\ pc[s] = "extract"
  /\ mem[s].processed + 1 \in listed
  /\ IF s = Task THEN FinishRun /\ GoTo(s, "gone") /\ UNCHANGED job
     ELSE /\ UNCHANGED run
          /\ job' = IF Owns(s) THEN Fail(job, FALSE) ELSE job
          /\ GoTo(s, IF Owns(s) THEN "notify" ELSE "idle")
  /\ UNCHANGED <<listed, queued, api, mem, faults, stalls>>

Verdict(r, warned) ==
  IF r.errors >= r.processed THEN "failed"
  ELSE IF r.errors > 0 \/ warned THEN "completed_with_warnings"
  ELSE "completed"

Finish(s) ==
  /\ pc[s] = "scan"
  /\ ~MoreToScan(s)
  /\ \E warned \in BOOLEAN :
       run' = [run EXCEPT !.status = Verdict(mem[s], warned)]
  /\ mem' = [mem EXCEPT ![s] = run']
  /\ Leave(s)
  /\ UNCHANGED <<listed, queued, job, api, faults, stalls>>

---------------------------------------------------------------------------
(* The end of the job *)

CompleteJob(w) ==
  /\ pc[w] = "return"
  /\ \E warned \in BOOLEAN :
       job' = IF Owns(w) THEN Complete(job, warned) ELSE job
  /\ GoTo(w, "idle")
  /\ UNCHANGED <<run, listed, queued, api, mem, faults, stalls>>

\* The handler raises, and the failure is recorded or the recording fails too.
HandlerRaises(w) ==
  /\ AtWork(w)
  /\ Fault
  /\ \/ GoTo(w, "idle") /\ UNCHANGED job
     \/ \E transient \in BOOLEAN :
          /\ Owns(w)
          /\ job' = Fail(job, transient)
          /\ GoTo(w, IF WillRetry(job, transient) THEN "idle" ELSE "notify")
  /\ UNCHANGED <<run, listed, queued, api, mem, stalls>>

\* reconcile_discovery_run, told of a job that ended unfinished.
Notify(w) ==
  /\ pc[w] = "notify"
  /\ FinishRun
  /\ GoTo(w, "idle")
  /\ UNCHANGED <<listed, queued, job, api, mem, faults, stalls>>

NotificationLost(w) ==
  /\ pc[w] = "notify"
  /\ Fault
  /\ GoTo(w, "idle")
  /\ UNCHANGED <<run, listed, queued, job, api, mem, stalls>>

\* Mutant: the sweep leaves dead-lettered jobs to the observer.
UnfinishedFailedOnly == job.status = "failed"

UnfinishedTerminal == job.status \in {"failed", "dead_letter", "cancelled"}

\* reconcile_orphaned_discovery_runs
Sweep(w) ==
  /\ pc[w] = "idle"
  /\ queued
  /\ ~RunEnded(run)
  /\ UnfinishedTerminal
  /\ FinishRun
  /\ UNCHANGED <<listed, queued, job, api, pc, mem, faults, stalls>>

---------------------------------------------------------------------------
(* Crashes *)

Crash(w) ==
  /\ pc[w] # "dead"
  /\ Fault
  /\ GoTo(w, "dead")
  /\ UNCHANGED <<run, listed, queued, job, api, mem, stalls>>

\* The background task raises and marks the run, or dies without a word.
TaskFails ==
  /\ pc[Task] \notin {"idle", "gone"}
  /\ Fault
  /\ FinishRun \/ UNCHANGED run
  /\ GoTo(Task, "gone")
  /\ UNCHANGED <<listed, queued, job, api, mem, stalls>>

---------------------------------------------------------------------------
ProcessRun(s) ==
  Load(s) \/ Mark(s) \/ Checkpoint(s) \/ Extract(s) \/ Collide(s) \/ Finish(s)

Work(w) ==
  ClaimJob(w) \/ Retire(w) \/ ProcessRun(w) \/ CompleteJob(w) \/ Notify(w)

Next ==
  \/ Schedule \/ EnqueueRaises \/ FallBack \/ RequestDies
  \/ BackoffElapses \/ LeaseLapses
  \/ ProcessRun(Task) \/ TaskFails
  \/ \E w \in Workers :
       \/ Work(w) \/ Beat(w) \/ Sweep(w)
       \/ HandlerRaises(w) \/ NotificationLost(w) \/ Crash(w)

\* Workers are scheduled, the sweep comes round, backoffs elapse and the lease
\* of a job nobody works on runs out.
Fairness ==
  /\ \A w \in Workers : WF_vars(Work(w)) /\ WF_vars(Sweep(w))
  /\ WF_vars(BackoffElapses)
  /\ WF_vars(~OwnerAtWork /\ LeaseLapses)

Spec == Init /\ [][Next]_vars

FairSpec == Spec /\ Fairness

---------------------------------------------------------------------------
(* Properties *)

RunRow ==
  [status : {"pending", "running", "completed", "completed_with_warnings",
             "failed", "cancelled"},
   processed : 0 .. Universe, errors : Nat]

JobRow ==
  [status : StoredStatuses, attempt : 0 .. MaxAttempts,
   owner : Workers \cup {NoOne}, lease : {"none", "live", "lapsed"},
   due : BOOLEAN, cancelRequested : {FALSE}, result : {0}]

\* Every variable has its type; no scan goes past the end of the universe,
\* wherever it was resumed.
TypeOK ==
  /\ run \in RunRow
  /\ listed \in SUBSET Tickers
  /\ queued \in BOOLEAN
  /\ job \in JobRow
  /\ api \in {"created", "failed", "answered"}
  /\ pc \in [Scanners -> {"idle", "load", "mark", "scan", "extract", "return",
                          "notify", "dead", "gone"}]
  /\ mem \in [Scanners -> RunRow]
  /\ faults \in 0 .. MaxFaults
  /\ stalls \in 0 .. MaxStalls

\* A run that says it completed has a candidate for every ticker, although it
\* was scanned in pieces, by attempts that failed, or by two scanners at once
\* whose counters overwrote each other (the cursor of process_run).
CompletedRunListsEveryTicker ==
  run.status = "completed" => listed = Tickers

\* One scanner at a time: no lease lapsed under a live scanner, and the
\* fallback did not start a task beside the job.
Exclusive == stalls = 0 /\ ~(queued /\ pc[Task] # "idle")

\* As long as scanners are exclusive, the cursor a retry resumes from is exact:
\* no crash and no retry makes a scanner list a company again, which would fail
\* the job for good (the resume of process_run).
ExclusiveScansNeverCollide ==
  Exclusive => \A s \in Scanners :
                 pc[s] = "extract" => mem[s].processed + 1 \notin listed

\* And a run that ended is not touched again by a retry, an observer or a
\* sweep (process_run, _finish_run).
EndedRunIsLeftAlone ==
  [][Exclusive /\ RunEnded(run) => run' = run /\ listed' = listed]_vars

\* A run whose job was committed ends, whatever crashes or goes unannounced,
\* unless a scanner was not exclusive (the observer and the sweep).
RunWithAJobEnds ==
  []Exclusive => (queued ~> RunEnded(run))

=============================================================================
