# Verification of the InvestingBuddy research engine

TLA+ modules, TLC configurations and TLAPS proofs for the parts of the
repository where state is hard to keep right. Where several actors write the
same rows: the durable job queue, the idempotent submission of jobs, the
discovery run that such a job scans, the content record that a
company-research job writes, and the escalation of research decisions that buy
jobs. Where many budgets, limits and cancellations meet within one
process: the director's investigation loop, the LLM councils on one token
window, and the limiter and extraction pool of web research. Everything is
translated from the Python sources under `src/apps/api/app`; paths below are
relative to that directory.

Run from this directory: `tlasany M.tla`, `tlc -config X.cfg MCM.tla`,
`tlapm MProofs.tla`.

## 1. The system

| Component | State it keeps | Operations | Who else touches the state |
|---|---|---|---|
| Job contract (`services/jobs/job_contract.py`) | none: pure rules over one row | claimable, claim, heartbeat, complete, fail, cancel, abandon | store |
| Job store (`services/jobs/job_store.py`) | table `research_jobs` | enqueue, claim_next, heartbeat, complete, fail, cancel, request_cancel | all workers, the API, escalation |
| Worker (`services/jobs/worker.py`) | current job, cancel flag, lease flag | run_once, heartbeat task, handlers, terminal observers, periodic sweeps | its handler and heartbeat run concurrently |
| Company-research job (`company_research_job.py`, `company_research_service.py`) | a content record (an `agent_runs` row with its envelope), the job's link to it, consumption rows | create, link, write the envelope, report stages, publish, record what was consumed, compose what a reader sees | the workers of several attempts, the API |
| Discovery job (`discovery_research_job.py`) | discovery runs | submit, scan, close | API |
| Escalation (`services/escalation/`) | table `research_decisions` | escalate a discovery run, close a round, recover, reconcile | API request, terminal observer, sweeps of every worker, operator's cancel |
| Escalation predicates (`predicates.py`, `cost.py`) | none | refuse or allow an escalation, cap the cost | controller |
| Market discovery (`market_discovery_service.py`, `services/discovery`) | discovery runs and candidates | scan, reconcile a run with its job | API, job handler |
| Director (`services/director/loop.py`) | a run's rounds, pending tasks, budgets, stop reason; ledger rows | begin a round or a task, web round, gap review, stop | investigator, web follow-up, ledger: one coroutine |
| Investigator (`services/agents/investigator.py`) | what one task found and spent | climb the acquisition ladder of a question | the director calls it |
| Web follow-up (`services/web_research/followup.py`) | gaps handled, web rounds and queries spent | select gaps, run a round | the director calls it |
| Retry engine and councils (`services/llm/retry_engine.py`, `council.py`) | outputs, attempts, a deadline | attempt, skip, back off, retry | |
| Token pacer (`services/llm/token_pacer.py`) | a sliding window of tokens | acquire, settle | all councils of the process |
| Web limiter (`services/web_research/limiter.py`) | a window, a semaphore and a count per domain; a global semaphore | learn a Crawl-delay, enter and leave a slot | all fetches of the process |
| Extraction pool (`services/web_research/pool.py`) | a gate, an executor, its run count | take, warm, parse, kill, replace | all fetches of the process |
| Ledger, corpus | facts, documents | supersede, re-ingest | one workflow at a time, mostly |
| Reports, scoring, sources, entities, LLM council, front end, ... | rows of one request | long sequential computations | none |

A discovery run proposes candidates. An escalation request turns a candidate
into a *decision* (at most one open decision per company) and enqueues its
first job. A worker leases the job, runs it and writes how it ended; then it
calls the terminal observers. The escalation observer judges the round:
another round (a new job) or an end with a reason. Because notifications can
be lost, every worker also runs a sweep that looks for decisions without a job
and for decisions whose job has ended.

What is hard: jobs and decisions are committed in *different* transactions;
claims work on rows scanned earlier; leases lapse under slow workers; a
request, an observer, sweeps of several workers and an operator may act on one
decision at once. A research job, in turn, is a loop of rounds whose tasks
call tools and models: there, half a dozen budgets can run out between any two
steps and the run must say truthfully why it stopped; councils share one
deployment's tokens; and a fetch may be cancelled at every await while it
holds permits, or a parse. `PROJECT.json` lists these hazards line by line with the
properties that cover them.

What makes each component correct:

* queue: attempts are bounded, a result is never written by a worker whose
  attempt was superseded, a cancelled job was asked to stop, an end is final
  and announced once, every job ends;
* submission: one live job per key, and no caller is given an old run unless a
  request was overtaken by a whole scan of later ones;
* discovery: a completed run lists every ticker, a resumed scan repeats
  nothing, an ended run stays as it is, every run with a job ends;
* company research: a reader of a completed job is given the id of its last
  attempt's report, and that report beside it while only owners write; what the
  attempt consumed is on record, retries share a content record, and a job
  called off in time never completes;
* escalation: one open decision per company, bounded rounds, findings only
  from completed and measured rounds, ends are final, every decision ends;
* director: no budget is exceeded, the reason a run gives for its stop is true,
  a completed run stays complete, a paid web round is read, the loop ends;
* councils: a council ends within the time other components assume, retries
  respect the reserve and completed outputs, the token window is not burst;
* web: permits and gates come back on every way out, the pace of a domain is
  kept, no parse outlives or cuts short another call, every fetch ends.

## 2. Modules

| Module | Models | Proofs |
|---|---|---|
| `JobContract` | the pure rules of one row | used by all below |
| `JobLifecycle` | abstract specification: what a job promises its readers | |
| `JobQueue` | `research_jobs`, workers, heartbeats, crashes, cancel requests | `JobQueueProofs` |
| `JobSubmission` | `JobStore.enqueue` with its generations | `JobSubmissionProofs` |
| `DiscoveryRun` | a discovery run, its job, its scanners, observer and sweep | `DiscoveryRunProofs` |
| `CompanyResearch` | a company-research job, its content record, and the workers of its attempts | `CompanyResearchProofs` |
| `DecisionLife` | abstract specification: the rounds and ends of research decisions | |
| `Escalation` | decisions, their rounds and everyone who moves them | `EscalationProofs` |
| `InvestigationLoop` | the director's loop with the investigator's ladder and the web rung | `InvestigationLoopProofs` |
| `TokenPacer` | pure rules of the shared token window | `LLMCouncilProofs` |
| `LLMCouncil` | councils of a process: initial pass, retry pass, pacing, calls | `LLMCouncilProofs` |
| `WebLimiter` | the limiter's slots, pace and eviction | `WebFetchProofs` |
| `ExtractionPool` | the gate, the executors, parses and their deaths | `WebFetchProofs` |
| `WebFetch` | composes both: a fetch goes through the limiter, then the pool | `WebFetchProofs` |
| `MC*` | the values of constants that a `.cfg` cannot write | |

### JobContract, JobLifecycle, JobQueue

A row keeps the columns the rules read: status, attempt, lease owner, lease
(`none`, `live`, `lapsed`), whether `available_at` has come, the cancel flag and
the attempt that produced the result. Time is the two actions `LeaseLapses` and
`BackoffElapses`; no clock is kept, so every relative order of a heartbeat, a
lapse and a write is explored, and the arithmetic of delays is not.

One action per store call, except where a call reads a row and writes it
under a guard weaker than what it read. `claim_next` scans (`Scan`, which
copies rows into `seen`) and then tries each row (`TryCandidate`: retire,
win or lose, with the guard of the UPDATE and the stale copy as the source of
the columns). `request_cancel` is three actions. The writes of an outcome are
guarded on `lease_owner`, an identity that is not reused and that handles one
job at a time, and stay one action. Restarts are workers with new names, as in
the code, where the owner contains a random part. `Crash` and `DatabaseError`
are bounded by `MaxFaults`. The observers of `notify_terminal` are one action.
A job type without a handler is a job outside `Known`.

Not kept: progress, error texts, payload, `link_agent_run`, how long a stop
waits for the job in hand. The claim scan's order by `available_at` is any
order, its limit is `Candidates`.

`JobLifecycle` is the abstract specification: a status and an attempt per
job, legal transitions only (`LegalTransitions`), a retry only while attempts
are left, a dead letter only when every attempt is spent. `ImplementsLifecycle`
maps the table to it.

### JobSubmission

The rows of one base key, numbered by generation. `Arrive`, `Read` (the
bounded scan of the newest rows by `created_at`, whose order among equal
timestamps is open), `Insert` or `Collide` on the unique key, up to
`EnqueueAttempts` times, and `Fallback`. `JobEnds` lets the live generation end
at any moment. `lapsed` is history: which generations were over when a request
came. The real constants are `_ENQUEUE_ATTEMPTS = 2` and `_GENERATION_SCAN = 25`.
The scan is truncated as soon as a key has had more runs than that, which is
for good, since rows are not deleted; so the run scans two rows and has up to
five. A truncated scan still finds the newest generation unless `created_at`
orders the rows otherwise than their numbers, and it does only when a request
inserts after others that came later (`Overtook`).
`NobodyOvertakenByAScan` is the condition of `NeverAnsweredWithAnOldRun`: with 25
in the code, a request would have to sleep, between its arrival and its insert,
while 25 runs of one company are asked for, run and end. Without the condition
TLC finds an old answer.

### DiscoveryRun

The row of one run (`status`, `processed_count`, `error_count`), the tickers that
have a candidate, and the row of its job with the rules of `JobContract`. A
*scanner* is a worker that claimed the job, or `Task`, the background task the
endpoint falls back to. `mem` is a scanner's copy of the run: the ORM session
loads it once (`expire_on_commit=False`), and a commit writes by primary key the
columns that changed in the copy.

* Request: `Schedule` (either switch setting), `EnqueueRaises` with the commit
  landed or not, `FallBack` after `existing_job`, whose lookup may fail and then
  counts as no job, `RequestDies`.
* Scan: `Load` (terminal check, the running guard of the task only), `Mark` (the
  commit of `running`, and where to resume from), `Checkpoint` (the renewal of
  the lease between tickers), `Extract` (one ticker, one commit), `Collide` (the
  unique constraint on run, ticker and exchange refuses a second candidate: a
  permanent failure of the job), `Finish` (the verdict).
* Job: `ClaimJob`, `Retire`, `Beat`, `CompleteJob`, `HandlerRaises`, with the
  bookkeeping of `JobQueue` left out, since that module checks it.
* Closing from outside: `Notify` (the observer), `Sweep`, `TaskFails`.

`stalls` counts leases that lapse under a live scanner. A scanner is `Exclusive`
when there was none and the task does not run beside the job; what a run
promises is stated with this condition where the code needs it. Not modelled:
the dynamic stage (off by default), ranks and warnings, the restart of a run
that was `running` for 30 minutes (nothing calls the task a second time), the
sweep's limits (7 days, 200 runs), and cancellation: the handler has a branch
for it, but nothing in the repository asks a discovery job to stop.

### CompanyResearch

`job` is the row with the rules of `JobContract`, `link` its `agent_run_id`,
`content` the envelopes of the content records. A record is named by the attempt
that created it and a report by the attempt that produced it, so who
overwrites whom can be told; an envelope is its status and its report.
`measured` and `spent` are the attempts whose executor returned what it
consumed and those with a consumption row. `hand` is what a worker's attempt
works with: above all its copy of the envelope, loaded once and written whole.

* Job: `ClaimJob` (with `Entry`, where the handler starts), `Retire`, `Beat`,
  `RequestCancel`, `CancelAtClaim`, `CompleteJob`. A claim is one step here: one
  from a stale scan (`JobQueue` has them) leaves the same state as one made
  before the link or the flag it did not see. The worker's flags are not kept
  either, because every checkpoint reads the row again, and neither a lost
  lease nor a cancel request is ever taken back.
* Handler: `CreateRecord` and `LinkRecord` (two commits), `IdentityCheckpoint`,
  `FinalCheckpoint`.
* Service: `LoadRecord`, `StartResearch`, `Advance` (which writes the stage) and
  `ReportStage` (the checkpoint, and the callers that swallow what it raises),
  `ResearchFails`, `ResearchReturns`, `Publish`, `RecordConsumption`.
* `StoreFails` is a database call that raises, `Crash` a process that dies.
* `Shown` is what `compose_envelope` shows of a report: the id beside the status
  (`ReportId`, where the row wins) and the `report` summary, which has an id of
  its own and is the record's (`Inner`).

`stalls` counts leases that lapse under a live worker. `lost` and `strayed` are
history: the attempts whose recording failed, and whether a worker ever wrote
the link or a record without owning the row. Not kept: the texts and
the other fields of an envelope (warnings and workflow status are written and
read with `report`), the path without a durable job, which has no
lease and no retry, and the lineage columns. Records are not deleted.

### Escalation

`row` is the committed table, `work` a row inside the transaction that holds it,
`lock` who that is. `jobs` is indexed by decision, round and generation.
`JobStore.enqueue` is one action here (`JobSubmission` justifies it) and it is
committed at once, which is the code's arrangement. A job's life is its end
(`JobQueue` justifies that it comes). Evidence is a number per company; the
remaining gaps and the cost of a round are free.

* Request: `RequestReads`, `RequestCreates`, `RequestEnqueues`,
  `RequestCommits`, or `RequestFails` anywhere in between. One candidate per
  request; a request over several is one transaction, and its failure is
  the failure of each.
* Observer: `ObserverAdvances` takes the row lock, judges and enqueues;
  `TransactionCommits` or `TransactionFails` ends it. `NotificationLost` covers
  crashes and exceptions; ends a worker does not announce (cancelled, retired)
  never enter `told`.
* Sweep: one transaction over both halves, rows taken `FOR UPDATE SKIP
  LOCKED`, committed only if it counted something (`MustCommit`). `LIMIT 50` is
  not modelled.
* Cancel: reads without a lock, then writes two columns and asks the job it
  read to stop. The endpoint says that a decision "that has already reached a
  terminal state is returned unchanged" (`research_decisions.py:252`), and its test
  wants no honest `exhausted` turned into `operator_cancelled`; the guard is
  the status that was read, so a finding that an observer or a sweep commits
  between that read and the write is overwritten all the same (read, observer
  judges and commits, write). `ClosedDecisionsStayClosed` and `DecisionLife` allow
  this one exception and show that it is the only one.
* `Legacy` decisions exist at the start, without a baseline, with or without
  their job; a company may be gone (`ON DELETE SET NULL`).

`DecisionLife` is the abstract specification: a status and a round per decision and
the rounds of which a job completed. A company has none open when one is opened;
a transaction leaves a decision where it is, requeues it in its round, gives it
up, or, if a job of its round completed, records a finding or climbs one round,
below the limit; a job is at most one round ahead (a rolled back
transaction leaves its job behind). `ImplementsDecisionLife` maps the committed
rows: transactions, locks, the observer and the sweeps disappear in it.

### InvestigationLoop

One coroutine, so `pc` is where it stands and each action is what happens up to
the next decision. The ledger is reduced to what the loop reads back: a status
per question and a set of gap rows whose `kind` says what the loop and the web
rung make of their type and text (closable or not, answerable by the web,
provable).

* Round: `BeginRound` (the `for` and its `else`), `HitLimit` (the three limits in
  their order, before each task), `BeginTask` (which takes over the queries of
  a web round), `EndRound` (the completion rules).
* Task: `Ask(q)` is the acquisition ladder of one question. `Climb` counts its
  calls against the call budget (platform tools, a batch of the corpus
  intents, one search with its fetches) and its searches against the search
  budget: the one of the last rung, and one the plan asked for outright among the
  platform tools (`bought`); what the tools and the model bring is
  any `Turns` that the ladder's own conditions allow. `FinishTask` is the loop's
  bookkeeping of the outcome; `TaskRaises` is its `except`, which counts the
  task and loses the rest.
* Web rung: `WebRefused`, `NothingForTheWeb`, `WebRound` (with `SelectGaps`).
* Review: `ReviewCompleted` and `ReviewUnfinished` with `FollowUps`, and the
  ranking of tasks under the task budget (`Outranks`, `Kept`).
* End: `Close` with `SettleWebStop`.

`leftOut` is history: the questions whose task a budget refused and that were
not asked since. Not kept: findings and their texts, ownership, the dimensions
of a contract (its evidence satisfies it or not), the row limit of `open_gaps`
(100, see section 5), and the order of a task's questions.

### TokenPacer, LLMCouncil

Time is a counter that advances when every council waits (`Tick`). What the code
does between two awaits takes no time. `Skip`, `Turn`, `EndInitialPass` are the
initial pass; `Review` is the head of `retry_agent`'s loop with its deadline,
its reserve and the choice of a wait; `Wake` ends a sleep. An attempt is
`Acquire` (which may sleep and look again), one request to the provider, perhaps
a second one that asks for a reply in JSON (`Repair`, in `complete_json`, with a
timeout of its own and under the same lease), and `Return`: any outcome, with
the tokens it settles. `MaxCall` is the timeout of one request, so an attempt
lasts up to two. `Spent` settles what the replies reported (`Usage`), below the
estimate or, by `Overrun`, above it. An entry of the window remembers in `over` whether it was let
through although it did not fit, or spent more than estimated: the pacer is
advisory, and `NoBurst` claims nothing in those cases. Not kept: jitter,
prompts, citations, the deterministic synthesis, and logging.

### WebLimiter, ExtractionPool, WebFetch

`at` is where a fetch stands among the awaits of `slot`: before the domain's
semaphore, looking at the window, asleep, before the global slot, in its
request. `Learn` is `set_crawl_delay`, called with what the origin's robots.txt
says. `State` and `Fresh` are the eviction of idle domains, which starts their
window over. `CancelFetch` may come at every await and `Leave` is the way out of
every `finally`. `started` is history: a domain's last start and the interval
then in force, across evictions.

In the pool an executor is a number; `TakeInstalled` and `TakeFresh` are
`_get_executor` (no await between the gate and the submission when one is
installed), `Drop` is `_forget` and `_discard`, `Reaped` the join of killed
processes. `WorkerDies` is a crash or a resource limit, bounded by `MaxDeaths`.
`CancelCall` covers the caller that gives up in each place.

`WebFetch` lets the document of a fetch that ended go to the pool (`Extract`),
and a stage be abandoned on either side (`Abandon`). Not kept: robots and
redirect rules, DNS, bodies, extraction itself.

## 3. Runs

| Run | Bounds | Shows |
|---|---|---|
| `queue` | 2 jobs (one of unknown type), 2 workers, 2 attempts, 1 fault | results of the last attempt, honest cancellations and announcements, refinement of `JobLifecycle`, hand-overs only after a lapse, every job ends |
| `submission` | 5 requests, 2 attempts, scan of 2, symmetry | one live job per key, no old answers while nobody is overtaken by a scan of runs |
| `discovery_run` | 2 tickers, 3 workers and the task, 2 attempts, 2 faults, 1 stall | completed runs are complete, resumed scans exact, ended runs untouched, runs with a job end |
| `company_research` | 3 workers (symmetric), 3 attempts, 1 stage, 2 faults, 1 stall | readers are given the last attempt's report, completed work is on record, called off jobs never complete; without a stall the record agrees with the job; retries share one |
| `escalation_company` | 2 requests of a company, 1 sweeper, 1 round, 2 faults | one open decision per company |
| `escalation_legacy` | 2 legacy decisions, one without company, 1 round | no finding without a measured baseline |
| `escalation_rounds` | 1 decision, 2 sweepers, 2 rounds, 2 faults | refinement of `DecisionLife`, types with the round limit, final ends, and liveness |
| `investigation` | 4 questions (unassigned, blocking and conditional, external, plain), 2 roles, 3 rounds, 4 tasks, 3 calls, 1 search, 1 web round | budgets, true stop reasons, paid web rounds read, completion stands, the loop ends |
| `council` | 2 councils, 3 agents, a window of 2 with 3 tokens, waits and requests of 1, backoffs up to 3, budget 7 with reserve 4, 1 retry of critical agents; 3 failures or repairs of one council | attempts bounded, the worst case, the reserve, no burst, completed outputs stay |
| `web_fetch` | 3 fetches of 2 domains, one of 2 requests, one with a Crawl-delay; PerHost 2, Global 1, 1 remembered domain; 1 extraction worker with quota 2, 1 death | permits, gate, pace, parses, every fetch ends |
| `escalation_legacy_baseline` (violation) | 1 legacy decision | a baseline taken after the job it should precede |
| `escalation_stranded` (violation) | 1 legacy decision | a sweep that closes and never commits |

Why the bounds suffice: the hazards of the queue need a slow owner, a thief
and one more actor (three workers, or two and a cancel request), and an
attempt that is last and one that is not (two attempts); two faults allow a
failure of the recovery from a failure. A second job only matters for what a
worker carries over, hence two jobs in `queue`. Submission's worst case needs
a request that is overtaken by as many generations as it has attempts, plus
one, and more rows than a scan returns. A discovery scan needs a ticker done
and one to do, a scanner that went away and one that resumes, and a third
worker that retires or sweeps. A content record needs a lapsed worker that
goes on writing, its successor, and a third that retries once more: three
workers and attempts; the stages of an attempt all do the same, so one is
enough. The two-decision runs have one round, since rounds of different
decisions do not interact; rounds are explored with one decision and two
sweepers. The investigation has a question of every kind its review
distinguishes, a role with two questions so that a task can be cut halfway,
and every budget small enough to run out in the middle; gaps are of one kind
there (`GapKinds`), the kind that every branch of the review and of the web
rung accepts. Three agents are one unprotected and both protected ones; two
councils compete for a window that one request fills, and what fails is the
first one's (`Failures`): a protected agent's attempt, an unprotected one's
before it and a repair. A reserve of 4 is just longer than a full wait and two
requests, and a budget of 7 lets the retry pass begin before it. Both time
bounds are tight there: with one request less in `WithinTheWorstCase`, or with
a reserve of 3, TLC finds a violation. In `web_fetch` two fetches of one
domain compete for its window and one of another domain evicts its state;
arrivals may be late enough (3) for a domain to be idle. `CHECK_DEADLOCK
FALSE` is set where the modelled work is finite and everything may be over;
`council` and `web_fetch` are checked for deadlock and say with `Finished`
when everything is.

Fairness. Workers loop (`Loop`) and go on with what they hold (`Execute`):
`run_forever` only leaves its loop on a stop. Backoffs elapse. A lease that
nobody's handler renews lapses. In `DiscoveryRun` this is `Work`, `Sweep`, `BackoffElapses` and the
lapse of a lease whose owner is not at work; the task is given none, since no
property rests on it. In `Escalation`, transactions in progress are
finished, jobs end (the queue's `EveryJobEnds`), and the sweep comes round
(`_maybe_sweep` in the loop of every worker). Nothing is assumed of beats,
notifications, cancels, faults or of when a lease under a live handler lapses.
The loop's coroutine runs on (`WF_vars(Next)`): every await of a tool or a model
returns or raises. In `WebFetch` the clock ticks and each fetch goes on with its
own steps: requests and parses have deadlines of their own. Nobody has to be
abandoned, and weak fairness promises no fetch a semaphore that others keep
taking; a fetch makes finitely many requests.

Each property of a passing run has a mutant in `PROJECT.json`: an operator
defined next to the one it replaces, with which TLC finds the property
violated.

## 4. Proofs

For every number of jobs, workers, attempts, candidates and faults
(`JobQueueProofs`, from `MaxAttemptsAssumption` and `QueueAssumption`):

* `QueueInvariant`: the inductive invariant `IInv`. The safety properties are
  not inductive: what matters is what a worker may believe. `IInv` adds that an
  owner of a row is a live worker's process holding exactly that job and
  attempt, that only running rows have owners, that a result is set with the
  status only, and that a scan never shows a cancel request nobody made.
* `TypeCorrect`, `ResultsBelongToLastAttempt`, `CancellationsWereRequested`,
  `AnnouncementsAreTrue`: the safety properties of `queue`, from `IInv`.
* `RowsAreTakenOnlyAfterLapse`: the action property. It needs one more invariant,
  `Views`: what a scan still holds was a row of the table and is not newer than
  the row, and if the row runs at the same attempt, it has the owner the scan
  saw. Only a claim counts an attempt or gives an owner (`Steady`), so a view
  outlives every other write and is left behind by a claim; `Written` sorts the
  steps by what they may write.
* `QueueImplementsLifecycle`: every step is a step of `JobLifecycle` or a stutter.
  Lemmas on single rows (`ContractMoves`, `MoveIsLifecycleStep`) are separated
  from the bookkeeping of workers.

For every number of requests, attempts and any scan length
(`JobSubmissionProofs`, from `SubmissionAssumption`): `SubmissionInvariant` (dense
generations, only the newest may be live, an insert's number is beyond a
generation that was over), `TypeCorrect` and `OneLiveJob`. `NeverOld`: nobody is
answered with a run that was over before, under the condition of the property
only; how many runs the key ever had does not matter. An old answer needs a scan
without the newest generation (`NewestIsScanned`). Such a scan is full, and each of
its rows has a lower number and is not older by `created_at`: it is a run that
overtook the newest one's request. The rest is `Freshness`: what was over when a
request came has a lower number than anything inserted since, and who goes to
the fallback collided with a run that was not over.

For every universe and number of workers, faults and stalls
(`DiscoveryRunProofs`, from `MaxAttemptsAssumption` and `DiscoveryAssumption`):

* `TypeCorrect`, from `TypeInv`, which adds which job rows occur and that a
  scanner about to extract has a ticker left.
* `CompletedRunsAreComplete`, without any condition on the scanners. The
  argument (`CountInv`): an error count in the row, once positive, is never
  written back to zero, so a copy without errors has listed everything it
  counts, whoever else was writing.
* `ExclusiveScansAreExact` and `EndedRunsStay`, from `WorkInv` (a worker at work
  holds a live lease, so nobody else can claim, retire or announce the job)
  and `CursorInv` (the committed counter is the scanner's, nothing beyond it is
  listed, and who may write has seen the run open).

For every number of workers, attempts, stages, faults and stalls
(`CompanyResearchProofs`, from `MaxAttemptsAssumption` and `ResearchAssumption`):
`TypeCorrect`, `ReaderShown`, `WorkAccounted`, `CalledOffStays`, `ContentAgrees` and
`RetriesShareOne`, from `IInv`, whose parts are

* `Named` and `Copies`: whatever a row or a worker names exists, and the copy a
  worker will write is that of a running attempt.
* `Current` and `Paid`: the owner of the row works for its last attempt, and past
  the report that attempt is measured, past the recording it is on record unless
  the recording failed (`lost`). With the owner guard of the outcome this gives
  `PaidResult`, whoever else writes. A crash between the two commits ends the
  attempt, so it adds nothing to `lost`.
* `Unstrayed`, as long as every write was an owner's: the owner's record is the
  linked one and what it published is still there (`Kept`), and the linked record
  of a completed job holds its report (`KeptResult`). Once a worker without the
  row wrote, nothing of this holds, however long ago it was.
* `Exclusive`, as long as nothing stalled: nobody strays, because a worker at work
  owns the row under a live lease (`Sole`).
* `Trail`, as long as nothing failed either: a record that is not linked is about
  to be.

`CalledOffStays` needs of `IInv` only that rows are sound: no step but the final
checkpoint leads to the outcome, and that one reads the flag.

For every plan, mode and budget (`InvestigationLoopProofs`, from
`LoopAssumption`): the six safety properties of the run `investigation`, from
`LoopInvariant`, whose parts are

* `Places` and `FirstRound`: a role's task asks only its own questions, none of
  them twice, and in the first round none was worked before. Without the last
  part a question's intents could be counted twice.
* `Spending`: the budgets with what the running task is about to charge.
* `Completeness`: a completed run reaches the next round only when one is left,
  and nothing else sets the stop. The rules, once met, stay met, because the
  loop adds no gap that blocks the council and no status falls back to open
  (`RulesStayMet`).
* `Feeding`: what a web round fed is the question of a closable gap until it is
  queued. That the queue takes it in rests on the ranking being a strict order
  with a first element (`SomebodyIsFirst`, `QueueTakesAll`).
* `Reasons`: the cause of a stop holds in the state the loop stopped in, and
  closing the run (which accepts unclosable gaps and releases blocks) does not
  take it away.

For every number of fetches, domains, calls and every size of limiter and pool
(`WebFetchProofs`, from `LimiterAssumption`, `PoolAssumption` and
`FetchAssumption`): `SlotsAreNeverLeaked` and `GateIsNeverLeaked` (each permit is
counted against the places that hold it), `ParsesEndWithTheirCall`, and
`PaceIsKept`, whose invariant says that a window forgets its last start only
when it is older than any interval in force. `ParsesAreWarm` and
`NobodyIsCutShort` are proved for one worker, the default of
`V3_WEB_EXTRACTION_WORKERS`: they are false for two (section 5).

For every number of councils and agents, every order, priority, budget,
reserve, pacing and window (`LLMCouncilProofs`, from `PacerAssumption` and
`CouncilAssumption`, which takes the priority order for any order of agents,
since the code's leaves one out, `council.py:957`): `CouncilTypes`,
`CouncilInTime`, `CouncilReserve`, `CouncilsDoNotBurst` and `CouncilKeepsAnswers`,
from `CouncilInvariant`, whose parts are

* `InitialPass` and `RetryPass`: an agent ahead is untouched, or had its first
  attempt only; the one at its turn has had as many as the loop counts, and no
  output that could be lost.
* `Within`: every wait is measured against the limit its attempt began within.
  The pacer adds what it waited, never more than its longest wait, and the call
  and its repair one request each; that no wait exceeds the rest of the limit is `SleepFacts` for
  the pacer and the cut of `RetryWait` for a backoff.
* `Kept`, the reserve: an agent before the first protected one begins its last
  attempt before the deadline less the reserve, so it is over before the
  deadline if the reserve exceeds a full wait and two requests; then the protected
  one still has time for its retry. The hypothesis that the initial pass ended
  before the deadline is needed: the reserve is kept in the retry pass only.
* `WindowOK`: the property of the run speaks of windows in which every entry
  fitted, and is not inductive. What is: the *fitting* entries of any window are
  within the capacity, and those of the others within their slice.

The sums of `Tokens` are a fold of the library over a finite set in an order
that is chosen. Induction over sets is out of the provers' reach (below), so the
lemmas about them (`TokensMonotone`, `TokensWith`, `TokensOfImage`) are proved from
a smallest set that would violate them.

For every set of decisions, companies and sweepers, every round limit and any
number of faults (`EscalationProofs`, from `EscalationAssumption`, which says that
the legacy decisions are finitely many and at most one per company, and that no
job's id is NULL): `TypeCorrect`, `OneOpenDecision`, `FindingsAreEarned`,
`ClosedStayClosed` and `EscalationImplementsDecisionLife`, from
`EscalationInvariant`, whose parts are

* `Private` and `Unseen`: a request writes only its own decision, and until it
  commits nobody else can lock or cancel it.
* `Locked`: whoever holds the lock of a row does not make an open decision out
  of a closed one. With `Private`, only the commit of a request opens a
  decision (`HowDecisionsOpen`).
* `Selected`: what a sweep still has to treat is locked by it and open, and in its
  second half names a job. Without it a closing would read the outcome of a
  job that is not there.
* `Exclusive`: a request between its insert and its commit is the only one of its
  company, and the company has no open decision. Committed rows alone do not
  say this, so `OneOpenDecisionPerCompany` is not inductive.
* `Findings` also of uncommitted rows, and `Named`: the job a row names exists.

`ClosedStayClosed` also needs `Overruled`: whoever holds the lock of a closed
decision is a cancel, and what it drafted is that decision, abandoned. The
refinement needs `Ladder`, which TLC checked on two decisions and two rounds first.
`Drafted`: the draft in a transaction is what one lawful move (`Lawful`) makes of
the committed row, and until a sweep has judged a round its draft is still in
that round (`Unjudged`); otherwise a sweep, which recovers and judges in one
transaction, could climb two rounds at a commit. `Placed` and `HasPlace`: the
job a row names is of its round, every round below has a completed job, and no
job is more than one round ahead. A commit then is `Lawful` (`CommitsAreLawful`),
which is `DecisionLife`'s `Moves`; only the commit of a request opens, and only the
end of a job adds to the completed rounds (`HowJobsComplete`).

Type correctness of the modules with proofs is left to the proofs, except in
`Escalation`, whose types bound the rounds, and `LLMCouncil`, whose types bound
the attempts; `ParsesAreWarm` is only proved too.
Only model-checked: liveness (`EveryJobEnds`, `EveryDecisionCloses`,
`RunWithAJobEnds`, `LoopTerminates`, `EveryFetchEnds`), which is outside the
provers' reach, as are `ENABLED` and induction over data through theorems that
take an operator. The violation runs refute statements, so nothing is proved about them.

## 5. Where code and comments disagree

The violation runs are two defects of the code: the lookup of the round-0 job
uses a key without the generation every stored key has
(`controller.py:748-757`), so recovery never finds the job it looks for; and the
sweep commits only if it repaired something (`job_hook.py:155`) although
closing a decision is a repair too.

Met while modelling, and part of the models, without a run of their own:

* `company_research_service.py:750` says the checkpoint of a stage raises if a
  cancellation was requested, so that the job is cancelled at that boundary. The
  graph's stream (`workflows/company_analysis.py:2825`) and the `_report_phase` of the
  report generator and of the council catch what it raises, to save the report
  (`ReportStage`). The job is cancelled all the same, at the last checkpoint and
  after the whole research was paid for: `CalledOffStaysCalledOff` holds.
* The docstring of `run_company_research_job` (`company_research_job.py:312`) says a
  retry never accumulates an orphaned record; the record is committed before it
  is linked (`CreateRecord`, `LinkRecord`), so a fault in between leaves one.
  `RetriesShareOneRecord` excludes it.
* `company_research_job.py:176` calls the job row authoritative about what the run
  produced. It carries the report's id only: the `report` summary
  with its own `report_id`, the warnings and the workflow status come from the
  content record (`compose_envelope`). After an expired worker wrote over that
  record, a reader is shown its summary beside the right id; that is why
  `ReaderIsShownTheLastReport` says nothing of the summary once a worker strayed.
* `_record_consumption` says failed runs are recorded when there is something to
  record (`company_research_service.py:994`); on the durable path a run without a
  report raises before the call (`ResearchReturns`).
* `docs/DECISIONS.md:321` says that earlier agents can never starve the protected
  ones of a council; the reserve holds in the retry pass only
  (`retry_engine.py:127`), and an initial pass that uses up the budget never
  reaches them (`Skip`). And a reserve that covers one request does not cover
  an attempt: with a repair it makes two (`llm/client.py:319-330`).
* `stale_after_minutes` (`services/research_job.py:237`) is coherent "by construction" with
  the council's budget, one pacing wait, the ingestion budget, a fixed overhead and
  a margin. The two requests of an attempt begun before the deadline are not in
  the sum; the overhead and the margin have to hold them (`WithinTheWorstCase`).
* A cancel request that meets two status changes records nothing, although
  `job_store.py:772` says the worker will see it (`RequestCancelFlag` under its
  guard).
* `process_run` marks a run as running by primary key from an earlier read
  (`market_discovery_service.py:934`), so a worker that lost its lease can reopen
  the run its successor finished (`Mark`); `discovery_research_job.py:289` says a
  completed job leaves an ended run.
* A request that fails after its enqueue rolls the decision back and leaves
  the job (`RequestFails`); `controller.py:25` says the worst case is the
  opposite.
* `market_discovery.py:91` falls back to a background scan only when the job is
  known not to exist; `existing_job` (`discovery_research_job.py:157`) answers none
  when its lookup fails too, so two scans of one run may collide (`FallBack`).
* The comment at `pool.py:210` says no call is in flight when a worn executor
  is replaced. With two workers one may be, and its parse is killed.
* A retry-after of 0 ends an agent's retries instead of retrying at once
  (`retry_engine.py:154-156`).
* In the retry pass an agent that others' outputs were built from may recover
  after the chair has already completed; the chair is not run again.
* The state of a domain may be evicted between `set_crawl_delay` and `slot`
  (`limiter.py:86`): its Crawl-delay is forgotten until it is learned again. And
  a delay learned while a request waits for the global slot applies to the
  second look, not to a start already under way.
* A plan without tasks stops as `completion_rules_satisfied` without the rules
  having been evaluated (`loop.py:373`).
* A follow-up that the task budget dropped is not remembered: a later review
  may find nothing worth a task and end the run as `no_closable_gaps`
  (`loop.py:727`, whose comment says the drop is the limit's).
* More web-answerable gaps than one web round takes (`MAX_GAPS_PER_ROUND`) are
  not a reason for another one: the run may settle as saturated with gaps no
  web round ever saw.
* `open_gaps` reads the newest 100 rows (`ledger/store.py:1034`), so closable gaps
  beyond them are invisible to the review. The model has no row limit.

One consequence is modelled and contradicts no statement of the repository: a
scanner that lost its lease commits one more candidate, its successor runs
into the unique constraint, and the job fails for good (`Collide`).

## 6. Not modelled, and the plan

In this order: the escalation's predicates with the fan-out cap under
concurrent requests, supersession in the ledger, the current version of a document in the
corpus, the stages of open-web discovery with their budget, and
`field_review_council`, which has its own copy of the retry loop.

Left out for good: connectors, extraction, prompts, scoring, report
formatting, the front end and infrastructure. They are sequential
computations over one request's data, or text and I/O.
