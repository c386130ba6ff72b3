------------------------------ MODULE JobQueue ------------------------------
(***************************************************************************)
(* The research_jobs table, the workers that lease its rows and the API    *)
(* request that cancels one: services/jobs/job_store.py and worker.py,     *)
(* under the rules of JobContract.                                         *)
(*                                                                         *)
(* A store method opens a session, reads a row and then writes it with a   *)
(* guarded UPDATE.  Where the guard is weaker than what the read           *)
(* established (claim_next, request_cancel) read and write are separate    *)
(* actions here.  Where it is as strong (heartbeat, complete, fail and     *)
(* cancel, all guarded on lease_owner, an identity no two processes share  *)
(* and that one worker uses for one job at a time) they are one action.    *)
(***************************************************************************)
EXTENDS JobContract, FiniteSets

CONSTANTS
  Jobs,          \* rows of research_jobs
  Workers,       \* worker processes; a restart is a process with a new name
  NoJob,         \* a worker that holds no job
  Known,         \* the jobs whose job_type has a handler in the workers
  Candidates,    \* LIMIT of the claim scan
  MaxFaults      \* bound on crashes and database errors in a behaviour

ASSUME QueueAssumption ==
  /\ NoOne \notin Workers
  /\ NoJob \notin Jobs
  /\ Known \subseteq Jobs
  /\ Candidates \in Nat \ {0}
  /\ MaxFaults \in Nat

VARIABLES
  job,       \* the table: one row per job
  pc,        \* where each worker's loop is
  cur,       \* the job in a worker's hands
  held,      \* the attempt number its claim returned
  told,      \* worker.cancellation_requested
  lost,      \* worker.lease_lost
  ending,    \* how the handler ended, while the outcome is not yet written
  seen,      \* a claim scan's rows still to be tried, as they were read
  request,   \* where the cancel request of each job is
  notified,  \* jobs whose terminal observers were called
  faults     \* crashes and database errors so far

workerVars == <<pc, cur, held, told, lost, ending, seen>>
vars == <<job, workerVars, request, notified, faults>>

Unfinished(j) == job[j].status \notin Terminal

---------------------------------------------------------------------------
NoScan == [j \in {} |-> FreshRow]

Init ==
  /\ job = [j \in Jobs |-> FreshRow]
  /\ pc = [w \in Workers |-> "new"]
  /\ cur = [w \in Workers |-> NoJob]
  /\ held = [w \in Workers |-> 0]
  /\ told = [w \in Workers |-> FALSE]
  /\ lost = [w \in Workers |-> FALSE]
  /\ ending = [w \in Workers |-> "none"]
  /\ seen = [w \in Workers |-> NoScan]
  /\ request = [j \in Jobs |-> "none"]
  /\ notified = {}
  /\ faults = 0

\* The one write primitive, where its guard held.
Update(j, row) == job' = [job EXCEPT ![j] = row]

\* The worker goes back to its loop with nothing in hand.
ToIdle(w) ==
  /\ pc' = [pc EXCEPT ![w] = "idle"]
  /\ cur' = [cur EXCEPT ![w] = NoJob]
  /\ ending' = [ending EXCEPT ![w] = "none"]
  /\ UNCHANGED <<held, told, lost, seen>>

---------------------------------------------------------------------------
(* Passing time *)

LeaseLapses(j) ==
  /\ job[j].lease = "live"
  /\ Update(j, [job[j] EXCEPT !.lease = "lapsed"])
  /\ UNCHANGED <<workerVars, request, notified, faults>>

BackoffElapses(j) ==
  /\ ~job[j].due
  /\ Update(j, [job[j] EXCEPT !.due = TRUE])
  /\ UNCHANGED <<workerVars, request, notified, faults>>

---------------------------------------------------------------------------
(* The worker loop *)

Start(w) ==
  /\ pc[w] = "new"
  /\ pc' = [pc EXCEPT ![w] = "idle"]
  /\ UNCHANGED <<job, cur, held, told, lost, ending, seen, request, notified,
                 faults>>

\* The SELECT of claim_next.
ClaimQuery ==
  {j \in Jobs : /\ job[j].due
                /\ \/ job[j].status = "pending"
                   \/ job[j].status = "running" /\ LeaseExpired(job[j])}

\* Order and limit: the rows come by available_at, which the model does not
\* keep, so any Candidates of them may be the first ones.
Scan(w) ==
  /\ pc[w] = "idle"
  /\ \E S \in SUBSET ClaimQuery :
       /\ S # {}
       /\ S = ClaimQuery \/ Cardinality(S) = Candidates
       /\ Cardinality(S) <= Candidates
       /\ seen' = [seen EXCEPT ![w] = [j \in S |-> job[j]]]
  /\ pc' = [pc EXCEPT ![w] = "scan"]
  /\ UNCHANGED <<job, cur, held, told, lost, ending, request, notified, faults>>

Without(f, j) == [i \in DOMAIN f \ {j} |-> f[i]]

\* The scanned row is taken for dead and retired, unless it moved on.
RetireAbandoned(w, j) ==
  LET v == seen[w][j] IN
  /\ IsAbandoned(v)
  /\ IF job[j].status = "running" /\ job[j].attempt = v.attempt
       THEN Update(j, Abandon(job[j]))
       ELSE UNCHANGED job
  /\ seen' = [seen EXCEPT ![w] = Without(@, j)]
  /\ UNCHANGED <<pc, cur, held, told, lost, ending>>

\* Mutant: the claim does not compare the attempt.
ClaimGuardStatusOnly(w, j) == job[j].status = seen[w][j].status

\* The guard of the claim: nobody claimed or ended the row since it was read.
ClaimGuard(w, j) ==
  /\ job[j].status = seen[w][j].status
  /\ job[j].attempt = seen[w][j].attempt

\* Mutant: run_once does not reset the flag of the previous job.
ToldAtClaimUnreset(w, claimed) == told[w] \/ claimed.cancelRequested

\* The claimed view is the scanned one, so its cancel flag may be stale.
ToldAtClaim(w, claimed) == claimed.cancelRequested

\* The columns a claim writes are computed from the scanned view.
ClaimedRow(row, claimed) ==
  [row EXCEPT !.status = claimed.status, !.attempt = claimed.attempt,
              !.owner = claimed.owner, !.lease = claimed.lease]

ClaimWins(w, j) ==
  LET claimed == Claim(seen[w][j], w) IN
  /\ IsClaimable(seen[w][j])
  /\ ClaimGuard(w, j)
  /\ Update(j, ClaimedRow(job[j], claimed))
  /\ pc' = [pc EXCEPT ![w] = "claimed"]
  /\ cur' = [cur EXCEPT ![w] = j]
  /\ held' = [held EXCEPT ![w] = claimed.attempt]
  /\ told' = [told EXCEPT ![w] = ToldAtClaim(w, claimed)]
  /\ lost' = [lost EXCEPT ![w] = FALSE]
  /\ seen' = [seen EXCEPT ![w] = NoScan]
  /\ UNCHANGED ending

ClaimLoses(w, j) ==
  /\ IsClaimable(seen[w][j])
  /\ ~ClaimGuard(w, j)
  /\ seen' = [seen EXCEPT ![w] = Without(@, j)]
  /\ UNCHANGED <<job, pc, cur, held, told, lost, ending>>

TryCandidate(w) ==
  /\ pc[w] = "scan"
  /\ \E j \in DOMAIN seen[w] :
       RetireAbandoned(w, j) \/ ClaimWins(w, j) \/ ClaimLoses(w, j)
  /\ UNCHANGED <<request, notified, faults>>

\* Every candidate was lost or retired: claim_next returns None.
ScanEnds(w) ==
  /\ pc[w] = "scan"
  /\ DOMAIN seen[w] = {}
  /\ ToIdle(w)
  /\ UNCHANGED <<job, request, notified, faults>>

---------------------------------------------------------------------------
(* One job *)

\* Mutants: the outcome is guarded on the status, or not at all.
OwnsIfRunning(w) == job[cur[w]].status = "running"
OwnsAlways(w) == TRUE

\* The guard of complete, fail and cancel.
Owns(w) == job[cur[w]].owner = w

\* Cancelled while queued: the handler is never entered, nobody is notified.
CancelAtClaim(w) ==
  /\ pc[w] = "claimed"
  /\ told[w]
  /\ IF Owns(w) THEN Update(cur[w], Cancel(job[cur[w]])) ELSE UNCHANGED job
  /\ ToIdle(w)
  /\ UNCHANGED <<request, notified, faults>>

\* No handler for the type: a permanent failure, nobody is notified.
FailUnknown(w) ==
  /\ pc[w] = "claimed"
  /\ ~told[w]
  /\ cur[w] \notin Known
  /\ IF Owns(w) THEN Update(cur[w], Fail(job[cur[w]], FALSE)) ELSE UNCHANGED job
  /\ ToIdle(w)
  /\ UNCHANGED <<request, notified, faults>>

EnterHandler(w) ==
  /\ pc[w] = "claimed"
  /\ ~told[w]
  /\ cur[w] \in Known
  /\ pc' = [pc EXCEPT ![w] = "handler"]
  /\ UNCHANGED <<job, cur, held, told, lost, ending, seen, request, notified,
                 faults>>

\* The heartbeat task, and the report of a stage at a checkpoint.
Beat(w) ==
  /\ pc[w] = "handler"
  /\ IF MayHeartbeat(job[cur[w]], w)
       THEN /\ Update(cur[w], Heartbeat(job[cur[w]]))
            /\ told' = [told EXCEPT ![w] = @ \/ job[cur[w]].cancelRequested]
            /\ UNCHANGED lost
       ELSE /\ lost' = [lost EXCEPT ![w] = TRUE]
            /\ UNCHANGED <<job, told>>
  /\ UNCHANGED <<pc, cur, held, ending, seen, request, notified, faults>>

\* A checkpoint notices the lost lease: the worker writes nothing.
StopLost(w) ==
  /\ pc[w] = "handler"
  /\ lost[w]
  /\ ToIdle(w)
  /\ UNCHANGED <<job, request, notified, faults>>

\* The handler returns or raises; "cancelled" is what a checkpoint raises.
HandlerEnds(w) ==
  /\ pc[w] = "handler"
  /\ \E how \in {"done", "warnings", "transient", "permanent", "cancelled"} :
       /\ how = "cancelled" => told[w] /\ ~lost[w]
       /\ ending' = [ending EXCEPT ![w] = how]
  /\ pc' = [pc EXCEPT ![w] = "ending"]
  /\ UNCHANGED <<job, cur, held, told, lost, seen, request, notified, faults>>

\* The lease was lost before the outcome could be written: nothing is.
OutcomeRefused(w) ==
  /\ pc[w] = "ending"
  /\ ~Owns(w)
  /\ ToIdle(w)
  /\ UNCHANGED <<job, request, notified, faults>>

WriteCancelled(w) ==
  /\ pc[w] = "ending" /\ Owns(w)
  /\ ending[w] = "cancelled"
  /\ Update(cur[w], Cancel(job[cur[w]]))
  /\ ToIdle(w)
  /\ UNCHANGED <<request, notified, faults>>

WriteCompleted(w) ==
  /\ pc[w] = "ending" /\ Owns(w)
  /\ ending[w] \in {"done", "warnings"}
  /\ Update(cur[w], [Complete(job[cur[w]], ending[w] = "warnings")
                       EXCEPT !.result = held[w]])
  /\ pc' = [pc EXCEPT ![w] = "notify"]
  /\ UNCHANGED <<cur, held, told, lost, ending, seen, request, notified, faults>>

\* A failure that will be retried notifies nobody.
WriteFailed(w) ==
  LET transient == ending[w] = "transient" IN
  /\ pc[w] = "ending" /\ Owns(w)
  /\ ending[w] \in {"transient", "permanent"}
  /\ Update(cur[w], Fail(job[cur[w]], transient))
  /\ IF WillRetry(job[cur[w]], transient)
       THEN ToIdle(w)
       ELSE /\ pc' = [pc EXCEPT ![w] = "notify"]
            /\ UNCHANGED <<cur, held, told, lost, ending, seen>>
  /\ UNCHANGED <<request, notified, faults>>

\* The terminal observers run after the terminal write.
Notify(w) ==
  /\ pc[w] = "notify"
  /\ notified' = notified \cup {cur[w]}
  /\ ToIdle(w)
  /\ UNCHANGED <<job, request, faults>>

---------------------------------------------------------------------------
(* Faults *)

\* The process dies wherever it is; its row keeps its lease.
Crash(w) ==
  /\ pc[w] \notin {"new", "dead"}
  /\ faults < MaxFaults
  /\ faults' = faults + 1
  /\ pc' = [pc EXCEPT ![w] = "dead"]
  /\ cur' = [cur EXCEPT ![w] = NoJob]
  /\ ending' = [ending EXCEPT ![w] = "none"]
  /\ seen' = [seen EXCEPT ![w] = NoScan]
  /\ UNCHANGED <<job, held, told, lost, request, notified>>

\* A store call or an observer raises: run_forever, or notify_terminal,
\* swallows it and the loop goes on, with the row as it was left.
DatabaseError(w) ==
  /\ pc[w] \in {"scan", "claimed", "ending", "notify"}
  /\ faults < MaxFaults
  /\ faults' = faults + 1
  /\ pc' = [pc EXCEPT ![w] = "idle"]
  /\ cur' = [cur EXCEPT ![w] = NoJob]
  /\ ending' = [ending EXCEPT ![w] = "none"]
  /\ seen' = [seen EXCEPT ![w] = NoScan]
  /\ UNCHANGED <<job, held, told, lost, request, notified>>

---------------------------------------------------------------------------
(* request_cancel, called by the API for one job *)

RequestCancelRead(j) ==
  /\ request[j] = "none"
  /\ request' = [request EXCEPT ![j] =
       CASE job[j].status = "pending" -> "withdrawing"
         [] job[j].status = "running" -> "flagging"
         [] OTHER -> "returned"]
  /\ UNCHANGED <<job, workerVars, notified, faults>>

\* A pending job is cancelled outright, unless it started meanwhile.
RequestCancelWithdraw(j) ==
  /\ request[j] = "withdrawing"
  /\ IF job[j].status = "pending"
       THEN /\ Update(j, [Cancel(job[j]) EXCEPT !.cancelRequested = TRUE])
            /\ request' = [request EXCEPT ![j] = "returned"]
       ELSE /\ request' = [request EXCEPT ![j] = "flagging"]
            /\ UNCHANGED job
  /\ UNCHANGED <<workerVars, notified, faults>>

RequestCancelFlag(j) ==
  /\ request[j] = "flagging"
  /\ IF job[j].status = "running"
       THEN Update(j, [job[j] EXCEPT !.cancelRequested = TRUE])
       ELSE UNCHANGED job
  /\ request' = [request EXCEPT ![j] = "returned"]
  /\ UNCHANGED <<workerVars, notified, faults>>

---------------------------------------------------------------------------
Loop(w) ==
  \/ Start(w) \/ Scan(w) \/ TryCandidate(w) \/ ScanEnds(w)

Outcome(w) ==
  \/ OutcomeRefused(w) \/ WriteCancelled(w) \/ WriteCompleted(w)
  \/ WriteFailed(w) \/ Notify(w)

Execute(w) ==
  \/ CancelAtClaim(w) \/ FailUnknown(w) \/ EnterHandler(w)
  \/ StopLost(w) \/ HandlerEnds(w) \/ Outcome(w)

RequestCancel(j) ==
  RequestCancelRead(j) \/ RequestCancelWithdraw(j) \/ RequestCancelFlag(j)

Next ==
  \/ \E j \in Jobs : LeaseLapses(j) \/ BackoffElapses(j) \/ RequestCancel(j)
  \/ \E w \in Workers :
       Loop(w) \/ Execute(w) \/ Beat(w) \/ Crash(w) \/ DatabaseError(w)

\* Workers are scheduled, handlers end, backoffs elapse, and a lease nobody
\* renews runs out.  Nothing makes a beat, a request or a fault happen.
Fairness ==
  /\ \A w \in Workers : WF_vars(Loop(w)) /\ WF_vars(Execute(w))
  /\ \A j \in Jobs :
       /\ WF_vars(BackoffElapses(j))
       /\ WF_vars(/\ \A w \in Workers : ~(pc[w] = "handler" /\ cur[w] = j)
                  /\ LeaseLapses(j))

Spec == Init /\ [][Next]_vars

FairSpec == Spec /\ Fairness

---------------------------------------------------------------------------
(* Properties *)

Row ==
  [status : StoredStatuses, attempt : 0 .. MaxAttempts,
   owner : Workers \cup {NoOne}, lease : {"none", "live", "lapsed"},
   due : BOOLEAN, cancelRequested : BOOLEAN, result : 0 .. MaxAttempts]

\* Every variable has its type, which bounds the attempts of a job and the
\* attempt a worker holds by MaxAttempts (is_claimable, fail).
TypeOK ==
  /\ job \in [Jobs -> Row]
  /\ pc \in [Workers -> {"new", "idle", "scan", "claimed", "handler", "ending",
                         "notify", "dead"}]
  /\ cur \in [Workers -> Jobs \cup {NoJob}]
  /\ held \in [Workers -> 0 .. MaxAttempts]
  /\ told \in [Workers -> BOOLEAN]
  /\ lost \in [Workers -> BOOLEAN]
  /\ ending \in [Workers -> {"none", "done", "warnings", "transient",
                             "permanent", "cancelled"}]
  /\ DOMAIN seen = Workers
  /\ \A w \in Workers : \A j \in DOMAIN seen[w] : j \in Jobs /\ seen[w][j] \in Row
  /\ request \in [Jobs -> {"none", "withdrawing", "flagging", "returned"}]
  /\ notified \subseteq Jobs
  /\ faults \in 0 .. MaxFaults

\* The result a completed job shows was produced by the last attempt ever
\* claimed: no worker that lost its lease completes the job over its
\* successor (the guards of JobStore.complete and of the claim).
ResultOfLastAttempt ==
  \A j \in Jobs :
    job[j].status \in HasResult =>
      /\ job[j].attempt > 0
      /\ job[j].result = job[j].attempt

\* A job ends cancelled only if someone asked for it: a worker never carries
\* the cancel flag of one job over to the next one it claims, and a stale
\* view never invents one (run_once, _beat, claim_next).
CancelledOnlyIfRequested ==
  \A j \in Jobs : job[j].status = "cancelled" => job[j].cancelRequested

\* A terminal outcome is announced by one worker, once, and the worker about
\* to announce it announces what the row says (_execute, notify_terminal).
AnnouncedOnceAndTruly ==
  \A w \in Workers :
    pc[w] = "notify" =>
      /\ cur[w] \notin notified
      /\ \A x \in Workers \ {w} : ~(pc[x] = "notify" /\ cur[x] = cur[w])
      /\ ending[w] \in {"done", "warnings"} <=>
           job[cur[w]].status \in HasResult
      /\ job[cur[w]].status \in HasResult \cup {"failed", "dead_letter"}

\* Whatever faults occur, the table only does what JobLifecycle promises:
\* legal transitions, at most MaxAttempts attempts, final ends, and no job
\* given up on before its attempts are spent.
Lifecycle ==
  INSTANCE JobLifecycle WITH status <- [j \in Jobs |-> job[j].status],
                             attempt <- [j \in Jobs |-> job[j].attempt]

ImplementsLifecycle == Lifecycle!LifeSpec

\* A row leaves its owner w in a step that is not w's own outcome write.
TakenFrom(j, w) ==
  job[j].owner = w /\ job'[j].owner # w /\ pc'[w] = pc[w]

\* A row is taken from its owner, by a claim or by retiring it, only by a
\* worker whose scan found the lease of that very claim lapsed, and only
\* while no later claim was made (is_claimable, is_abandoned and the guards
\* of claim_next).
TakenOnlyAfterLapse ==
  [][\A j \in Jobs, w \in Workers :
       TakenFrom(j, w) =>
         \E x \in Workers :
           /\ pc[x] = "scan" /\ j \in DOMAIN seen[x]
           /\ seen[x][j].owner = w
           /\ seen[x][j].attempt = job[j].attempt
           /\ seen[x][j].lease = "lapsed"]_vars

\* Every job ends, although workers may die, lose their database or their
\* lease at any point (the loop of run_forever and the claim scan).
EveryJobEnds == \A j \in Jobs : <>(job[j].status \in Terminal)

=============================================================================
