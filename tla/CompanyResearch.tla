--------------------------- MODULE CompanyResearch ---------------------------
(***************************************************************************)
(* One company-research job beside the content record its attempts write:  *)
(* services/jobs/company_research_job.py, company_research_service.py and  *)
(* the progress callbacks of the analysis graph and the report generator.  *)
(*                                                                         *)
(* The job's row (JobContract) is the lifecycle; the record (an AgentRun   *)
(* with its envelope) is the content a reader is shown; `link` is the      *)
(* row's agent_run_id.  A record is named by the attempt that created it   *)
(* and a report by the attempt that produced it.  A worker loads the       *)
(* envelope once and from then on writes its own copy, whole.              *)
(*                                                                         *)
(* A claim is one step: a claim from a stale scan leaves the same state as *)
(* one made before the link or the flag it did not see.  The flags of the  *)
(* worker (told, lost) need no variable here, because every checkpoint     *)
(* reads the row again; JobQueue has them.                                 *)
(***************************************************************************)
EXTENDS JobContract

CONSTANTS
  Workers,     \* worker processes; a restart is a process with a new name
  Stages,      \* bound on the stages an attempt announces
  MaxFaults,   \* bound on crashes and database errors in a behaviour
  MaxStalls    \* bound on leases that lapse under a live worker

ASSUME ResearchAssumption ==
  /\ NoOne \notin Workers
  /\ Stages \in Nat
  /\ MaxFaults \in Nat
  /\ MaxStalls \in Nat

VARIABLES
  job,       \* the row of the job
  link,      \* its agent_run_id, 0 for NULL
  content,   \* the envelopes of the content records
  measured,  \* the attempts whose executor returned what it consumed
  spent,     \* the attempts with a consumption row
  pc,        \* where each worker is
  hand,      \* what its attempt works with
  faults,
  stalls,
  \* history
  lost,      \* the attempts whose recording failed
  strayed    \* whether a worker wrote content or link without owning the row

history == <<lost, strayed>>
vars == <<job, link, content, measured, spent, pc, hand, faults, stalls, history>>

Attempts == 1 .. MaxAttempts

NoRecord == [status |-> "none", report |-> 0]
NewRecord == [status |-> "pending", report |-> 0]

EmptyHand == [run |-> 0, attempt |-> 0, stage |-> 0, envelope |-> NoRecord]

Init ==
  /\ job = FreshRow
  /\ link = 0
  /\ content = [a \in Attempts |-> NoRecord]
  /\ measured = {}
  /\ spent = {}
  /\ pc = [w \in Workers |-> "idle"]
  /\ hand = [w \in Workers |-> EmptyHand]
  /\ faults = 0
  /\ stalls = 0
  /\ lost = {}
  /\ strayed = FALSE

GoTo(w, place) == pc' = [pc EXCEPT ![w] = place]

Fault ==
  /\ faults < MaxFaults
  /\ faults' = faults + 1

Owns(w) == job.owner = w

\* The outcome of an attempt is written only by the owner of the row.
EndAttempt(w, row) ==
  /\ job' = IF Owns(w) THEN row ELSE job
  /\ GoTo(w, "idle")

WriteEnvelope(w, envelope) ==
  content' = [content EXCEPT ![hand[w].run] = envelope]

\* What every write of content or link leaves in the history.
Strays(w) == strayed' = (strayed \/ ~Owns(w)) /\ UNCHANGED lost

---------------------------------------------------------------------------
(* The job *)

BackoffElapses ==
  /\ ~job.due
  /\ job' = [job EXCEPT !.due = TRUE]
  /\ UNCHANGED <<link, content, measured, spent, pc, hand, faults, stalls, history>>

AtWork(w) == pc[w] \notin {"idle", "dead"}

OwnerAtWork == \E w \in Workers : Owns(w) /\ AtWork(w)

LeaseLapses ==
  /\ job.lease = "live"
  /\ job' = [job EXCEPT !.lease = "lapsed"]
  /\ IF OwnerAtWork
       THEN stalls < MaxStalls /\ stalls' = stalls + 1
       ELSE UNCHANGED stalls
  /\ UNCHANGED <<link, content, measured, spent, pc, hand, faults, history>>

\* request_cancel, which the cancellation of a research decision calls.
RequestCancel ==
  /\ ~job.cancelRequested
  /\ \/ job.status = "pending"
        /\ job' = [Cancel(job) EXCEPT !.cancelRequested = TRUE]
     \/ job.status = "running"
        /\ job' = [job EXCEPT !.cancelRequested = TRUE]
  /\ UNCHANGED <<link, content, measured, spent, pc, hand, faults, stalls, history>>

Beat(w) ==
  /\ AtWork(w)
  /\ MayHeartbeat(job, w)
  /\ job' = Heartbeat(job)
  /\ UNCHANGED <<link, content, measured, spent, pc, hand, faults, stalls, history>>

\* Mutant: the handler ignores the record it finds.
EntryAlwaysCreates == IF job.cancelRequested THEN "calledOff" ELSE "create"

\* A cancellation seen at the claim keeps the handler from being entered; the
\* handler creates a record only where the row has none.
Entry ==
  IF job.cancelRequested THEN "calledOff"
  ELSE IF link = 0 THEN "create" ELSE "identity"

ClaimJob(w) ==
  /\ pc[w] = "idle"
  /\ IsClaimable(job)
  /\ job' = Claim(job, w)
  /\ hand' = [hand EXCEPT ![w] = [EmptyHand EXCEPT !.run = link,
                                                   !.attempt = job'.attempt]]
  /\ GoTo(w, Entry)
  /\ UNCHANGED <<link, content, measured, spent, faults, stalls, history>>

Retire(w) ==
  /\ pc[w] = "idle"
  /\ IsAbandoned(job)
  /\ job' = Abandon(job)
  /\ UNCHANGED <<link, content, measured, spent, pc, hand, faults, stalls, history>>

CancelAtClaim(w) ==
  /\ pc[w] = "calledOff"
  /\ EndAttempt(w, Cancel(job))
  /\ UNCHANGED <<link, content, measured, spent, hand, faults, stalls, history>>

---------------------------------------------------------------------------
(* run_company_research_job *)

\* The record is committed before the row names it.
CreateRecord(w) ==
  LET a == hand[w].attempt IN
  /\ pc[w] = "create"
  /\ content' = [content EXCEPT ![a] = NewRecord]
  /\ hand' = [hand EXCEPT ![w].run = a]
  /\ GoTo(w, "link")
  /\ Strays(w)
  /\ UNCHANGED <<job, link, measured, spent, faults, stalls>>

\* The company is looked up before the record is created, and again when it is
\* loaded; without one no attempt is worth repeating.
CompanyNotFound(w) ==
  /\ pc[w] \in {"create", "load"}
  /\ EndAttempt(w, Fail(job, FALSE))
  /\ UNCHANGED <<link, content, measured, spent, hand, faults, stalls, history>>

\* link_agent_run is guarded on nothing but the id of the row.
LinkRecord(w) ==
  /\ pc[w] = "link"
  /\ link' = hand[w].run
  /\ GoTo(w, "identity")
  /\ Strays(w)
  /\ UNCHANGED <<job, content, measured, spent, hand, faults, stalls>>

\* Mutant: a checkpoint only renews the lease.
CheckpointDeaf(w, next) ==
  /\ job' = IF MayHeartbeat(job, w) THEN Heartbeat(job) ELSE job
  /\ GoTo(w, next)

\* A checkpoint renews the lease and reads the cancel flag; it stops a worker
\* that lost the one, silently, or was told of the other.
Checkpoint(w, next) ==
  \/ MayHeartbeat(job, w) /\ ~job.cancelRequested
       /\ job' = Heartbeat(job) /\ GoTo(w, next)
  \/ MayHeartbeat(job, w) /\ job.cancelRequested
       /\ EndAttempt(w, Cancel(job))
  \/ ~MayHeartbeat(job, w) /\ UNCHANGED job /\ GoTo(w, "idle")

IdentityCheckpoint(w) ==
  /\ pc[w] = "identity"
  /\ Checkpoint(w, "load")
  /\ UNCHANGED <<link, content, measured, spent, hand, faults, stalls, history>>

FinalCheckpoint(w) ==
  /\ pc[w] = "final"
  /\ Checkpoint(w, "return")
  /\ UNCHANGED <<link, content, measured, spent, hand, faults, stalls, history>>

CompleteJob(w) ==
  /\ pc[w] = "return"
  /\ \E warned \in BOOLEAN :
       EndAttempt(w, [Complete(job, warned) EXCEPT !.result = hand[w].attempt])
  /\ UNCHANGED <<link, content, measured, spent, hand, faults, stalls, history>>

---------------------------------------------------------------------------
(* process_company_research_by_id *)

\* The copy the attempt works on: an earlier attempt's report stays in it.
LoadRecord(w) ==
  /\ pc[w] = "load"
  /\ hand' = [hand EXCEPT ![w].envelope =
                [content[hand[w].run] EXCEPT !.status = "running"]]
  /\ GoTo(w, "start")
  /\ UNCHANGED <<job, link, content, measured, spent, faults, stalls, history>>

StartResearch(w) ==
  /\ pc[w] = "start"
  /\ WriteEnvelope(w, hand[w].envelope)
  /\ GoTo(w, "work")
  /\ Strays(w)
  /\ UNCHANGED <<job, link, measured, spent, hand, faults, stalls>>

\* advance: the stage is written first, then reported.
Advance(w) ==
  /\ pc[w] = "work"
  /\ hand[w].stage < Stages
  /\ hand' = [hand EXCEPT ![w].stage = @ + 1]
  /\ WriteEnvelope(w, hand[w].envelope)
  /\ GoTo(w, "boundary")
  /\ Strays(w)
  /\ UNCHANGED <<job, link, measured, spent, faults, stalls>>

\* The checkpoint of a stage renews the lease; what it raises, the graph and
\* the report generator swallow.
ReportStage(w) ==
  /\ pc[w] = "boundary"
  /\ \/ /\ job' = IF MayHeartbeat(job, w) THEN Heartbeat(job) ELSE job
        /\ UNCHANGED faults
     \/ Fault /\ UNCHANGED job
  /\ GoTo(w, "work")
  /\ UNCHANGED <<link, content, measured, spent, hand, stalls, history>>

ResearchFails(w) ==
  /\ pc[w] = "work"
  /\ \E transient \in BOOLEAN : EndAttempt(w, Fail(job, transient))
  /\ UNCHANGED <<link, content, measured, spent, hand, faults, stalls, history>>

\* The executor returns what it consumed, and a report; a run without one
\* raises before anything is recorded.
ResearchReturns(w) ==
  /\ pc[w] = "work"
  /\ measured' = measured \cup {hand[w].attempt}
  /\ \/ GoTo(w, "publish") /\ UNCHANGED job
     \/ EndAttempt(w, Fail(job, FALSE))
  /\ UNCHANGED <<link, content, spent, hand, faults, stalls, history>>

\* Mutant: the report of an earlier attempt is not replaced.
PublishedFirst(w) ==
  [status |-> "completed",
   report |-> IF hand[w].envelope.report > 0 THEN hand[w].envelope.report
                                             ELSE hand[w].attempt]

Published(w) == [status |-> "completed", report |-> hand[w].attempt]

Publish(w) ==
  /\ pc[w] = "publish"
  /\ WriteEnvelope(w, Published(w))
  /\ GoTo(w, "record")
  /\ Strays(w)
  /\ UNCHANGED <<job, link, measured, spent, hand, faults, stalls>>

\* Mutant: one row per job, whichever attempt got there first.
RecordedOnce(w) == IF spent = {} THEN {hand[w].attempt} ELSE spent

Recorded(w) == spent \cup {hand[w].attempt}

\* _record_consumption never fails the run, and may lose the row.
RecordConsumption(w) ==
  /\ pc[w] = "record"
  /\ \/ spent' = Recorded(w) /\ UNCHANGED <<faults, lost>>
     \/ Fault /\ lost' = lost \cup {hand[w].attempt} /\ UNCHANGED spent
  /\ GoTo(w, "final")
  /\ UNCHANGED <<job, link, content, measured, hand, stalls, strayed>>

---------------------------------------------------------------------------
(* Faults *)

\* A database call raises: the failure is recorded, unless the outcome was
\* being written or its recording fails too.
StoreFails(w) ==
  /\ AtWork(w)
  /\ pc[w] \notin {"work", "boundary", "record"}
  /\ Fault
  /\ \/ GoTo(w, "idle") /\ UNCHANGED job
     \/ /\ pc[w] \notin {"calledOff", "return"}
        /\ \E transient \in BOOLEAN : EndAttempt(w, Fail(job, transient))
  /\ UNCHANGED <<link, content, measured, spent, hand, stalls, history>>

Crash(w) ==
  /\ pc[w] # "dead"
  /\ Fault
  /\ GoTo(w, "dead")
  /\ UNCHANGED <<job, link, content, measured, spent, hand, stalls, history>>

---------------------------------------------------------------------------
Handle(w) ==
  \/ CancelAtClaim(w) \/ CompanyNotFound(w) \/ CreateRecord(w) \/ LinkRecord(w)
  \/ IdentityCheckpoint(w) \/ FinalCheckpoint(w) \/ CompleteJob(w)

Process(w) ==
  \/ LoadRecord(w) \/ StartResearch(w) \/ Advance(w) \/ ReportStage(w)
  \/ ResearchFails(w) \/ ResearchReturns(w) \/ Publish(w) \/ RecordConsumption(w)

Next ==
  \/ BackoffElapses \/ LeaseLapses \/ RequestCancel
  \/ \E w \in Workers :
       \/ ClaimJob(w) \/ Retire(w) \/ Beat(w) \/ Handle(w) \/ Process(w)
       \/ StoreFails(w) \/ Crash(w)

Spec == Init /\ [][Next]_vars

---------------------------------------------------------------------------
(* What a reader is shown *)

\* The envelope of the record the row names.
Inner == IF link = 0 THEN NoRecord ELSE content[link]

\* Mutant: the row only fills in a report the record does not name.
ReportIdOfRowLast ==
  IF Inner.report > 0 \/ job.status \notin HasResult THEN Inner.report ELSE job.result

\* The row wins where it has a result.
ReportId == IF job.status \in HasResult THEN job.result ELSE Inner.report

\* compose_envelope: the id may be the row's; the report's summary (with an id
\* of its own) is always the record's, and so are the warnings.
Shown == [analysis_report_id |-> ReportId, report |-> Inner.report]

---------------------------------------------------------------------------
(* Properties *)

JobRow ==
  [status : StoredStatuses, attempt : 0 .. MaxAttempts,
   owner : Workers \cup {NoOne}, lease : {"none", "live", "lapsed"},
   due : BOOLEAN, cancelRequested : BOOLEAN, result : 0 .. MaxAttempts]

Envelope ==
  [status : {"none", "pending", "running", "completed"},
   report : 0 .. MaxAttempts]

Hand ==
  [run : 0 .. MaxAttempts, attempt : 0 .. MaxAttempts, stage : 0 .. Stages,
   envelope : Envelope]

\* Every variable has its type; the link, once there is one, and every worker
\* that writes name a record that exists.
TypeOK ==
  /\ job \in JobRow
  /\ link \in 0 .. MaxAttempts
  /\ content \in [Attempts -> Envelope]
  /\ link > 0 => content[link] # NoRecord
  /\ measured \in SUBSET Attempts
  /\ spent \in SUBSET measured
  /\ pc \in [Workers -> {"idle", "calledOff", "create", "link", "identity",
                         "load", "start", "work", "boundary", "publish",
                         "record", "final", "return", "dead"}]
  /\ hand \in [Workers -> Hand]
  /\ \A w \in Workers :
       pc[w] \notin {"idle", "dead", "calledOff", "create"} =>
         hand[w].run > 0 /\ content[hand[w].run] # NoRecord
  /\ faults \in 0 .. MaxFaults
  /\ stalls \in 0 .. MaxStalls
  /\ lost \in SUBSET measured /\ strayed \in BOOLEAN

Records == {a \in Attempts : content[a].status # "none"}

OneRecord == \A a, b \in Records : a = b

\* A job that is retried because its research failed keeps one content record.
\* Nothing is said once a process crashed or a database call failed, wherever,
\* or a lease lapsed under a live worker (run_company_research_job).
RetriesShareOneRecord == stalls = 0 /\ faults = 0 => OneRecord

\* Whatever crashes between the two, once the job is completed the record its
\* row names is completed too, with the report the row names: an attempt that
\* died after publishing, or before linking, leaves no trace in it (the order
\* of link, publish and complete).  A lapse under a live worker is excluded.
ContentAgreesWithTheJob ==
  stalls = 0 /\ job.status \in HasResult =>
    link > 0 /\ content[link] = [status |-> "completed", report |-> job.result]

\* The id a reader of a completed job is given is that of the report its last
\* attempt produced, even when an expired worker writes over the record or
\* relinks the row.  The report shown beside the id is the same one unless such
\* a write happened at any time: however many leases lapse, what an owner wrote
\* is shown to the end (compose_envelope, link_agent_run, the owner guard).
ReaderIsShownTheLastReport ==
  job.status \in HasResult =>
    /\ Shown.analysis_report_id = job.attempt /\ job.attempt \in measured
    /\ ~strayed => Shown.report = Shown.analysis_report_id

\* What a completed job consumed is on record for the attempt that completed
\* it, whichever workers overlapped or crashed, unless that recording itself
\* failed, which the run survives (_record_consumption before complete).
CompletedWorkIsAccounted ==
  job.status \in HasResult => job.attempt \in spent \cup lost

CalledOff ==
  /\ job.cancelRequested
  /\ job.status \notin HasResult
  /\ \A w \in Workers : Owns(w) => pc[w] # "return"

\* A job asked to stop before its owner passed the last checkpoint never
\* completes, although every earlier checkpoint's refusal is swallowed and
\* other workers may retry it (ctx.checkpoint, run_once).
CalledOffStaysCalledOff == [][CalledOff => CalledOff']_vars

=============================================================================
