------------------------ MODULE CompanyResearchProofs ------------------------
(***************************************************************************)
(* For any number of workers, attempts, stages, crashes and lapsed leases: *)
(* the report id a reader of a completed job is given is its last          *)
(* attempt's, and so is the report beside it while only owners write; what *)
(* that attempt consumed is on record unless that very recording failed;   *)
(* a job that was called off in time never completes.  Without a lapse     *)
(* under a live worker, the content record agrees with the completed job,  *)
(* and retries share one.                                                  *)
(***************************************************************************)
EXTENDS CompanyResearch, TLAPS

USE MaxAttemptsAssumption, ResearchAssumption

Places == {"idle", "calledOff", "create", "link", "identity", "load", "start",
           "work", "boundary", "publish", "record", "final", "return", "dead"}

---------------------------------------------------------------------------
(* The inductive invariant *)

\* A row has an owner exactly while it runs; a pending one has attempts left;
\* a result is that of the last attempt.
RowOK(v) ==
  /\ v \in JobRow
  /\ v.status = "running" <=> v.owner # NoOne
  /\ v.status = "pending" => v.attempt < MaxAttempts
  /\ v.status \in HasResult => v.result = v.attempt

Types ==
  /\ RowOK(job)
  /\ link \in 0 .. MaxAttempts
  /\ content \in [Attempts -> Envelope]
  /\ measured \in SUBSET Attempts
  /\ spent \in SUBSET measured
  /\ pc \in [Workers -> Places]
  /\ hand \in [Workers -> Hand]
  /\ faults \in 0 .. MaxFaults
  /\ stalls \in 0 .. MaxStalls
  /\ lost \in SUBSET measured
  /\ strayed \in BOOLEAN

\* What is named exists.
Named ==
  /\ link > 0 => content[link].status # "none"
  /\ \A w \in Workers :
       pc[w] \notin {"idle", "dead", "calledOff", "create"} =>
         hand[w].run > 0 /\ content[hand[w].run].status # "none"

\* A copy that will be written is that of a running attempt.
Copies ==
  \A w \in Workers :
    pc[w] \in {"start", "work", "boundary"} => hand[w].envelope.status = "running"

\* A worker works for an attempt that was claimed, the owner for the last one.
Current ==
  \A w \in Workers :
    AtWork(w) => /\ hand[w].attempt \in 1 .. job.attempt
                 /\ Owns(w) => hand[w].attempt = job.attempt

\* The work behind a result was measured, and paid for unless that failed.
Paid(w) ==
  /\ pc[w] \in {"publish", "record", "final", "return"} => hand[w].attempt \in measured
  /\ pc[w] \in {"final", "return"} => hand[w].attempt \in spent \cup lost

PaidResult ==
  job.status \in HasResult => job.attempt \in measured /\ job.attempt \in spent \cup lost

\* While only owners write, the record of the owner is the linked one, and what
\* it published is still there.
Kept(w) ==
  Owns(w) /\ AtWork(w) =>
    /\ IF pc[w] \in {"create", "link"} THEN link = 0
       ELSE pc[w] # "calledOff" => link = hand[w].run
    /\ pc[w] \in {"record", "final", "return"} => content[hand[w].run] = Published(w)

KeptResult ==
  job.status \in HasResult =>
    link > 0 /\ content[link] = [status |-> "completed", report |-> job.result]

Unstrayed == ~strayed => KeptResult /\ \A w \in Workers : Kept(w)

\* Without a stall, a worker at work owns the row.
Sole(w) == AtWork(w) => Owns(w) /\ job.lease = "live"

\* Without a fault either, a record that is not linked is about to be.
Trail ==
  \A a \in Attempts :
    content[a].status # "none" =>
      link = a \/ \E w \in Workers : pc[w] = "link" /\ hand[w].run = a

Exclusive ==
  stalls = 0 =>
    /\ ~strayed
    /\ \A w \in Workers : Sole(w)
    /\ faults = 0 => Trail

IInv ==
  /\ Types /\ Named /\ Copies /\ Current
  /\ \A w \in Workers : Paid(w)
  /\ PaidResult /\ Unstrayed /\ Exclusive

---------------------------------------------------------------------------
(* Rows *)

\* Every move of the contract leaves a sound row (job_contract.py).
LEMMA RowMoves ==
  ASSUME NEW v, RowOK(v)
  PROVE  /\ RowOK([v EXCEPT !.due = TRUE])
         /\ v.lease = "live" => RowOK([v EXCEPT !.lease = "lapsed"])
         /\ RowOK([v EXCEPT !.cancelRequested = TRUE])
         /\ \A w \in Workers : IsClaimable(v) => RowOK(Claim(v, w))
         /\ RowOK(Heartbeat(v))
         /\ RowOK(Cancel(v)) /\ RowOK(Abandon(v))
         /\ RowOK([Cancel(v) EXCEPT !.cancelRequested = TRUE])
         /\ \A b \in BOOLEAN : RowOK(Fail(v, b))
         /\ \A b \in BOOLEAN : RowOK([Complete(v, b) EXCEPT !.result = v.attempt])
<1>. USE DEF RowOK, JobRow, StoredStatuses, Terminal, HasResult
<1>1. /\ RowOK([v EXCEPT !.due = TRUE])
      /\ v.lease = "live" => RowOK([v EXCEPT !.lease = "lapsed"])
      /\ RowOK([v EXCEPT !.cancelRequested = TRUE])
      /\ RowOK(Heartbeat(v))
  BY DEF Heartbeat
<1>2. /\ RowOK(Cancel(v)) /\ RowOK(Abandon(v))
      /\ RowOK([Cancel(v) EXCEPT !.cancelRequested = TRUE])
  BY DEF Cancel, Abandon, Released
<1>3. ASSUME NEW w \in Workers PROVE IsClaimable(v) => RowOK(Claim(v, w))
  <2>1. IsClaimable(v) => v.attempt + 1 \in 0 .. MaxAttempts
    BY DEF IsClaimable, AttemptsExhausted
  <2>. QED
    BY <2>1 DEF Claim, IsClaimable
<1>4. ASSUME NEW b \in BOOLEAN
      PROVE  RowOK([Complete(v, b) EXCEPT !.result = v.attempt])
  BY DEF Complete, Released
<1>5. ASSUME NEW b \in BOOLEAN PROVE RowOK(Fail(v, b))
  <2>1. CASE WillRetry(v, b)
    <3>1. v.attempt < MaxAttempts
      BY <2>1 DEF WillRetry, AttemptsExhausted
    <3>2. Fail(v, b) = [v EXCEPT !.status = "pending", !.owner = NoOne,
                                 !.lease = "none", !.due = FALSE]
      BY <2>1 DEF Fail, Released
    <3>. QED
      BY <3>1, <3>2
  <2>2. CASE ~WillRetry(v, b)
    <3>1. \/ Fail(v, b) = Released(v, "failed")
          \/ Fail(v, b) = Released(v, "dead_letter")
      BY <2>2 DEF Fail
    <3>. QED
      BY <3>1 DEF Released
  <2>. QED
    BY <2>1, <2>2
<1>. QED
  BY <1>1, <1>2, <1>3, <1>4, <1>5

LEMMA InitIInv == Init => IInv
<1>. SUFFICES ASSUME Init PROVE IInv
  OBVIOUS
<1>1. RowOK(job)
  BY DEF Init, FreshRow, RowOK, JobRow, StoredStatuses, HasResult, Terminal
<1>2. content \in [Attempts -> Envelope] /\ hand \in [Workers -> Hand]
  BY DEF Init, Envelope, NoRecord, Hand, EmptyHand
<1>3. Types
  <2>1. pc \in [Workers -> Places] /\ link \in 0 .. MaxAttempts
        /\ faults \in 0 .. MaxFaults /\ stalls \in 0 .. MaxStalls
    BY DEF Init, Places
  <2>2. measured \in SUBSET Attempts /\ spent \in SUBSET measured
        /\ lost \in SUBSET measured /\ strayed \in BOOLEAN
    BY DEF Init
  <2>. QED
    BY <1>1, <1>2, <2>1, <2>2 DEF Types
<1>4. Named /\ Copies /\ Current /\ \A w \in Workers : Paid(w) /\ Kept(w) /\ Sole(w)
  BY DEF Init, Named, Copies, Current, Paid, Kept, Sole, AtWork
<1>5. PaidResult /\ Unstrayed /\ Exclusive
  BY <1>4 DEF Init, PaidResult, Unstrayed, KeptResult, Exclusive, Trail, FreshRow, HasResult, NoRecord
<1>. QED
  BY <1>3, <1>4, <1>5 DEF IInv

---------------------------------------------------------------------------
(* Steps that change the row alone *)

LEMMA RowSteps ==
  ASSUME IInv, UNCHANGED <<link, content, measured, spent, pc, hand, faults, history>>,
         RowOK(job'), stalls' \in 0 .. MaxStalls, stalls' = 0 => stalls = 0,
         job'.attempt = job.attempt,
         \/ job'.status = job.status /\ job'.owner = job.owner
         \/ job'.owner = NoOne /\ job'.status \notin HasResult,
         stalls' = 0 => \A w \in Workers :
                         AtWork(w) => job'.lease = job.lease /\ job'.owner = job.owner,
         job'.status \in HasResult => job'.result = job.result
  PROVE  IInv'
<1>. USE DEF IInv
<1>1. Types'
  BY DEF Types, RowOK, history
<1>2. Named' /\ Copies'
  BY DEF Named, Copies
<1>3. Current'
  BY DEF Current, AtWork, Owns, Types
<1>4. \A w \in Workers : Paid(w)'
  BY DEF Paid, history
<1>5. PaidResult'
  BY DEF PaidResult, history
<1>6. Unstrayed'
  BY DEF Unstrayed, KeptResult, Kept, AtWork, Owns, Published, Types, history
<1>7. Exclusive'
  BY DEF Exclusive, Sole, Trail, AtWork, Owns, history
<1>. QED
  BY <1>1, <1>2, <1>3, <1>4, <1>5, <1>6, <1>7

LEMMA RowActions ==
  ASSUME IInv,
         \/ BackoffElapses \/ LeaseLapses \/ RequestCancel
         \/ \E w \in Workers : Retire(w) \/ Beat(w)
  PROVE  IInv'
<1>1. RowOK(job) /\ job \in JobRow /\ stalls \in 0 .. MaxStalls
  BY DEF IInv, Types, RowOK
<1>2. stalls = 0 => \A w \in Workers : AtWork(w) => Owns(w) /\ job.lease = "live"
  BY DEF IInv, Exclusive, Sole
<1>3. CASE BackoffElapses
  <2>1. RowOK(job')
    BY <1>1, <1>3, RowMoves DEF BackoffElapses
  <2>. QED
    BY <1>1, <1>3, <2>1, RowSteps DEF BackoffElapses, JobRow
<1>4. CASE LeaseLapses
  <2>1. RowOK(job')
    BY <1>1, <1>4, RowMoves DEF LeaseLapses
  <2>2. stalls' \in 0 .. MaxStalls /\ (stalls' = 0 => stalls = 0)
    BY <1>1, <1>4 DEF LeaseLapses
  <2>3. stalls' = 0 => \A w \in Workers : ~AtWork(w)
    BY <1>1, <1>2, <1>4 DEF LeaseLapses, OwnerAtWork
  <2>. QED
    BY <1>1, <1>4, <2>1, <2>2, <2>3, RowSteps DEF LeaseLapses, JobRow
<1>5. CASE RequestCancel
  <2>1. RowOK(job')
    BY <1>1, <1>5, RowMoves DEF RequestCancel
  <2>2. CASE job.status = "pending"
    <3>1. stalls = 0 => \A w \in Workers : ~AtWork(w)
      BY <1>1, <1>2, <2>2 DEF RowOK, Owns
    <3>2. /\ job'.attempt = job.attempt /\ job'.owner = NoOne
          /\ job'.status = "cancelled"
      BY <1>1, <1>5, <2>2 DEF RequestCancel, Cancel, Released, JobRow
    <3>. QED
      BY <1>1, <1>5, <2>1, <3>1, <3>2, RowSteps DEF RequestCancel, HasResult
  <2>3. CASE job.status = "running"
    <3>1. job' = [job EXCEPT !.cancelRequested = TRUE]
      BY <1>5, <2>3 DEF RequestCancel
    <3>. QED
      BY <1>1, <1>5, <2>1, <3>1, RowSteps DEF RequestCancel, JobRow
  <2>. QED
    BY <1>5, <2>2, <2>3 DEF RequestCancel
<1>6. ASSUME NEW w \in Workers, Retire(w) PROVE IInv'
  <2>1. RowOK(job')
    BY <1>1, <1>6, RowMoves DEF Retire
  <2>2. stalls = 0 => \A x \in Workers : ~AtWork(x)
    BY <1>2, <1>6 DEF Retire, IsAbandoned, LeaseExpired
  <2>3. /\ job'.attempt = job.attempt /\ job'.owner = NoOne
        /\ job'.status = "dead_letter"
    BY <1>1, <1>6 DEF Retire, Abandon, Released, JobRow
  <2>. QED
    BY <1>1, <1>6, <2>1, <2>2, <2>3, RowSteps DEF Retire, HasResult
<1>7. ASSUME NEW w \in Workers, Beat(w) PROVE IInv'
  <2>1. RowOK(job') /\ job' = [job EXCEPT !.lease = "live"]
    BY <1>1, <1>7, RowMoves DEF Beat, Heartbeat
  <2>2. /\ job'.attempt = job.attempt /\ job'.owner = job.owner
        /\ job'.status = job.status /\ job'.result = job.result
        /\ job'.lease = "live"
    BY <1>1, <2>1 DEF JobRow
  <2>. QED
    BY <1>1, <1>2, <1>7, <2>1, <2>2, RowSteps DEF Beat
<1>. QED
  BY <1>3, <1>4, <1>5, <1>6, <1>7

---------------------------------------------------------------------------
(* The claim, and the ways an attempt ends *)

LEMMA FreshHand ==
  ASSUME NEW r \in 0 .. MaxAttempts, NEW a \in 0 .. MaxAttempts
  PROVE  /\ [EmptyHand EXCEPT !.run = r, !.attempt = a] \in Hand
         /\ [EmptyHand EXCEPT !.run = r, !.attempt = a].run = r
         /\ [EmptyHand EXCEPT !.run = r, !.attempt = a].attempt = a
<1>1. EmptyHand \in Hand
  BY DEF EmptyHand, NoRecord, Envelope, Hand
<1>. QED
  BY <1>1 DEF Hand

LEMMA ClaimKeeps ==
  ASSUME IInv, NEW w \in Workers, ClaimJob(w)
  PROVE  IInv'
<1>. DEFINE h == [EmptyHand EXCEPT !.run = link, !.attempt = job'.attempt]
<1>. USE DEF IInv
<1>1. RowOK(job) /\ job \in JobRow
  BY DEF Types, RowOK
<1>2. RowOK(job') /\ job'.attempt = job.attempt + 1 /\ job'.owner = w
      /\ job'.status = "running" /\ job'.lease = "live"
  BY <1>1, RowMoves DEF ClaimJob, Claim, JobRow
<1>3. hand' = [hand EXCEPT ![w] = h] /\ GoTo(w, Entry)
      /\ UNCHANGED <<link, content, measured, spent, faults, stalls, history>>
  BY DEF ClaimJob
<1>4. /\ h \in Hand /\ h.attempt = job'.attempt /\ h.run = link
      /\ job'.attempt \in 1 .. MaxAttempts
  <2>1. job'.attempt \in 1 .. MaxAttempts /\ link \in 0 .. MaxAttempts
    BY <1>1, <1>2 DEF Types, RowOK, JobRow
  <2>2. job'.attempt \in 0 .. MaxAttempts
    BY <2>1
  <2>3. h \in Hand /\ h.run = link /\ h.attempt = job'.attempt
    BY <2>1, <2>2, FreshHand
  <2>. QED
    BY <2>1, <2>3
<1>5. stalls = 0 => \A x \in Workers : ~AtWork(x)
  BY <1>1 DEF Exclusive, Sole, ClaimJob, IsClaimable, LeaseExpired, RowOK, Owns
<1>6. Entry \in {"calledOff", "create", "identity"} /\ (Entry = "identity" => link # 0)
      /\ (Entry = "create" => link = 0)
  BY DEF Entry
<1>. HIDE DEF h
<1>7. Types'
  BY <1>2, <1>3, <1>4, <1>6 DEF Types, RowOK, GoTo, Places, history
<1>8. /\ hand'[w] = h /\ pc'[w] = Entry
      /\ \A x \in Workers \ {w} : hand'[x] = hand[x] /\ pc'[x] = pc[x]
  BY <1>3 DEF Types, GoTo
<1>9. Named'
  BY <1>3, <1>4, <1>6, <1>8 DEF Named, Types
<1>10. Copies'
  BY <1>6, <1>8 DEF Copies
<1>11. Current'
  BY <1>1, <1>2, <1>4, <1>8 DEF Current, AtWork, Owns, JobRow
<1>12. \A x \in Workers : Paid(x)'
  BY <1>3, <1>6, <1>8 DEF Paid, history
<1>13. PaidResult'
  BY <1>2 DEF PaidResult, HasResult
<1>14. Unstrayed'
  <2>1. KeptResult'
    BY <1>2 DEF KeptResult, HasResult
  <2>2. \A x \in Workers : Kept(x)'
    BY <1>2, <1>3, <1>4, <1>6, <1>8 DEF Kept, AtWork, Owns
  <2>. QED
    BY <2>1, <2>2 DEF Unstrayed
<1>15. Exclusive'
  <2>. SUFFICES ASSUME stalls = 0 PROVE Exclusive'
    BY <1>3 DEF Exclusive
  <2>1. \A x \in Workers : Sole(x)'
    BY <1>2, <1>5, <1>8 DEF Sole, AtWork, Owns
  <2>2. faults = 0 => Trail'
    BY <1>3, <1>5, <1>8 DEF Exclusive, Trail, AtWork
  <2>. QED
    BY <1>3, <2>1, <2>2 DEF Exclusive, history
<1>. QED
  BY <1>7, <1>9, <1>10, <1>11, <1>12, <1>13, <1>14, <1>15

\* An attempt that stops, whatever it leaves in the row short of a result.
LEMMA Stops ==
  ASSUME IInv, NEW w \in Workers, NEW p \in {"idle", "dead"}, GoTo(w, p),
         UNCHANGED <<link, content, spent, hand, stalls, history>>,
         faults' \in 0 .. MaxFaults, faults' = 0 => faults = 0,
         faults' = 0 => pc[w] # "link",
         measured \subseteq measured', measured' \subseteq Attempts,
         RowOK(job'), job'.attempt = job.attempt,
         \/ job' = job
         \/ Owns(w) /\ job'.owner = NoOne /\ job'.status \notin HasResult,
         AtWork(w) \/ job' = job
  PROVE  IInv'
<1>. USE DEF IInv
<1>1. /\ pc'[w] = p
      /\ \A x \in Workers \ {w} : pc'[x] = pc[x]
  BY DEF Types, GoTo
<1>2. Types'
  BY DEF Types, RowOK, GoTo, Places, history
<1>3. Named' /\ Copies'
  BY <1>1 DEF Named, Copies
<1>4. Current'
  BY <1>1 DEF Current, AtWork, Owns, Types
<1>5. \A x \in Workers : Paid(x)'
  BY <1>1 DEF Paid, history
<1>6. PaidResult'
  BY DEF PaidResult, history
<1>7. Unstrayed'
  <2>1. ~strayed => KeptResult'
    <3>1. job'.status \in HasResult => job' = job
      OBVIOUS
    <3>. QED
      BY <3>1 DEF Unstrayed, KeptResult
  <2>2. ~strayed => \A x \in Workers : Kept(x)'
    BY <1>1 DEF Unstrayed, Kept, AtWork, Owns, Published
  <2>. QED
    BY <2>1, <2>2 DEF Unstrayed, history
<1>8. Exclusive'
  <2>. SUFFICES ASSUME stalls = 0 PROVE Exclusive'
    BY DEF Exclusive
  <2>1. \A x \in Workers : Sole(x)'
    BY <1>1 DEF Exclusive, Sole, AtWork, Owns
  <2>2. faults' = 0 => Trail'
    BY <1>1 DEF Exclusive, Trail
  <2>. QED
    BY <2>1, <2>2 DEF Exclusive, history
<1>. QED
  BY <1>2, <1>3, <1>4, <1>5, <1>6, <1>7, <1>8

\* A row the owner releases without a result.
LEMMA Releases ==
  ASSUME IInv, NEW b \in BOOLEAN, NEW v, v = Cancel(job) \/ v = Fail(job, b)
  PROVE  /\ RowOK(v) /\ v.attempt = job.attempt /\ v.owner = NoOne
         /\ v.status \notin HasResult
<1>1. RowOK(job) /\ job \in JobRow
  BY DEF IInv, Types, RowOK
<1>2. RowOK(v)
  BY <1>1, RowMoves
<1>3. v.attempt = job.attempt /\ v.owner = NoOne /\ v.status \notin HasResult
  BY <1>1 DEF Cancel, Fail, Released, JobRow, HasResult
<1>. QED
  BY <1>2, <1>3

LEMMA EndActions ==
  ASSUME IInv, NEW w \in Workers,
         \/ CancelAtClaim(w) \/ CompanyNotFound(w) \/ ResearchFails(w)
         \/ StoreFails(w) \/ Crash(w)
  PROVE  IInv'
<1>1. RowOK(job) /\ faults \in 0 .. MaxFaults /\ measured \subseteq Attempts
  BY DEF IInv, Types
<1>2. CASE CancelAtClaim(w)
  BY <1>1, <1>2, Releases, Stops DEF CancelAtClaim, EndAttempt, AtWork
<1>3. CASE ResearchFails(w)
  <2>1. PICK t \in BOOLEAN : EndAttempt(w, Fail(job, t))
    BY <1>3 DEF ResearchFails
  <2>. QED
    BY <1>1, <1>3, <2>1, Releases, Stops DEF ResearchFails, EndAttempt, AtWork
<1>4. CASE StoreFails(w)
  <2>1. faults' \in 0 .. MaxFaults /\ faults' # 0
    BY <1>1, <1>4 DEF StoreFails, Fault
  <2>2. CASE GoTo(w, "idle") /\ UNCHANGED job
    BY <1>1, <1>4, <2>1, <2>2, Stops DEF StoreFails
  <2>3. ASSUME NEW t \in BOOLEAN, EndAttempt(w, Fail(job, t)) PROVE IInv'
    BY <1>1, <1>4, <2>1, <2>3, Releases, Stops DEF StoreFails, EndAttempt
  <2>. QED
    BY <1>4, <2>2, <2>3 DEF StoreFails
<1>5. CASE Crash(w)
  <2>1. faults' \in 0 .. MaxFaults /\ faults' # 0
    BY <1>1, <1>5 DEF Crash, Fault
  <2>. QED
    BY <1>1, <1>5, <2>1, Stops DEF Crash
<1>6. CASE CompanyNotFound(w)
  BY <1>1, <1>6, Releases, Stops DEF CompanyNotFound, EndAttempt, AtWork
<1>. QED
  BY <1>2, <1>3, <1>4, <1>5, <1>6

\* Completion: the owner's attempt is the last one, measured and published.
LEMMA CompleteKeeps ==
  ASSUME IInv, NEW w \in Workers, CompleteJob(w)
  PROVE  IInv'
<1>. USE DEF IInv
<1>1. RowOK(job) /\ job \in JobRow /\ faults \in 0 .. MaxFaults /\ measured \subseteq Attempts
  BY DEF Types, RowOK
<1>2. PICK b \in BOOLEAN :
        EndAttempt(w, [Complete(job, b) EXCEPT !.result = hand[w].attempt])
  BY DEF CompleteJob
<1>3. UNCHANGED <<link, content, measured, spent, hand, faults, stalls, history>> /\ pc[w] = "return"
  BY DEF CompleteJob
<1>4. CASE ~Owns(w)
  BY <1>1, <1>2, <1>3, <1>4, Stops DEF EndAttempt
<1>5. CASE Owns(w)
  <2>. DEFINE v == [Complete(job, b) EXCEPT !.result = job.attempt]
  <2>1. hand[w].attempt = job.attempt /\ job.attempt \in Attempts
    BY <1>1, <1>3, <1>5 DEF Current, AtWork, Attempts, JobRow
  <2>2. job' = v /\ GoTo(w, "idle")
    BY <1>2, <1>5, <2>1 DEF EndAttempt
  <2>3. RowOK(v) /\ v.attempt = job.attempt /\ v.owner = NoOne /\ v.status \in HasResult
        /\ v.result = job.attempt
    BY <1>1, RowMoves DEF Complete, Released, JobRow, HasResult
  <2>. HIDE DEF v
  <2>4. pc'[w] = "idle" /\ \A x \in Workers \ {w} : pc'[x] = pc[x]
    BY <2>2 DEF Types, GoTo
  <2>5. Types'
    BY <1>3, <2>2, <2>3 DEF Types, RowOK, GoTo, Places, history
  <2>6. Named' /\ Copies'
    BY <1>3, <2>4 DEF Named, Copies
  <2>7. Current'
    BY <1>3, <2>2, <2>3, <2>4 DEF Current, AtWork, Owns, Types
  <2>8. \A x \in Workers : Paid(x)'
    BY <1>3, <2>4 DEF Paid, history
  <2>9. PaidResult'
    BY <1>3, <2>1, <2>2, <2>3 DEF PaidResult, Paid, history
  <2>10. Unstrayed'
    <3>. SUFFICES ASSUME ~strayed PROVE Unstrayed'
      BY <1>3 DEF Unstrayed, history
    <3>1. Kept(w) /\ hand[w].run > 0
      BY <1>3 DEF Unstrayed, Named
    <3>2. link = hand[w].run /\ content[link] = [status |-> "completed", report |-> job.attempt]
      BY <1>3, <1>5, <2>1, <3>1 DEF Kept, AtWork, Published
    <3>3. KeptResult'
      BY <1>3, <2>2, <2>3, <3>1, <3>2 DEF KeptResult
    <3>4. \A x \in Workers : Kept(x)'
      BY <2>2, <2>3 DEF Kept, Owns
    <3>. QED
      BY <3>3, <3>4 DEF Unstrayed
  <2>11. Exclusive'
    <3>. SUFFICES ASSUME stalls = 0 PROVE Exclusive'
      BY <1>3 DEF Exclusive
    <3>1. \A x \in Workers : Sole(x)'
      BY <1>5, <2>4 DEF Exclusive, Sole, AtWork, Owns
    <3>2. faults = 0 => Trail'
      BY <1>3, <2>4 DEF Exclusive, Trail
    <3>. QED
      BY <1>3, <3>1, <3>2 DEF Exclusive, history
  <2>. QED
    BY <2>5, <2>6, <2>7, <2>8, <2>9, <2>10, <2>11
<1>. QED
  BY <1>4, <1>5

---------------------------------------------------------------------------
(* The steps of an attempt that goes on *)

\* What a step of w must show for the invariant, the others being untouched.
LEMMA Moves ==
  ASSUME IInv, NEW w \in Workers, AtWork(w),
         NEW q \in Places \ {"idle", "dead", "calledOff", "create"}, GoTo(w, q),
         NEW h \in Hand, hand' = [hand EXCEPT ![w] = h], h.attempt = hand[w].attempt,
         content' \in [Attempts -> Envelope],
         \A a \in Attempts : content[a].status # "none" => content'[a].status # "none",
         link' \in 0 .. MaxAttempts, link' > 0 => content'[link'].status # "none",
         measured \subseteq measured', measured' \subseteq Attempts,
         spent \subseteq spent', spent' \subseteq measured',
         lost \subseteq lost', lost' \subseteq measured', strayed' \in BOOLEAN,
         faults' \in 0 .. MaxFaults, faults' = 0 => faults = 0, UNCHANGED stalls,
         RowOK(job'), job'.attempt = job.attempt, job'.status = job.status,
         job'.owner = job.owner, job'.result = job.result,
         job'.lease = job.lease \/ job'.lease = "live",
         h.run > 0 /\ content'[h.run].status # "none",
         q \in {"start", "work", "boundary"} => h.envelope.status = "running",
         Paid(w)',
         \/ strayed' = (strayed \/ ~Owns(w)) \/ UNCHANGED <<link, content, strayed>>,
         ~strayed /\ Owns(w) =>
           /\ link' = IF q = "link" THEN 0 ELSE h.run
           /\ q \in {"record", "final", "return"} =>
                content'[h.run] = [status |-> "completed", report |-> h.attempt],
         stalls = 0 /\ faults' = 0 => Trail'
  PROVE  IInv'
<1>. USE DEF IInv
<1>1. /\ pc'[w] = q /\ hand'[w] = h
      /\ \A x \in Workers \ {w} : pc'[x] = pc[x] /\ hand'[x] = hand[x]
  BY DEF Types, GoTo
<1>2. Types'
  BY DEF Types, RowOK, GoTo
<1>3. Named'
  <2>1. \A x \in Workers : hand[x].run \in 0 .. MaxAttempts
    BY DEF Types, Hand
  <2>. QED
    BY <1>1, <2>1 DEF Named, Attempts
<1>4. Copies'
  BY <1>1 DEF Copies
<1>5. Current'
  BY <1>1 DEF Current, AtWork, Owns
<1>6. \A x \in Workers : Paid(x)'
  BY <1>1 DEF Paid
<1>7. PaidResult'
  BY DEF PaidResult
<1>8. Unstrayed'
  <2>. SUFFICES ASSUME ~strayed' PROVE KeptResult' /\ \A x \in Workers : Kept(x)'
    BY DEF Unstrayed
  <2>1. ~strayed /\ (Owns(w) \/ UNCHANGED <<link, content>>)
    BY DEF Types
  <2>2. job.status \in HasResult => ~Owns(w)
    BY DEF Types, RowOK, Owns, HasResult
  <2>3. KeptResult'
    BY <2>1, <2>2 DEF Unstrayed, KeptResult
  <2>4. Kept(w)'
    BY <1>1, <2>1 DEF Kept, Owns, Published
  <2>5. \A x \in Workers \ {w} : Kept(x)'
    BY <1>1, <2>1 DEF Unstrayed, Kept, AtWork, Owns, Published
  <2>. QED
    BY <2>3, <2>4, <2>5
<1>9. Exclusive'
  <2>. SUFFICES ASSUME stalls = 0 PROVE Exclusive'
    BY DEF Exclusive
  <2>1. Owns(w) /\ job.lease = "live" /\ \A x \in Workers \ {w} : ~AtWork(x)
    BY DEF Exclusive, Sole, Owns
  <2>2. \A x \in Workers : Sole(x)'
    BY <1>1, <2>1 DEF Sole, AtWork, Owns
  <2>. QED
    BY <2>1, <2>2 DEF Exclusive
<1>. QED
  BY <1>2, <1>3, <1>4, <1>5, <1>6, <1>7, <1>8, <1>9

\* What the invariant says of a worker, for the steps below.
LEMMA AtHand ==
  ASSUME IInv, NEW w \in Workers
  PROVE  /\ RowOK(job) /\ job \in JobRow
         /\ content \in [Attempts -> Envelope] /\ link \in 0 .. MaxAttempts
         /\ measured \subseteq Attempts /\ spent \subseteq measured
         /\ lost \subseteq measured /\ strayed \in BOOLEAN
         /\ faults \in 0 .. MaxFaults
         /\ hand \in [Workers -> Hand] /\ hand[w] \in Hand
         /\ hand[w].run \in 0 .. MaxAttempts
         /\ link > 0 => content[link].status # "none"
         /\ AtWork(w) => hand[w].attempt \in Attempts
<1>1. AtWork(w) => hand[w].attempt \in Attempts
  BY DEF IInv, Current, Types, RowOK, JobRow, Attempts
<1>. QED
  BY <1>1 DEF IInv, Types, RowOK, Named, Hand

\* A beat, if it is accepted, changes nothing but the lease.
LEMMA Beats ==
  ASSUME IInv, job' = job \/ job' = Heartbeat(job)
  PROVE  /\ RowOK(job') /\ job'.attempt = job.attempt /\ job'.status = job.status
         /\ job'.owner = job.owner /\ job'.result = job.result
         /\ job'.lease = job.lease \/ job'.lease = "live"
<1>1. RowOK(job) /\ job \in JobRow
  BY DEF IInv, Types, RowOK
<1>2. RowOK(job')
  BY <1>1, RowMoves
<1>. QED
  BY <1>1, <1>2 DEF Heartbeat, JobRow

\* A step that leaves the worker what it has in hand.
LEMMA MovesOn ==
  ASSUME IInv, NEW w \in Workers, AtWork(w),
         NEW q \in Places \ {"idle", "dead", "calledOff", "create"}, GoTo(w, q),
         UNCHANGED <<hand, stalls>>,
         content' \in [Attempts -> Envelope],
         \A a \in Attempts : content[a].status # "none" => content'[a].status # "none",
         link' \in 0 .. MaxAttempts, link' > 0 => content'[link'].status # "none",
         measured \subseteq measured', measured' \subseteq Attempts,
         spent \subseteq spent', spent' \subseteq measured',
         lost \subseteq lost', lost' \subseteq measured', strayed' \in BOOLEAN,
         faults' \in 0 .. MaxFaults, faults' = 0 => faults = 0,
         job' = job \/ job' = Heartbeat(job),
         hand[w].run > 0 /\ content'[hand[w].run].status # "none",
         q \in {"start", "work", "boundary"} => hand[w].envelope.status = "running",
         Paid(w)',
         \/ strayed' = (strayed \/ ~Owns(w)) \/ UNCHANGED <<link, content, strayed>>,
         ~strayed /\ Owns(w) =>
           /\ link' = IF q = "link" THEN 0 ELSE hand[w].run
           /\ q \in {"record", "final", "return"} =>
                content'[hand[w].run] = [status |-> "completed", report |-> hand[w].attempt],
         stalls = 0 /\ faults' = 0 => Trail'
  PROVE  IInv'
<1>1. hand' = [hand EXCEPT ![w] = hand[w]] /\ hand[w] \in Hand
  BY AtHand
<1>2. /\ RowOK(job') /\ job'.attempt = job.attempt /\ job'.status = job.status
      /\ job'.owner = job.owner /\ job'.result = job.result
      /\ job'.lease = job.lease \/ job'.lease = "live"
  BY Beats
<1>. QED
  BY <1>1, <1>2, Moves

\* A step that stays clear of the records keeps the trail, unless it leaves
\* the worker with a record that is not linked.
LEMMA TrailKept ==
  ASSUME IInv, NEW w \in Workers, stalls = 0, faults = 0, AtWork(w),
         UNCHANGED link,
         \A a \in Attempts : content'[a].status # "none" => content[a].status # "none",
         pc[w] # "link",
         \A x \in Workers \ {w} : pc'[x] = pc[x] /\ hand'[x] = hand[x]
  PROVE  Trail'
  BY DEF IInv, Exclusive, Trail

LEMMA CreateKeeps ==
  ASSUME IInv, NEW w \in Workers, CreateRecord(w)
  PROVE  IInv'
<1>. DEFINE a == hand[w].attempt
            h == [hand[w] EXCEPT !.run = a]
<1>1. pc[w] = "create" /\ AtWork(w)
  BY DEF CreateRecord, AtWork
<1>2. a \in Attempts /\ a \in 1 .. MaxAttempts
  BY <1>1, AtHand DEF Attempts
<1>3. /\ content' = [content EXCEPT ![a] = NewRecord] /\ hand' = [hand EXCEPT ![w] = h]
      /\ GoTo(w, "link")
      /\ Strays(w) /\ UNCHANGED <<job, link, measured, spent, faults, stalls>>
  BY DEF CreateRecord
<1>4. h \in Hand /\ h.run = a /\ h.attempt = a /\ h.envelope = hand[w].envelope
  BY <1>2, AtHand DEF Hand
<1>. HIDE DEF h
<1>5. /\ content' \in [Attempts -> Envelope] /\ content'[a].status # "none"
      /\ \A b \in Attempts \ {a} : content'[b] = content[b]
  BY <1>2, <1>3, AtHand DEF NewRecord, Envelope
<1>6. /\ pc'[w] = "link" /\ hand'[w] = h
      /\ \A x \in Workers \ {w} : pc'[x] = pc[x] /\ hand'[x] = hand[x]
  BY <1>3 DEF IInv, Types, GoTo
<1>7. /\ ~strayed /\ Owns(w) => link = 0
      /\ stalls = 0 /\ faults = 0 => Trail'
  <2>1. ~strayed /\ Owns(w) => link = 0
    BY <1>1 DEF IInv, Unstrayed, Kept
  <2>2. ASSUME stalls = 0, faults = 0 PROVE Trail'
    <3>1. link = 0
      BY <1>1, <2>1, <2>2 DEF IInv, Exclusive, Sole
    <3>. QED
      BY <1>1, <1>3, <1>4, <1>5, <1>6, <2>2, <3>1 DEF IInv, Exclusive, Trail
  <2>. QED
    BY <2>1, <2>2
<1>8. link' \in 0 .. MaxAttempts /\ (link' > 0 => content'[link'].status # "none")
  BY <1>3, <1>5, AtHand DEF Attempts
<1>9. Paid(w)'
  BY <1>6 DEF Paid
<1>10. \A b \in Attempts : content[b].status # "none" => content'[b].status # "none"
  BY <1>5
<1>11. /\ measured' \subseteq Attempts /\ spent' \subseteq measured'
       /\ faults' \in 0 .. MaxFaults /\ (faults' = 0 => faults = 0)
       /\ lost' = lost /\ lost' \subseteq measured'
       /\ strayed' = (strayed \/ ~Owns(w)) /\ strayed' \in BOOLEAN
  BY <1>3, AtHand DEF Strays
<1>12. RowOK(job') /\ job' = job
  BY <1>3, AtHand
<1>13. /\ ~strayed /\ Owns(w) => link' = 0
       /\ stalls = 0 /\ faults' = 0 => Trail'
  BY <1>3, <1>7
<1>14. "link" \in Places \ {"idle", "dead", "calledOff", "create"}
  BY DEF Places
<1>15. /\ hand' = [hand EXCEPT ![w] = h] /\ GoTo(w, "link") /\ UNCHANGED stalls
       /\ measured \subseteq measured' /\ spent \subseteq spent'
  BY <1>3
<1>16. h.run > 0 /\ content'[h.run].status # "none" /\ h.attempt = hand[w].attempt
  BY <1>2, <1>4, <1>5
<1>. HIDE DEF a
<1>. QED
  BY <1>1, <1>4, <1>5, <1>8, <1>9, <1>10, <1>11, <1>12, <1>13, <1>14, <1>15, <1>16, Moves

LEMMA LinkKeeps ==
  ASSUME IInv, NEW w \in Workers, LinkRecord(w)
  PROVE  IInv'
<1>1. pc[w] = "link" /\ AtWork(w)
  BY DEF LinkRecord, AtWork
<1>2. /\ link' = hand[w].run /\ GoTo(w, "identity")
      /\ Strays(w) /\ UNCHANGED <<job, content, measured, spent, hand, faults, stalls>>
  BY DEF LinkRecord
<1>3. hand[w].run > 0 /\ content[hand[w].run].status # "none"
  BY <1>1 DEF IInv, Named
<1>4. pc'[w] = "identity" /\ \A x \in Workers \ {w} : pc'[x] = pc[x]
  BY <1>2 DEF IInv, Types, GoTo
<1>5. stalls = 0 /\ faults = 0 => Trail'
  <2>. SUFFICES ASSUME stalls = 0, faults = 0 PROVE Trail'
    OBVIOUS
  <2>1. link = 0 /\ \A x \in Workers : AtWork(x) => x = w
    BY <1>1 DEF IInv, Unstrayed, Kept, Exclusive, Sole, Owns
  <2>2. \A a \in Attempts : content[a].status # "none" => a = hand[w].run
    BY <1>1, <2>1 DEF IInv, Exclusive, Trail, AtWork, Attempts
  <2>. QED
    BY <1>2, <2>2 DEF Trail
<1>6. Paid(w)'
  BY <1>4 DEF Paid
<1>. QED
  BY <1>1, <1>2, <1>3, <1>5, <1>6, AtHand, MovesOn DEF Places, Strays

LEMMA CheckpointKeeps ==
  ASSUME IInv, NEW w \in Workers, IdentityCheckpoint(w) \/ FinalCheckpoint(w)
  PROVE  IInv'
<1>. DEFINE q == IF pc[w] = "identity" THEN "load" ELSE "return"
<1>1. /\ pc[w] \in {"identity", "final"} /\ AtWork(w) /\ Checkpoint(w, q)
      /\ UNCHANGED <<link, content, measured, spent, hand, faults, stalls, history>>
  BY DEF IdentityCheckpoint, FinalCheckpoint, AtWork
<1>2. q \in {"load", "return"}
  OBVIOUS
<1>3. CASE job' = Heartbeat(job) /\ GoTo(w, q)
  <2>1. pc'[w] = q /\ \A x \in Workers \ {w} : pc'[x] = pc[x]
    BY <1>3 DEF IInv, Types, GoTo
  <2>2. Paid(w)'
    BY <1>1, <2>1 DEF IInv, Paid, history
  <2>3. hand[w].run > 0 /\ content[hand[w].run].status # "none"
    BY <1>1 DEF IInv, Named
  <2>4. ~strayed /\ Owns(w) =>
          /\ link = hand[w].run
          /\ pc[w] = "final" => content[hand[w].run] = Published(w)
    BY <1>1 DEF IInv, Unstrayed, Kept
  <2>5. stalls = 0 /\ faults = 0 => Trail'
    BY <1>1, <2>1, TrailKept
  <2>. QED
    BY <1>1, <1>2, <1>3, <2>2, <2>3, <2>4, <2>5, AtHand, Beats, MovesOn
       DEF Places, Published, history
<1>4. CASE EndAttempt(w, Cancel(job))
  BY <1>1, <1>4, AtHand, Releases, Stops DEF EndAttempt
<1>5. CASE UNCHANGED job /\ GoTo(w, "idle")
  BY <1>1, <1>5, AtHand, Stops
<1>. QED
  BY <1>1, <1>3, <1>4, <1>5 DEF Checkpoint

\* What an attempt past the link has, before and after it writes its envelope.
LEMMA Linked ==
  ASSUME IInv, NEW w \in Workers,
         pc[w] \in {"load", "start", "work", "boundary", "publish", "record", "final"}
  PROVE  /\ AtWork(w) /\ hand[w].run \in Attempts /\ hand[w].run > 0
         /\ content[hand[w].run].status # "none"
         /\ ~strayed /\ Owns(w) => link = hand[w].run
<1>1. AtWork(w)
  BY DEF AtWork
<1>2. hand[w].run > 0 /\ content[hand[w].run].status # "none"
  BY DEF IInv, Named
<1>3. ~strayed /\ Owns(w) => link = hand[w].run
  BY <1>1 DEF IInv, Unstrayed, Kept
<1>. QED
  BY <1>1, <1>2, <1>3, AtHand DEF Attempts

LEMMA Writes ==
  ASSUME IInv, NEW w \in Workers, NEW e \in Envelope, e.status # "none",
         pc[w] \in {"load", "start", "work", "boundary", "publish", "record", "final"},
         WriteEnvelope(w, e), UNCHANGED link
  PROVE  /\ content' \in [Attempts -> Envelope] /\ content'[hand[w].run] = e
         /\ \A a \in Attempts : content[a].status # "none" <=> content'[a].status # "none"
         /\ link' \in 0 .. MaxAttempts
         /\ link' > 0 => content'[link'].status # "none"
<1>1. content' = [content EXCEPT ![hand[w].run] = e]
  BY DEF WriteEnvelope
<1>2. content' \in [Attempts -> Envelope] /\ content'[hand[w].run] = e
  BY <1>1, Linked, AtHand
<1>3. \A a \in Attempts : content[a].status # "none" <=> content'[a].status # "none"
  BY <1>1, Linked, AtHand
<1>. QED
  BY <1>2, <1>3, AtHand DEF Attempts

LEMMA LoadKeeps ==
  ASSUME IInv, NEW w \in Workers, LoadRecord(w)
  PROVE  IInv'
<1>. DEFINE e == [content[hand[w].run] EXCEPT !.status = "running"]
            h == [hand[w] EXCEPT !.envelope = e]
<1>1. /\ pc[w] = "load" /\ hand' = [hand EXCEPT ![w] = h] /\ GoTo(w, "start")
      /\ UNCHANGED <<job, link, content, measured, spent, faults, stalls, history>>
  BY DEF LoadRecord
<1>2. e \in Envelope /\ e.status = "running"
  BY <1>1, Linked, AtHand DEF Envelope
<1>. HIDE DEF e
<1>3. /\ h \in Hand /\ h.envelope.status = "running"
      /\ h.run = hand[w].run /\ h.attempt = hand[w].attempt
  BY <1>2, AtHand DEF Hand
<1>. HIDE DEF h
<1>4. pc'[w] = "start" /\ \A x \in Workers \ {w} : pc'[x] = pc[x] /\ hand'[x] = hand[x]
  BY <1>1 DEF IInv, Types, GoTo
<1>5. Paid(w)'
  BY <1>4 DEF Paid
<1>6. stalls = 0 /\ faults = 0 => Trail'
  BY <1>1, <1>4, Linked, TrailKept
<1>7. "start" \in Places \ {"idle", "dead", "calledOff", "create"}
  BY DEF Places
<1>8. RowOK(job') /\ job' = job
  BY <1>1, AtHand
<1>. QED
  BY <1>1, <1>3, <1>5, <1>6, <1>7, <1>8, Linked, AtHand, Moves DEF history

LEMMA StartKeeps ==
  ASSUME IInv, NEW w \in Workers, StartResearch(w)
  PROVE  IInv'
<1>1. /\ pc[w] = "start" /\ WriteEnvelope(w, hand[w].envelope) /\ GoTo(w, "work")
      /\ Strays(w) /\ UNCHANGED <<job, link, measured, spent, hand, faults, stalls>>
  BY DEF StartResearch
<1>2. hand[w].envelope \in Envelope /\ hand[w].envelope.status = "running"
  BY <1>1, AtHand DEF IInv, Copies, Hand
<1>3. pc'[w] = "work" /\ \A x \in Workers \ {w} : pc'[x] = pc[x]
  BY <1>1 DEF IInv, Types, GoTo
<1>4. Paid(w)'
  BY <1>3 DEF Paid
<1>5. stalls = 0 /\ faults = 0 => Trail'
  BY <1>1, <1>2, <1>3, Linked, Writes, TrailKept
<1>. QED
  BY <1>1, <1>2, <1>4, <1>5, Linked, Writes, AtHand, MovesOn DEF Places, Strays

LEMMA AdvanceKeeps ==
  ASSUME IInv, NEW w \in Workers, Advance(w)
  PROVE  IInv'
<1>. DEFINE h == [hand[w] EXCEPT !.stage = @ + 1]
<1>1. /\ pc[w] = "work" /\ hand[w].stage < Stages
      /\ hand' = [hand EXCEPT ![w] = h]
      /\ WriteEnvelope(w, hand[w].envelope) /\ GoTo(w, "boundary")
      /\ Strays(w) /\ UNCHANGED <<job, link, measured, spent, faults, stalls>>
  BY AtHand DEF Advance
<1>2. hand[w].envelope \in Envelope /\ hand[w].envelope.status = "running"
  BY <1>1, AtHand DEF IInv, Copies, Hand
<1>3. /\ h \in Hand /\ h.envelope = hand[w].envelope
      /\ h.run = hand[w].run /\ h.attempt = hand[w].attempt
  BY <1>1, AtHand DEF Hand
<1>. HIDE DEF h
<1>4. pc'[w] = "boundary" /\ \A x \in Workers \ {w} : pc'[x] = pc[x] /\ hand'[x] = hand[x]
  BY <1>1 DEF IInv, Types, GoTo
<1>5. Paid(w)'
  BY <1>4 DEF Paid
<1>6. stalls = 0 /\ faults = 0 => Trail'
  BY <1>1, <1>2, <1>4, Linked, Writes, TrailKept
<1>7. "boundary" \in Places \ {"idle", "dead", "calledOff", "create"}
  BY DEF Places
<1>8. RowOK(job') /\ job' = job
  BY <1>1, AtHand
<1>9. /\ content' \in [Attempts -> Envelope] /\ content'[h.run].status # "none"
      /\ \A a \in Attempts : content[a].status # "none" => content'[a].status # "none"
      /\ link' \in 0 .. MaxAttempts
      /\ link' > 0 => content'[link'].status # "none"
  BY <1>1, <1>2, <1>3, Writes
<1>10. AtWork(w) /\ h.run > 0 /\ (~strayed /\ Owns(w) => link' = h.run)
       /\ (stalls = 0 /\ faults' = 0 => Trail')
  BY <1>1, <1>3, <1>6, Linked
<1>11. /\ measured \subseteq measured' /\ measured' \subseteq Attempts
       /\ spent \subseteq spent' /\ spent' \subseteq measured'
       /\ faults' \in 0 .. MaxFaults /\ (faults' = 0 => faults = 0) /\ UNCHANGED stalls
       /\ lost' = lost /\ lost' \subseteq measured'
       /\ strayed' = (strayed \/ ~Owns(w)) /\ strayed' \in BOOLEAN
  BY <1>1, AtHand DEF Strays
<1>. QED
  BY <1>1, <1>2, <1>3, <1>5, <1>7, <1>8, <1>9, <1>10, <1>11, Moves

LEMMA ReportKeeps ==
  ASSUME IInv, NEW w \in Workers, ReportStage(w)
  PROVE  IInv'
<1>1. /\ pc[w] = "boundary" /\ GoTo(w, "work") /\ (job' = job \/ job' = Heartbeat(job))
      /\ faults' \in 0 .. MaxFaults /\ (faults' = 0 => faults = 0)
      /\ UNCHANGED <<link, content, measured, spent, hand, stalls, history>>
  BY AtHand DEF ReportStage, Fault
<1>2. hand[w].envelope.status = "running"
  BY <1>1 DEF IInv, Copies
<1>3. pc'[w] = "work" /\ \A x \in Workers \ {w} : pc'[x] = pc[x]
  BY <1>1 DEF IInv, Types, GoTo
<1>4. Paid(w)'
  BY <1>3 DEF Paid
<1>5. stalls = 0 /\ faults' = 0 => Trail'
  BY <1>1, <1>3, Linked, TrailKept
<1>. QED
  BY <1>1, <1>2, <1>4, <1>5, Linked, AtHand, MovesOn DEF Places, history

LEMMA ReturnsKeeps ==
  ASSUME IInv, NEW w \in Workers, ResearchReturns(w)
  PROVE  IInv'
<1>1. /\ pc[w] = "work" /\ measured' = measured \cup {hand[w].attempt}
      /\ UNCHANGED <<link, content, spent, hand, faults, stalls, history>>
  BY DEF ResearchReturns
<1>2. measured' \subseteq Attempts /\ measured \subseteq measured' /\ spent' \subseteq measured'
      /\ lost' \subseteq measured'
  BY <1>1, Linked, AtHand DEF history
<1>3. CASE GoTo(w, "publish") /\ UNCHANGED job
  <2>1. pc'[w] = "publish" /\ \A x \in Workers \ {w} : pc'[x] = pc[x]
    BY <1>3 DEF IInv, Types, GoTo
  <2>2. Paid(w)'
    BY <1>1, <2>1 DEF Paid
  <2>3. stalls = 0 /\ faults = 0 => Trail'
    BY <1>1, <2>1, Linked, TrailKept
  <2>. QED
    BY <1>1, <1>2, <1>3, <2>2, <2>3, Linked, AtHand, MovesOn DEF Places, history
<1>4. CASE EndAttempt(w, Fail(job, FALSE))
  BY <1>1, <1>2, <1>4, AtHand, Linked, Releases, Stops DEF EndAttempt
<1>. QED
  BY <1>3, <1>4 DEF ResearchReturns

LEMMA PublishKeeps ==
  ASSUME IInv, NEW w \in Workers, Publish(w)
  PROVE  IInv'
<1>1. /\ pc[w] = "publish" /\ WriteEnvelope(w, Published(w)) /\ GoTo(w, "record")
      /\ Strays(w) /\ UNCHANGED <<job, link, measured, spent, hand, faults, stalls>>
  BY DEF Publish
<1>2. /\ Published(w) \in Envelope /\ Published(w).status = "completed"
      /\ Published(w) = [status |-> "completed", report |-> hand[w].attempt]
  BY <1>1, Linked, AtHand DEF Published, Envelope, Attempts
<1>3. pc'[w] = "record" /\ \A x \in Workers \ {w} : pc'[x] = pc[x]
  BY <1>1 DEF IInv, Types, GoTo
<1>4. Paid(w)'
  BY <1>1, <1>3 DEF IInv, Paid
<1>5. stalls = 0 /\ faults = 0 => Trail'
  BY <1>1, <1>2, <1>3, Linked, Writes, TrailKept
<1>. QED
  BY <1>1, <1>2, <1>4, <1>5, Linked, Writes, AtHand, MovesOn DEF Places, Strays

LEMMA RecordKeeps ==
  ASSUME IInv, NEW w \in Workers, RecordConsumption(w)
  PROVE  IInv'
<1>1. /\ pc[w] = "record" /\ GoTo(w, "final")
      /\ \/ spent' = spent \cup {hand[w].attempt} /\ faults' = faults /\ lost' = lost
         \/ spent' = spent /\ faults' \in 0 .. MaxFaults /\ faults' # 0
            /\ lost' = lost \cup {hand[w].attempt}
      /\ UNCHANGED <<job, link, content, measured, hand, stalls, strayed>>
  BY AtHand DEF RecordConsumption, Recorded, Fault
<1>2. hand[w].attempt \in measured
  BY <1>1 DEF IInv, Paid
<1>3. pc'[w] = "final" /\ \A x \in Workers \ {w} : pc'[x] = pc[x]
  BY <1>1 DEF IInv, Types, GoTo
<1>4. Paid(w)'
  BY <1>1, <1>2, <1>3 DEF Paid
<1>5. stalls = 0 /\ faults = 0 => Trail'
  BY <1>1, <1>3, Linked, TrailKept
<1>6. ~strayed /\ Owns(w) => content[hand[w].run] = [status |-> "completed", report |-> hand[w].attempt]
  BY <1>1, Linked DEF IInv, Unstrayed, Kept, Published
<1>7. spent' \subseteq measured' /\ spent \subseteq spent' /\ faults' \in 0 .. MaxFaults
      /\ (faults' = 0 => faults = 0) /\ lost \subseteq lost' /\ lost' \subseteq measured'
  BY <1>1, <1>2, AtHand
<1>. QED
  BY <1>1, <1>4, <1>5, <1>6, <1>7, Linked, AtHand, MovesOn DEF Places

---------------------------------------------------------------------------
(* The invariant is inductive *)

LEMMA NextIInv == IInv /\ [Next]_vars => IInv'
<1>. SUFFICES ASSUME IInv, [Next]_vars PROVE IInv'
  OBVIOUS
<1>1. CASE UNCHANGED vars
  BY <1>1 DEF vars, IInv, Types, Named, Copies, Current, AtWork, Owns, Paid, PaidResult,
     Unstrayed, KeptResult, Kept, Exclusive, Sole, Trail, Published, history
<1>2. CASE BackoffElapses \/ LeaseLapses \/ RequestCancel
  BY <1>2, RowActions
<1>3. ASSUME NEW w \in Workers,
             \/ ClaimJob(w) \/ Retire(w) \/ Beat(w)
             \/ CancelAtClaim(w) \/ ResearchFails(w) \/ StoreFails(w) \/ Crash(w)
      PROVE  IInv'
  BY <1>3, RowActions, ClaimKeeps, EndActions
<1>4. ASSUME NEW w \in Workers, Handle(w) PROVE IInv'
  BY <1>4, EndActions, CreateKeeps, LinkKeeps, CheckpointKeeps, CompleteKeeps DEF Handle
<1>5. ASSUME NEW w \in Workers, Process(w) PROVE IInv'
  BY <1>5, EndActions, LoadKeeps, StartKeeps, AdvanceKeeps, ReportKeeps, ReturnsKeeps,
     PublishKeeps, RecordKeeps DEF Process
<1>. QED
  BY <1>1, <1>2, <1>3, <1>4, <1>5 DEF Next

LEMMA AlwaysIInv == Spec => []IInv
  BY InitIInv, NextIInv, PTL DEF Spec

---------------------------------------------------------------------------
(* Theorems *)

\* Every variable keeps its type; the link and every worker that writes name a
\* content record that exists (the create, link and write of
\* run_company_research_job and process_company_research_by_id).
THEOREM TypeCorrect == Spec => []TypeOK
<1>1. IInv => TypeOK
  <2>. SUFFICES ASSUME IInv PROVE TypeOK
    OBVIOUS
  <2>1. link > 0 => content[link] # NoRecord
    BY DEF IInv, Named, NoRecord
  <2>2. \A w \in Workers :
          pc[w] \notin {"idle", "dead", "calledOff", "create"} =>
            hand[w].run > 0 /\ content[hand[w].run] # NoRecord
    BY DEF IInv, Named, NoRecord
  <2>. QED
    BY <2>1, <2>2 DEF IInv, Types, RowOK, TypeOK, Places
<1>. QED
  BY <1>1, AlwaysIInv, PTL

\* However often a job is retried because its research failed, the attempts
\* write one content record (the `agent_run_id is None` branch of
\* run_company_research_job).
THEOREM RetriesShareOne == Spec => []RetriesShareOneRecord
<1>1. IInv => RetriesShareOneRecord
  <2>. SUFFICES ASSUME IInv, stalls = 0, faults = 0,
                       NEW a \in Records, NEW b \in Records
                PROVE  a = b
    BY DEF RetriesShareOneRecord, OneRecord
  <2>1. Trail /\ \A w \in Workers : Sole(w) /\ Kept(w)
    BY DEF IInv, Exclusive, Unstrayed
  <2>2. /\ a \in Attempts /\ content[a].status # "none"
        /\ b \in Attempts /\ content[b].status # "none"
    BY DEF Records
  <2>3. ASSUME NEW w \in Workers, pc[w] = "link" PROVE link = 0 /\ Owns(w)
    BY <2>1, <2>3 DEF Sole, Kept, AtWork
  <2>. QED
    BY <2>1, <2>2, <2>3 DEF Trail, Owns, Attempts
<1>. QED
  BY <1>1, AlwaysIInv, PTL

\* Without a lapse under a live worker, whatever crashes, the record the row of
\* a completed job names is completed, with the report the row names (publish,
\* then record, then complete).
THEOREM ContentAgrees == Spec => []ContentAgreesWithTheJob
<1>1. IInv => ContentAgreesWithTheJob
  BY DEF IInv, Exclusive, Unstrayed, KeptResult, ContentAgreesWithTheJob
<1>. QED
  BY <1>1, AlwaysIInv, PTL

\* Whatever lapses or crashes, the report id a reader of a completed job is
\* given is that of the report its last attempt produced, and unless a worker
\* ever wrote without owning the row the report shown beside it is the same one
\* (compose_envelope, the owner guard of complete).
THEOREM ReaderShown == Spec => []ReaderIsShownTheLastReport
<1>1. IInv => ReaderIsShownTheLastReport
  <2>. SUFFICES ASSUME IInv, job.status \in HasResult
                PROVE  /\ Shown.analysis_report_id = job.attempt
                       /\ job.attempt \in measured
                       /\ ~strayed => Shown.report = Shown.analysis_report_id
    BY DEF ReaderIsShownTheLastReport
  <2>1. job.result = job.attempt /\ job.attempt \in measured
    BY DEF IInv, Types, RowOK, PaidResult
  <2>2. Shown.analysis_report_id = job.result /\ Shown.report = Inner.report
    BY DEF Shown, ReportId
  <2>3. ~strayed => Inner.report = job.result
    BY DEF IInv, Unstrayed, KeptResult, Inner
  <2>. QED
    BY <2>1, <2>2, <2>3
<1>. QED
  BY <1>1, AlwaysIInv, PTL

\* What the attempt behind a completed job consumed is on record unless that
\* recording failed, whatever lapses, overlaps or crashes (_record_consumption
\* before the return of the service, complete after it).
THEOREM WorkAccounted == Spec => []CompletedWorkIsAccounted
<1>1. IInv => CompletedWorkIsAccounted
  BY DEF IInv, PaidResult, CompletedWorkIsAccounted
<1>. QED
  BY <1>1, AlwaysIInv, PTL

\* A row keeps the flag, and gets no result but from the completion.
LEMMA FlagStays ==
  ASSUME IInv, job.cancelRequested, job.status \notin HasResult, NEW w \in Workers,
         \/ job' = job \/ job' = Heartbeat(job) \/ job' = Cancel(job)
         \/ job' = Abandon(job) \/ job' = Claim(job, w)
         \/ job' = [job EXCEPT !.due = TRUE] \/ job' = [job EXCEPT !.lease = "lapsed"]
         \/ \E b \in BOOLEAN : job' = Fail(job, b)
  PROVE  job'.cancelRequested /\ job'.status \notin HasResult
<1>1. job \in JobRow
  BY DEF IInv, Types, RowOK
<1>2. CASE \/ job' = job \/ job' = Heartbeat(job) \/ job' = [job EXCEPT !.due = TRUE]
           \/ job' = [job EXCEPT !.lease = "lapsed"]
  BY <1>1, <1>2 DEF Heartbeat, JobRow
<1>3. CASE job' = Cancel(job) \/ job' = Abandon(job) \/ job' = Claim(job, w)
  <2>1. CASE job' = Cancel(job)
    BY <1>1, <2>1 DEF Cancel, Released, JobRow, HasResult
  <2>2. CASE job' = Abandon(job)
    BY <1>1, <2>2 DEF Abandon, Released, JobRow, HasResult
  <2>3. CASE job' = Claim(job, w)
    BY <1>1, <2>3 DEF Claim, JobRow, HasResult
  <2>. QED
    BY <1>3, <2>1, <2>2, <2>3
<1>4. ASSUME NEW b \in BOOLEAN, job' = Fail(job, b)
      PROVE  job'.cancelRequested /\ job'.status \notin HasResult
  BY <1>1, <1>4 DEF Fail, Released, JobRow, HasResult
<1>. QED
  BY <1>1, <1>2, <1>3, <1>4

\* A job asked to stop before its owner passed the last checkpoint never
\* completes, whatever the stages swallow and whoever retries it
\* (ctx.checkpoint, run_once, the final checkpoint of the handler).
THEOREM CalledOffStays == Spec => CalledOffStaysCalledOff
<1>1. IInv /\ [Next]_vars => (CalledOff => CalledOff')
  <2>. SUFFICES ASSUME IInv, [Next]_vars, CalledOff PROVE CalledOff'
    OBVIOUS
  <2>1. job.cancelRequested /\ job.status \notin HasResult /\ job \in JobRow
        /\ pc \in [Workers -> Places] /\ \A w \in Workers : Owns(w) => pc[w] # "return"
    BY DEF CalledOff, IInv, Types, RowOK
  <2>2. CASE UNCHANGED vars
    BY <2>2 DEF vars, CalledOff, Owns
  <2>3. CASE BackoffElapses \/ LeaseLapses \/ RequestCancel
    BY <2>1, <2>3 DEF BackoffElapses, LeaseLapses, RequestCancel, CalledOff, Owns, JobRow
  <2>4. ASSUME NEW w \in Workers, ClaimJob(w) \/ Retire(w) \/ Beat(w) PROVE CalledOff'
    <3>1. job'.cancelRequested /\ job'.status \notin HasResult
      BY <2>1, <2>4, FlagStays DEF ClaimJob, Retire, Beat
    <3>2. CASE ClaimJob(w)
      <4>1. job'.owner = w /\ pc'[w] = "calledOff"
        BY <2>1, <3>2 DEF ClaimJob, Claim, GoTo, Entry, JobRow
      <4>. QED
        BY <3>1, <4>1 DEF CalledOff, Owns
    <3>3. CASE Retire(w) \/ Beat(w)
      <4>1. job'.owner = job.owner \/ job'.owner = NoOne
        BY <2>1, <3>3 DEF Retire, Beat, Abandon, Released, Heartbeat, JobRow
      <4>. QED
        BY <2>1, <3>1, <3>3, <4>1 DEF CalledOff, Owns, Retire, Beat
    <3>. QED
      BY <2>4, <3>2, <3>3
  <2>5. ASSUME NEW w \in Workers, Handle(w) \/ Process(w) \/ StoreFails(w) \/ Crash(w)
        PROVE  CalledOff'
    <3>1. \/ job' = job \/ job' = Heartbeat(job) \/ job' = Cancel(job)
          \/ \E b \in BOOLEAN : job' = Fail(job, b)
      BY <2>1, <2>5 DEF Handle, Process, StoreFails, Crash, EndAttempt, Checkpoint,
         CancelAtClaim, CompanyNotFound, CreateRecord, LinkRecord, IdentityCheckpoint,
         FinalCheckpoint, CompleteJob, LoadRecord, StartResearch, Advance, ReportStage, ResearchFails,
         ResearchReturns, Publish, RecordConsumption
    <3>2. job'.cancelRequested /\ job'.status \notin HasResult
      BY <2>1, <3>1, FlagStays
    <3>3. job'.owner = job.owner \/ job'.owner = NoOne
      BY <2>1, <3>1 DEF Heartbeat, Cancel, Fail, Released, JobRow
    <3>4. \A x \in Workers : pc'[x] # pc[x] => pc'[x] # "return"
      BY <2>1, <2>5 DEF Handle, Process, StoreFails, Crash, EndAttempt, Checkpoint, GoTo,
         CancelAtClaim, CompanyNotFound, CreateRecord, LinkRecord, IdentityCheckpoint,
         FinalCheckpoint, CompleteJob, LoadRecord, StartResearch, Advance, ReportStage, ResearchFails,
         ResearchReturns, Publish, RecordConsumption
    <3>. QED
      BY <2>1, <3>2, <3>3, <3>4 DEF CalledOff, Owns
  <2>. QED
    BY <2>2, <2>3, <2>4, <2>5 DEF Next
<1>. QED
  BY <1>1, AlwaysIInv, PTL DEF Spec, CalledOffStaysCalledOff

=============================================================================
