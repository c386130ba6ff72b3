--------------------------- MODULE JobQueueProofs ---------------------------
(***************************************************************************)
(* Proofs about JobQueue.  The inductive invariant has a part about each   *)
(* row of the table, one about each worker and its view of the table, and  *)
(* one about announcements.  A step of the queue changes at most one row,  *)
(* so the lemmas below say what a change of one row does to each part.     *)
(***************************************************************************)
EXTENDS JobQueue, TLAPS

\* A row is owned and leased exactly while it runs, has attempts left while
\* it waits, and its end is accounted for.
RowOK(r) ==
  /\ r \in Row
  /\ r.owner # NoOne <=> r.status = "running"
  /\ r.lease # "none" <=> r.status = "running"
  /\ r.status = "pending" => r.attempt < MaxAttempts
  /\ r.status = "running" => r.attempt > 0
  /\ r.status \in HasResult => r.attempt > 0 /\ r.result = r.attempt
  /\ r.status = "cancelled" => r.cancelRequested

InHand == {"claimed", "handler", "ending", "notify"}

\* A worker that still owns the row in its hands holds its last attempt, and
\* whatever it believes about a cancel request was really requested.
WorkerOK(w) ==
  /\ pc[w] \in InHand => cur[w] \in Jobs
  /\ pc[w] \in InHand /\ Owns(w) => held[w] = job[cur[w]].attempt
  /\ pc[w] \in InHand /\ told[w] => job[cur[w]].cancelRequested
  /\ pc[w] = "ending" => ending[w] # "none"
  /\ pc[w] = "ending" /\ ending[w] = "cancelled" => told[w]
  /\ \A j \in DOMAIN seen[w] :
       seen[w][j].cancelRequested => job[j].cancelRequested

\* What has been announced, or is about to be, is over.
AnnouncementsOK ==
  /\ \A j \in notified : job[j].status \in Terminal
  /\ AnnouncedOnceAndTruly

IInv ==
  /\ TypeOK
  /\ \A j \in Jobs : RowOK(job[j])
  /\ \A w \in Workers : WorkerOK(w)
  /\ AnnouncementsOK

---------------------------------------------------------------------------
(* The rules keep a row well-formed. *)

\* A change of one row by someone who does not take it over: the attempt
\* stays, the owner stays or leaves, a request stays, an end stays.
Tame(r, s) ==
  /\ s.attempt = r.attempt
  /\ s.owner = r.owner \/ s.owner = NoOne
  /\ r.cancelRequested => s.cancelRequested
  /\ r.status \in Terminal => s.status = r.status

\* A row that runs may be heartbeaten, lapse and be flagged.
LEMMA RunningRowChanges ==
  ASSUME NEW r, RowOK(r), r.status = "running"
  PROVE  /\ RowOK(Heartbeat(r)) /\ Tame(r, Heartbeat(r))
         /\ RowOK([r EXCEPT !.lease = "lapsed"])
         /\ Tame(r, [r EXCEPT !.lease = "lapsed"])
         /\ RowOK([r EXCEPT !.cancelRequested = TRUE])
         /\ Tame(r, [r EXCEPT !.cancelRequested = TRUE])
  BY MaxAttemptsAssumption
     DEF RowOK, Row, Tame, Heartbeat, StoredStatuses, Terminal, HasResult

\* A running row may be released to every status its attempt entitles it to.
LEMMA ReleasedRow ==
  ASSUME NEW r, RowOK(r), r.status = "running"
  PROVE  LET retry == [Released(r, "pending") EXCEPT !.due = FALSE]
             OK(s) == RowOK(s) /\ Tame(r, s)
         IN  /\ OK(Released(r, "dead_letter")) /\ OK(Released(r, "failed"))
             /\ r.attempt < MaxAttempts => OK(retry)
             /\ r.cancelRequested => OK(Released(r, "cancelled"))
             /\ \A s \in HasResult :
                  OK([Released(r, s) EXCEPT !.result = r.attempt])
  BY MaxAttemptsAssumption
     DEF RowOK, Row, Tame, Released, StoredStatuses, Terminal, HasResult

\* A row that runs may end in every way the contract knows.
LEMMA RunningRowEnds ==
  ASSUME NEW r, RowOK(r), r.status = "running"
  PROVE  /\ RowOK(Abandon(r)) /\ Tame(r, Abandon(r))
         /\ \A t \in BOOLEAN : RowOK(Fail(r, t)) /\ Tame(r, Fail(r, t))
         /\ r.cancelRequested => RowOK(Cancel(r)) /\ Tame(r, Cancel(r))
         /\ \A t \in BOOLEAN :
              LET s == [Complete(r, t) EXCEPT !.result = r.attempt]
              IN  RowOK(s) /\ Tame(r, s)
<1>1. RowOK(Abandon(r)) /\ Tame(r, Abandon(r))
  BY ReleasedRow DEF Abandon
<1>2. ASSUME NEW t \in BOOLEAN PROVE RowOK(Fail(r, t)) /\ Tame(r, Fail(r, t))
  <2>1. r.attempt \in 0 .. MaxAttempts
    BY DEF RowOK, Row
  <2>2. WillRetry(r, t) => r.attempt < MaxAttempts
    BY <2>1, MaxAttemptsAssumption DEF WillRetry, AttemptsExhausted
  <2>3. \/ Fail(r, t) = Released(r, "dead_letter")
        \/ Fail(r, t) = Released(r, "failed")
        \/ /\ WillRetry(r, t)
           /\ Fail(r, t) = [Released(r, "pending") EXCEPT !.due = FALSE]
    BY DEF Fail
  <2>. QED
    BY <2>2, <2>3, ReleasedRow
<1>3. r.cancelRequested => RowOK(Cancel(r)) /\ Tame(r, Cancel(r))
  BY ReleasedRow DEF Cancel
<1>4. ASSUME NEW t \in BOOLEAN
      PROVE  LET s == [Complete(r, t) EXCEPT !.result = r.attempt]
             IN  RowOK(s) /\ Tame(r, s)
  <2>1. PICK s \in HasResult : Complete(r, t) = Released(r, s)
    BY DEF Complete, HasResult
  <2>. QED
    BY <2>1, ReleasedRow
<1>. QED
  BY <1>1, <1>2, <1>3, <1>4

\* A waiting row may become due or be called off, and any row may be due.
LEMMA WaitingRowChanges ==
  ASSUME NEW r, RowOK(r)
  PROVE  LET called == [Cancel(r) EXCEPT !.cancelRequested = TRUE]
             due == [r EXCEPT !.due = TRUE]
         IN  /\ RowOK(due) /\ Tame(r, due)
             /\ r.status = "pending" => RowOK(called) /\ Tame(r, called)
  BY MaxAttemptsAssumption
     DEF RowOK, Row, Tame, Cancel, Released, StoredStatuses, Terminal, HasResult

\* Of a claimable row, a claim makes a running one with an attempt that counts.
LEMMA RowClaimed ==
  ASSUME NEW r, RowOK(r), NEW v \in Row, NEW w \in Workers,
         IsClaimable(v), r.status = v.status, r.attempt = v.attempt
  PROVE  LET s == ClaimedRow(r, Claim(v, w)) IN
         /\ RowOK(s)
         /\ s.attempt = r.attempt + 1 /\ s.owner = w
         /\ s.cancelRequested = r.cancelRequested
         /\ r.status \notin Terminal
<1>. DEFINE s == ClaimedRow(r, Claim(v, w))
<1>1. /\ Claim(v, w).status = "running" /\ Claim(v, w).attempt = v.attempt + 1
      /\ Claim(v, w).owner = w /\ Claim(v, w).lease = "live"
  BY DEF Claim, Row
<1>2. v.status \notin Terminal /\ v.attempt < MaxAttempts
  BY MaxAttemptsAssumption
     DEF RowOK, Row, IsClaimable, AttemptsExhausted, StoredStatuses, Terminal
<1>3. r.attempt + 1 \in 1 .. MaxAttempts /\ r.attempt + 1 \in 0 .. MaxAttempts
  BY <1>2, MaxAttemptsAssumption DEF RowOK, Row
<1>4. /\ s \in Row /\ s.status = "running" /\ s.attempt = r.attempt + 1
      /\ s.owner = w /\ s.lease = "live"
      /\ s.cancelRequested = r.cancelRequested
  BY <1>1, <1>3 DEF ClaimedRow, RowOK, Row, StoredStatuses
<1>. HIDE DEF s
<1>5. RowOK(s)
  BY <1>3, <1>4, QueueAssumption DEF RowOK, Terminal, HasResult
<1>. QED
  BY <1>1, <1>2, <1>4, <1>5 DEF s

---------------------------------------------------------------------------
(* What a change of one row does to the rest. *)

\* A step that leaves every row well-formed and changes it tamely.
Keeps ==
  /\ job' \in [Jobs -> Row]
  /\ \A j \in Jobs : RowOK(job'[j]) /\ Tame(job[j], job'[j])

LEMMA KeepsUnchanged ==
  ASSUME TypeOK, \A j \in Jobs : RowOK(job[j]), UNCHANGED job
  PROVE  Keeps
  BY DEF TypeOK, Keeps, Tame

LEMMA KeepsUpdate ==
  ASSUME TypeOK, \A j \in Jobs : RowOK(job[j]),
         NEW i \in Jobs, NEW s, Update(i, s), RowOK(s), Tame(job[i], s)
  PROVE  Keeps
<1>1. s \in Row
  BY DEF RowOK
<1>2. \A j \in Jobs : job'[j] = IF j = i THEN s ELSE job[j]
  BY DEF TypeOK, Update
<1>3. job' \in [Jobs -> Row]
  BY <1>1 DEF TypeOK, Update
<1>4. \A j \in Jobs : Tame(job[j], job[j])
  BY DEF Tame
<1>. QED
  BY <1>2, <1>3, <1>4 DEF Keeps

Untouched(w) ==
  /\ pc'[w] = pc[w] /\ cur'[w] = cur[w] /\ held'[w] = held[w]
  /\ told'[w] = told[w] /\ ending'[w] = ending[w] /\ seen'[w] = seen[w]

\* Nobody's hold on a job is disturbed by a tame change, nor is the hold of
\* a worker that empties its hands.
LEMMA WorkerKept ==
  ASSUME TypeOK, Keeps, NEW w \in Workers, WorkerOK(w),
         \/ Untouched(w)
         \/ /\ pc'[w] \notin InHand
            /\ \A j \in DOMAIN seen'[w] :
                 j \in DOMAIN seen[w] /\ seen'[w][j] = seen[w][j]
  PROVE  WorkerOK(w)'
<1>1. \A j \in Jobs : job[j].cancelRequested => job'[j].cancelRequested
  BY DEF Keeps, Tame
<1>2. \A j \in DOMAIN seen'[w] :
        seen'[w][j].cancelRequested => job'[j].cancelRequested
  BY <1>1 DEF WorkerOK, Untouched, TypeOK
<1>3. CASE pc'[w] \notin InHand
  BY <1>2, <1>3 DEF WorkerOK, InHand
<1>4. CASE Untouched(w)
  <2>1. pc[w] \in InHand => cur[w] \in Jobs
    BY DEF WorkerOK
  <2>2. ASSUME pc[w] \in InHand, job'[cur[w]].owner = w
        PROVE  job'[cur[w]].attempt = job[cur[w]].attempt /\ Owns(w)
    BY <2>1, <2>2, QueueAssumption DEF Keeps, Tame, Owns
  <2>. QED
    BY <1>1, <1>2, <1>4, <2>1, <2>2 DEF WorkerOK, Untouched, Owns
<1>. QED
  BY <1>3, <1>4

\* Announcements stand when no new one starts and ended rows stay ended.
LEMMA AnnouncementsKept ==
  ASSUME TypeOK, Keeps, AnnouncementsOK,
         \A w \in Workers : WorkerOK(w),
         notified' = notified,
         \A w \in Workers : pc'[w] = "notify" =>
           pc[w] = "notify" /\ cur'[w] = cur[w] /\ ending'[w] = ending[w]
  PROVE  AnnouncementsOK'
<1>1. \A j \in Jobs :
        job[j].status \in Terminal => job'[j].status = job[j].status
  BY DEF Keeps, Tame
<1>2. \A w \in Workers : pc[w] = "notify" =>
        cur[w] \in Jobs /\ job[cur[w]].status \in Terminal
  BY DEF WorkerOK, InHand, AnnouncementsOK, AnnouncedOnceAndTruly, Terminal
<1>. QED
  BY <1>1, <1>2 DEF AnnouncementsOK, AnnouncedOnceAndTruly, TypeOK

\* A step that touches no worker.
LEMMA TableStep ==
  ASSUME IInv, Keeps, UNCHANGED <<workerVars, notified, faults>>,
         request' \in [Jobs -> {"none", "withdrawing", "flagging", "returned"}]
  PROVE  IInv'
<1> USE DEF IInv
<1>1. TypeOK'
  BY DEF TypeOK, Keeps, workerVars
<1>2. \A w \in Workers : Untouched(w)
  BY DEF Untouched, workerVars
<1>3. \A w \in Workers : WorkerOK(w)'
  BY <1>2, WorkerKept
<1>4. AnnouncementsOK'
  BY AnnouncementsKept DEF workerVars
<1>. QED
  BY <1>1, <1>3, <1>4 DEF Keeps

\* A step of worker w that leaves its hands empty.
LEMMA EmptyHandedStep ==
  ASSUME IInv, Keeps, TypeOK', NEW w \in Workers, notified' = notified,
         \A x \in Workers \ {w} : Untouched(x),
         pc'[w] \notin InHand,
         \A j \in DOMAIN seen'[w] :
           j \in DOMAIN seen[w] /\ seen'[w][j] = seen[w][j]
  PROVE  IInv'
<1> USE DEF IInv
<1>1. \A x \in Workers : WorkerOK(x)'
  BY WorkerKept
<1>2. AnnouncementsOK'
  BY AnnouncementsKept DEF Untouched, InHand
<1>. QED
  BY <1>1, <1>2 DEF Keeps

\* Going idle is such a step whatever happened to the table.
LEMMA IdleStep ==
  ASSUME IInv, Keeps, NEW w \in Workers, ToIdle(w),
         UNCHANGED <<request, notified, faults>>
  PROVE  IInv'
<1> USE DEF IInv, ToIdle
<1>1. TypeOK'
  BY DEF TypeOK, Keeps
<1>2. \A x \in Workers \ {w} : Untouched(x)
  BY DEF TypeOK, Untouched
<1>3. pc'[w] \notin InHand /\ seen'[w] = seen[w]
  BY DEF TypeOK, InHand
<1>. QED
  BY <1>1, <1>2, <1>3, EmptyHandedStep

---------------------------------------------------------------------------
(* The steps of Next. *)

LEMMA InitIInv == Init => IInv
  BY MaxAttemptsAssumption, QueueAssumption
     DEF Init, IInv, TypeOK, RowOK, Row, FreshRow, NoScan, WorkerOK, InHand,
         AnnouncementsOK, AnnouncedOnceAndTruly, StoredStatuses, Terminal,
         HasResult

LEMMA TimeAndRequestSteps ==
  ASSUME IInv, NEW j \in Jobs,
         LeaseLapses(j) \/ BackoffElapses(j) \/ RequestCancel(j)
  PROVE  IInv'
<1> USE DEF IInv
<1>0. RowOK(job[j]) /\ TypeOK
  OBVIOUS
<1>1. CASE LeaseLapses(j)
  <2>1. job[j].status = "running"
    BY <1>1 DEF LeaseLapses, RowOK
  <2>2. Keeps
    BY <1>1, <2>1, RunningRowChanges, KeepsUpdate DEF LeaseLapses
  <2>. QED
    BY <1>1, <2>2, TableStep DEF LeaseLapses, TypeOK
<1>2. CASE BackoffElapses(j)
  <2>1. Keeps
    BY <1>2, WaitingRowChanges, KeepsUpdate DEF BackoffElapses
  <2>. QED
    BY <1>2, <2>1, TableStep DEF BackoffElapses, TypeOK
<1>3. CASE RequestCancelRead(j)
  <2>1. Keeps
    BY <1>3, KeepsUnchanged DEF RequestCancelRead
  <2>2. request' \in [Jobs -> {"none", "withdrawing", "flagging", "returned"}]
    BY <1>3 DEF RequestCancelRead, TypeOK
  <2>. QED
    BY <1>3, <2>1, <2>2, TableStep DEF RequestCancelRead
<1>4. CASE RequestCancelWithdraw(j)
  <2>1. Keeps
    BY <1>4, WaitingRowChanges, KeepsUpdate, KeepsUnchanged
       DEF RequestCancelWithdraw
  <2>2. request' \in [Jobs -> {"none", "withdrawing", "flagging", "returned"}]
    BY <1>4 DEF RequestCancelWithdraw, TypeOK
  <2>. QED
    BY <1>4, <2>1, <2>2, TableStep DEF RequestCancelWithdraw
<1>5. CASE RequestCancelFlag(j)
  <2>1. Keeps
    BY <1>5, RunningRowChanges, KeepsUpdate, KeepsUnchanged
       DEF RequestCancelFlag
  <2>2. request' \in [Jobs -> {"none", "withdrawing", "flagging", "returned"}]
    BY <1>5 DEF RequestCancelFlag, TypeOK
  <2>. QED
    BY <1>5, <2>1, <2>2, TableStep DEF RequestCancelFlag
<1>. QED
  BY <1>1, <1>2, <1>3, <1>4, <1>5 DEF RequestCancel

LEMMA LoopSteps ==
  ASSUME IInv, NEW w \in Workers, Loop(w)
  PROVE  IInv'
<1> USE DEF IInv
<1>1. CASE Start(w)
  <2>1. Keeps
    BY <1>1, KeepsUnchanged DEF Start
  <2>2. TypeOK' /\ \A x \in Workers \ {w} : Untouched(x)
    BY <1>1 DEF Start, TypeOK, Untouched
  <2>3. pc'[w] \notin InHand /\ seen'[w] = seen[w]
    BY <1>1 DEF Start, TypeOK, InHand
  <2>. QED
    BY <1>1, <2>1, <2>2, <2>3, EmptyHandedStep DEF Start
<1>2. CASE Scan(w)
  <2>1. PICK S \in SUBSET ClaimQuery :
          seen' = [seen EXCEPT ![w] = [j \in S |-> job[j]]]
    BY <1>2 DEF Scan
  <2>2. S \subseteq Jobs
    BY DEF ClaimQuery
  <2>3. Keeps
    BY <1>2, KeepsUnchanged DEF Scan
  <2>4. /\ DOMAIN seen' = Workers
        /\ seen'[w] = [j \in S |-> job[j]]
        /\ \A x \in Workers \ {w} : seen'[x] = seen[x]
    BY <2>1 DEF TypeOK
  <2>5. TypeOK'
    BY <1>2, <2>2, <2>4 DEF Scan, TypeOK
  <2>6. \A x \in Workers \ {w} : Untouched(x)
    BY <1>2, <2>4 DEF Scan, TypeOK, Untouched
  <2>7. \A x \in Workers \ {w} : WorkerOK(x)'
    BY <2>3, <2>6, WorkerKept
  <2>8. WorkerOK(w)'
    BY <1>2, <2>4 DEF Scan, TypeOK, WorkerOK, InHand
  <2>9. AnnouncementsOK'
    BY <1>2, <2>3, AnnouncementsKept DEF Scan, TypeOK
  <2>. QED
    BY <2>3, <2>5, <2>7, <2>8, <2>9 DEF Keeps
<1>3. CASE TryCandidate(w)
  <2>0. PICK j \in DOMAIN seen[w] :
          RetireAbandoned(w, j) \/ ClaimWins(w, j) \/ ClaimLoses(w, j)
    BY <1>3 DEF TryCandidate
  <2>1. j \in Jobs /\ seen[w][j] \in Row /\ RowOK(job[j])
    BY DEF TypeOK
  <2>2. UNCHANGED <<request, notified, faults>> /\ pc[w] = "scan"
    BY <1>3 DEF TryCandidate
  <2>3. ASSUME Keeps, seen' = [seen EXCEPT ![w] = Without(@, j)],
               UNCHANGED <<pc, cur, held, told, lost, ending>>
        PROVE  IInv'
    <3>1. /\ DOMAIN seen' = Workers
          /\ seen'[w] = Without(seen[w], j)
          /\ \A x \in Workers \ {w} : seen'[x] = seen[x]
      BY <2>3 DEF TypeOK
    <3>2. \A i \in DOMAIN seen'[w] :
            i \in DOMAIN seen[w] /\ seen'[w][i] = seen[w][i]
      BY <3>1 DEF Without
    <3>3. TypeOK'
      BY <2>2, <2>3, <3>1, <3>2 DEF TypeOK, Keeps
    <3>4. pc'[w] \notin InHand /\ \A x \in Workers \ {w} : Untouched(x)
      BY <2>2, <2>3, <3>1 DEF InHand, Untouched
    <3>. QED
      BY <2>2, <2>3, <3>2, <3>3, <3>4, EmptyHandedStep
  <2>4. CASE RetireAbandoned(w, j)
    <3>1. Keeps
      BY <2>1, <2>4, RunningRowEnds, KeepsUpdate, KeepsUnchanged
         DEF RetireAbandoned
    <3>. QED
      BY <2>3, <2>4, <3>1 DEF RetireAbandoned
  <2>5. CASE ClaimLoses(w, j)
    <3>1. Keeps
      BY <2>5, KeepsUnchanged DEF ClaimLoses
    <3>. QED
      BY <2>3, <2>5, <3>1 DEF ClaimLoses
  <2>6. CASE ClaimWins(w, j)
    <3>. DEFINE v == seen[w][j]
                s == ClaimedRow(job[j], Claim(v, w))
    <3>1. /\ IsClaimable(v) /\ Update(j, s)
          /\ job[j].status = v.status /\ job[j].attempt = v.attempt
      BY <2>6 DEF ClaimWins, ClaimGuard
    <3>2. /\ RowOK(s) /\ s.attempt = job[j].attempt + 1 /\ s.owner = w
          /\ s.cancelRequested = job[j].cancelRequested
          /\ job[j].status \notin Terminal
      <4>1. IsClaimable(v) /\ job[j].status = v.status
            /\ job[j].attempt = v.attempt /\ v \in Row /\ RowOK(job[j])
        BY <2>1, <3>1
      <4>. HIDE DEF v
      <4>. QED
        BY <4>1, RowClaimed
    <3>3. /\ job' \in [Jobs -> Row]
          /\ \A i \in Jobs : job'[i] = IF i = j THEN s ELSE job[i]
      <4>1. s \in Row
        BY <3>2 DEF RowOK
      <4>. QED
        BY <2>1, <3>1, <4>1 DEF Update, TypeOK
    <3>4. \A i \in Jobs : RowOK(job'[i])
      BY <3>2, <3>3
    <3>5. /\ pc'[w] = "claimed" /\ cur'[w] = j /\ held'[w] = v.attempt + 1
          /\ told'[w] = v.cancelRequested /\ seen'[w] = NoScan
          /\ \A x \in Workers \ {w} : Untouched(x)
      BY <2>1, <2>6 DEF ClaimWins, ToldAtClaim, Claim, TypeOK, Untouched, Row
    <3>6. v.attempt + 1 \in 0 .. MaxAttempts
      BY <3>1, <3>2, MaxAttemptsAssumption DEF RowOK, Row
    <3>7. TypeOK'
      <4>1. Claim(v, w).attempt = v.attempt + 1
            /\ Claim(v, w).cancelRequested = v.cancelRequested
        BY <2>1 DEF Claim, Row
      <4>2. v.cancelRequested \in BOOLEAN
        BY <2>1 DEF Row
      <4>. QED
        BY <2>1, <2>2, <2>6, <3>3, <3>6, <4>1, <4>2
           DEF ClaimWins, ToldAtClaim, TypeOK, NoScan
    <3>8. \A x \in Workers \ {w} : WorkerOK(x)'
      <4>1. SUFFICES ASSUME NEW x \in Workers \ {w} PROVE WorkerOK(x)'
        OBVIOUS
      <4>2. \A i \in Jobs :
              /\ job[i].cancelRequested => job'[i].cancelRequested
              /\ job'[i].owner = x =>
                   job[i].owner = x /\ job'[i].attempt = job[i].attempt
        BY <3>2, <3>3
      <4>3. Untouched(x) /\ WorkerOK(x)
        BY <3>5
      <4>4. pc[x] \in InHand => cur[x] \in Jobs
        BY <4>3 DEF WorkerOK
      <4>5. \A i \in DOMAIN seen[x] : i \in Jobs
        BY DEF TypeOK
      <4>. QED
        BY <4>2, <4>3, <4>4, <4>5 DEF WorkerOK, Untouched, Owns
    <3>9. WorkerOK(w)'
      <4>1. v.cancelRequested => job[j].cancelRequested
        BY DEF WorkerOK
      <4>2. /\ job'[j].attempt = v.attempt + 1
            /\ v.cancelRequested => job'[j].cancelRequested
        BY <2>1, <3>1, <3>2, <3>3, <4>1
      <4>3. DOMAIN seen'[w] = {}
        BY <3>5 DEF NoScan
      <4>. HIDE DEF v, s
      <4>. QED
        BY <2>1, <3>5, <4>2, <4>3 DEF WorkerOK, Owns, InHand
    <3>10. AnnouncementsOK'
      <4>1. \A i \in Jobs : job[i].status \in Terminal => job'[i] = job[i]
        BY <3>2, <3>3
      <4>2. \A x \in Workers : pc[x] = "notify" =>
              cur[x] \in Jobs /\ job[cur[x]].status \in Terminal
        BY DEF WorkerOK, InHand, AnnouncementsOK, AnnouncedOnceAndTruly,
               Terminal
      <4>3. \A x \in Workers : pc'[x] = "notify" => x # w /\ Untouched(x)
        BY <3>5
      <4>. QED
        BY <2>2, <3>5, <4>1, <4>2, <4>3
           DEF AnnouncementsOK, AnnouncedOnceAndTruly, Untouched, TypeOK
    <3>. QED
      BY <3>4, <3>7, <3>8, <3>9, <3>10
  <2>. QED
    BY <2>0, <2>4, <2>5, <2>6
<1>4. CASE ScanEnds(w)
  <2>1. Keeps
    BY <1>4, KeepsUnchanged DEF ScanEnds
  <2>. QED
    BY <1>4, <2>1, IdleStep DEF ScanEnds
<1>. QED
  BY <1>1, <1>2, <1>3, <1>4 DEF Loop

\* Entering, beating and leaving the handler: w's hands stay on its job.
LEMMA HandlerSteps ==
  ASSUME IInv, NEW w \in Workers,
         EnterHandler(w) \/ Beat(w) \/ HandlerEnds(w)
  PROVE  IInv'
<1> USE DEF IInv
<1>1. /\ cur[w] \in Jobs /\ RowOK(job[cur[w]]) /\ pc[w] \in {"claimed", "handler"}
      /\ pc[w] \in InHand
  BY DEF EnterHandler, Beat, HandlerEnds, WorkerOK, InHand
<1>2. Keeps
  <2>1. CASE Beat(w)
    BY <1>1, <2>1, RunningRowChanges, KeepsUpdate, KeepsUnchanged
       DEF Beat, MayHeartbeat
  <2>2. CASE EnterHandler(w) \/ HandlerEnds(w)
    BY <2>2, KeepsUnchanged DEF EnterHandler, HandlerEnds
  <2>. QED
    BY <2>1, <2>2
<1>3. TypeOK'
  <2>1. CASE Beat(w)
    <3>1. told[w] \in BOOLEAN /\ job[cur[w]].cancelRequested \in BOOLEAN
      BY <1>1 DEF TypeOK, RowOK, Row
    <3>. QED
      BY <1>2, <2>1, <3>1 DEF Beat, TypeOK, Keeps
  <2>2. CASE EnterHandler(w)
    BY <2>2 DEF EnterHandler, TypeOK
  <2>3. CASE HandlerEnds(w)
    BY <2>3 DEF HandlerEnds, TypeOK
  <2>. QED
    BY <2>1, <2>2, <2>3
<1>4. \A x \in Workers \ {w} : Untouched(x)
  BY DEF EnterHandler, Beat, HandlerEnds, TypeOK, Untouched
<1>5. \A x \in Workers \ {w} : WorkerOK(x)'
  BY <1>2, <1>4, WorkerKept
<1>6. WorkerOK(w)'
  <2>1. /\ pc'[w] \in {"handler", "ending"}
        /\ cur'[w] = cur[w] /\ held'[w] = held[w] /\ seen'[w] = seen[w]
        /\ job'[cur[w]].owner = w => Owns(w)
        /\ job'[cur[w]].attempt = job[cur[w]].attempt
    BY <1>1, <1>2, QueueAssumption
       DEF EnterHandler, Beat, HandlerEnds, TypeOK, Keeps, Tame, Owns
  <2>2. told'[w] => job'[cur[w]].cancelRequested
    <3>1. told'[w] => told[w] \/ job[cur[w]].cancelRequested
      BY DEF EnterHandler, Beat, HandlerEnds, TypeOK
    <3>. QED
      BY <1>1, <1>2, <3>1 DEF Keeps, Tame, WorkerOK
  <2>3. pc'[w] = "ending" =>
          ending'[w] # "none" /\ (ending'[w] = "cancelled" => told'[w])
    BY DEF EnterHandler, Beat, HandlerEnds, TypeOK
  <2>4. \A j \in DOMAIN seen'[w] :
          seen'[w][j].cancelRequested => job'[j].cancelRequested
    BY <1>2, <2>1 DEF Keeps, Tame, WorkerOK, TypeOK
  <2>. QED
    BY <1>1, <2>1, <2>2, <2>3, <2>4 DEF WorkerOK, Owns, InHand
<1>7. AnnouncementsOK'
  BY <1>1, <1>2, AnnouncementsKept
     DEF EnterHandler, Beat, HandlerEnds, TypeOK
<1>. QED
  BY <1>2, <1>3, <1>5, <1>6, <1>7 DEF Keeps

\* A worker that still owns its row ends it and goes on to announce that.
LEMMA EndingStep ==
  ASSUME IInv, NEW w \in Workers, NEW s,
         pc[w] = "ending", Owns(w), Update(cur[w], s),
         RowOK(s), Tame(job[cur[w]], s),
         ending[w] \in {"done", "warnings"} <=> s.status \in HasResult,
         s.status \in HasResult \cup {"failed", "dead_letter"},
         pc' = [pc EXCEPT ![w] = "notify"],
         UNCHANGED <<cur, held, told, lost, ending, seen, request, notified,
                     faults>>
  PROVE  IInv'
<1> USE DEF IInv
<1>1. cur[w] \in Jobs /\ job[cur[w]].status = "running"
  <2>1. cur[w] \in Jobs
    BY DEF WorkerOK, InHand
  <2>. QED
    BY <2>1, QueueAssumption DEF RowOK, Owns
<1>2. Keeps
  BY <1>1, KeepsUpdate
<1>3. TypeOK'
  BY <1>2 DEF TypeOK, Keeps
<1>4. \A x \in Workers \ {w} : Untouched(x)
  BY DEF TypeOK, Untouched
<1>5. \A x \in Workers \ {w} : WorkerOK(x)'
  BY <1>2, <1>4, WorkerKept
<1>6. job'[cur[w]] = s
  BY <1>1 DEF Update, TypeOK
<1>7. WorkerOK(w)'
  <2>1. s.owner = w => held[w] = s.attempt
    BY <1>1, QueueAssumption DEF WorkerOK, InHand, Tame
  <2>2. told[w] => s.cancelRequested
    BY <1>1 DEF WorkerOK, InHand, Tame
  <2>3. \A j \in DOMAIN seen[w] :
          seen[w][j].cancelRequested => job'[j].cancelRequested
    BY <1>2 DEF Keeps, Tame, WorkerOK, TypeOK
  <2>. QED
    BY <1>1, <1>6, <2>1, <2>2, <2>3 DEF WorkerOK, Owns, TypeOK
<1>8. AnnouncementsOK'
  <2>1. \A j \in Jobs :
          job[j].status \in Terminal => job'[j].status = job[j].status
    BY <1>2 DEF Keeps, Tame
  <2>2. \A x \in Workers : pc[x] = "notify" =>
          cur[x] \in Jobs /\ job[cur[x]].status \in Terminal
    BY DEF WorkerOK, InHand, AnnouncementsOK, AnnouncedOnceAndTruly, Terminal
  <2>3. \A x \in Workers \ {w} : pc[x] = "notify" => cur[x] # cur[w]
    BY <1>1, <2>2 DEF Terminal, HasResult
  <2>4. cur[w] \notin notified
    BY <1>1 DEF AnnouncementsOK, Terminal, HasResult
  <2>5. \A x \in Workers \ {w} : pc'[x] = pc[x]
    BY DEF TypeOK
  <2>6. pc'[w] = "notify"
    BY DEF TypeOK
  <2>. QED
    BY <1>6, <2>1, <2>2, <2>3, <2>4, <2>5, <2>6
       DEF AnnouncementsOK, AnnouncedOnceAndTruly, TypeOK
<1>. QED
  BY <1>2, <1>3, <1>5, <1>7, <1>8 DEF Keeps

LEMMA ExecuteSteps ==
  ASSUME IInv, NEW w \in Workers, Execute(w)
  PROVE  IInv'
<1> USE DEF IInv
<1>1. ASSUME pc[w] \in InHand
      PROVE  /\ cur[w] \in Jobs /\ RowOK(job[cur[w]])
             /\ Owns(w) => /\ job[cur[w]].status = "running"
                           /\ held[w] = job[cur[w]].attempt
             /\ told[w] => job[cur[w]].cancelRequested
  <2>1. cur[w] \in Jobs
    BY <1>1 DEF WorkerOK
  <2>2. Owns(w) => job[cur[w]].status = "running"
    BY <2>1, QueueAssumption DEF RowOK, Owns
  <2>. QED
    BY <1>1, <2>1, <2>2 DEF WorkerOK
<1>2. CASE CancelAtClaim(w)
  <2>1. Keeps
    BY <1>1, <1>2, RunningRowEnds, KeepsUpdate, KeepsUnchanged
       DEF CancelAtClaim, InHand
  <2>. QED
    BY <1>2, <2>1, IdleStep DEF CancelAtClaim
<1>3. CASE FailUnknown(w)
  <2>1. Keeps
    BY <1>1, <1>3, RunningRowEnds, KeepsUpdate, KeepsUnchanged
       DEF FailUnknown, InHand
  <2>. QED
    BY <1>3, <2>1, IdleStep DEF FailUnknown
<1>4. CASE StopLost(w) \/ OutcomeRefused(w)
  <2>1. Keeps
    BY <1>4, KeepsUnchanged DEF StopLost, OutcomeRefused
  <2>. QED
    BY <1>4, <2>1, IdleStep DEF StopLost, OutcomeRefused
<1>5. CASE WriteCancelled(w)
  <2>1. told[w]
    BY <1>5 DEF WriteCancelled, WorkerOK
  <2>2. Keeps
    BY <1>1, <1>5, <2>1, RunningRowEnds, KeepsUpdate DEF WriteCancelled, InHand
  <2>. QED
    BY <1>5, <2>2, IdleStep DEF WriteCancelled
<1>6. CASE WriteCompleted(w)
  <2>. DEFINE s == [Complete(job[cur[w]], ending[w] = "warnings")
                      EXCEPT !.result = job[cur[w]].attempt]
  <2>1. /\ RowOK(job[cur[w]]) /\ job[cur[w]].status = "running"
        /\ held[w] = job[cur[w]].attempt
    BY <1>1, <1>6 DEF WriteCompleted, InHand
  <2>2. RowOK(s) /\ Tame(job[cur[w]], s)
    BY <2>1, RunningRowEnds
  <2>3. s.status \in HasResult
    BY <2>1 DEF Complete, Released, HasResult, RowOK, Row
  <2>4. Update(cur[w], s)
    BY <1>6, <2>1 DEF WriteCompleted
  <2>. HIDE DEF s
  <2>. QED
    BY <1>6, <2>2, <2>3, <2>4, EndingStep DEF WriteCompleted
<1>7. CASE WriteFailed(w)
  <2>. DEFINE t == ending[w] = "transient"
              s == Fail(job[cur[w]], t)
  <2>1. RowOK(job[cur[w]]) /\ job[cur[w]].status = "running" /\ cur[w] \in Jobs
    BY <1>1, <1>7 DEF WriteFailed, InHand
  <2>2. RowOK(s) /\ Tame(job[cur[w]], s)
    BY <2>1, RunningRowEnds
  <2>3. Update(cur[w], s)
    BY <1>7 DEF WriteFailed
  <2>4. CASE WillRetry(job[cur[w]], t)
    <3>1. Keeps
      BY <2>1, <2>2, <2>3, KeepsUpdate
    <3>. QED
      BY <1>7, <2>4, <3>1, IdleStep DEF WriteFailed
  <2>5. CASE ~WillRetry(job[cur[w]], t)
    <3>1. s.status \in {"failed", "dead_letter"}
      BY <2>1, <2>5 DEF Fail, Released, RowOK, Row
    <3>2. /\ s.status \notin HasResult /\ ending[w] \notin {"done", "warnings"}
          /\ s.status \in HasResult \cup {"failed", "dead_letter"}
      BY <1>7, <3>1 DEF HasResult, WriteFailed
    <3>. HIDE DEF s
    <3>. QED
      BY <1>7, <2>2, <2>3, <2>5, <3>2, EndingStep DEF WriteFailed
  <2>. QED
    BY <2>4, <2>5
<1>8. CASE Notify(w)
  <2>1. Keeps
    BY <1>8, KeepsUnchanged DEF Notify
  <2>2. /\ cur[w] \in Jobs /\ job[cur[w]].status \in Terminal
        /\ \A x \in Workers \ {w} : pc[x] = "notify" => cur[x] # cur[w]
    BY <1>1, <1>8
       DEF Notify, InHand, AnnouncementsOK, AnnouncedOnceAndTruly, Terminal
  <2>3. TypeOK'
    BY <1>8, <2>2 DEF Notify, ToIdle, TypeOK
  <2>4. pc'[w] = "idle" /\ \A x \in Workers \ {w} : Untouched(x)
    BY <1>8 DEF Notify, ToIdle, TypeOK, Untouched
  <2>5. \A x \in Workers : WorkerOK(x)'
    BY <1>8, <2>1, <2>4, WorkerKept DEF Notify, ToIdle, InHand
  <2>6. AnnouncementsOK'
    BY <1>8, <2>2, <2>4
       DEF Notify, AnnouncementsOK, AnnouncedOnceAndTruly, Untouched
  <2>. QED
    BY <2>1, <2>3, <2>5, <2>6 DEF Keeps
<1>. QED
  BY <1>2, <1>3, <1>4, <1>5, <1>6, <1>7, <1>8, HandlerSteps DEF Execute, Outcome

LEMMA FaultSteps ==
  ASSUME IInv, NEW w \in Workers, Crash(w) \/ DatabaseError(w)
  PROVE  IInv'
<1> USE DEF IInv, Crash, DatabaseError
<1>1. Keeps
  BY KeepsUnchanged
<1>2. /\ pc'[w] \in {"dead", "idle"} /\ seen'[w] = NoScan
      /\ \A x \in Workers \ {w} : Untouched(x)
  BY DEF TypeOK, Untouched
<1>3. TypeOK'
  <2>1. faults' \in 0 .. MaxFaults
    BY QueueAssumption DEF TypeOK
  <2>2. DOMAIN seen' = Workers
    BY DEF TypeOK
  <2>3. \A x \in Workers : \A j \in DOMAIN seen'[x] :
          j \in Jobs /\ seen'[x][j] \in Row
    BY <1>2 DEF TypeOK, NoScan, Untouched
  <2>4. pc' \in [Workers -> {"new", "idle", "scan", "claimed", "handler",
                             "ending", "notify", "dead"}]
    BY DEF TypeOK
  <2>5. /\ cur' \in [Workers -> Jobs \cup {NoJob}]
        /\ ending' \in [Workers -> {"none", "done", "warnings", "transient",
                                    "permanent", "cancelled"}]
    BY DEF TypeOK
  <2>. QED
    BY <2>1, <2>2, <2>3, <2>4, <2>5 DEF TypeOK
<1>. QED
  BY <1>1, <1>2, <1>3, EmptyHandedStep DEF InHand, NoScan

---------------------------------------------------------------------------
(* The theorems. *)

LEMMA NextIInv == IInv /\ [Next]_vars => IInv'
<1> SUFFICES ASSUME IInv, [Next]_vars PROVE IInv'
  OBVIOUS
<1>1. CASE Next
  <2>1. ASSUME NEW j \in Jobs,
               LeaseLapses(j) \/ BackoffElapses(j) \/ RequestCancel(j)
        PROVE  IInv'
    BY <2>1, TimeAndRequestSteps
  <2>2. ASSUME NEW w \in Workers,
               Loop(w) \/ Execute(w) \/ Beat(w) \/ Crash(w) \/ DatabaseError(w)
        PROVE  IInv'
    BY <2>2, LoopSteps, ExecuteSteps, HandlerSteps, FaultSteps
  <2>. QED
    BY <1>1, <2>1, <2>2 DEF Next
<1>2. CASE UNCHANGED vars
  BY <1>2 DEF vars, workerVars, IInv, TypeOK, WorkerOK, AnnouncementsOK,
              AnnouncedOnceAndTruly, Owns
<1>. QED
  BY <1>1, <1>2

THEOREM QueueInvariant == Spec => []IInv
  BY InitIInv, NextIInv, PTL DEF Spec

\* Types are kept, and with them the bound on attempts: no job is claimed
\* more than MaxAttempts times (is_claimable, fail).
THEOREM TypeCorrect == Spec => []TypeOK
  BY QueueInvariant, PTL DEF IInv

\* Whatever leases lapse and workers return late, a completed job shows what
\* its last attempt produced (complete, claim_next).
THEOREM ResultsBelongToLastAttempt == Spec => []ResultOfLastAttempt
<1>1. IInv => ResultOfLastAttempt
  BY DEF IInv, RowOK, ResultOfLastAttempt
<1>. QED
  BY <1>1, QueueInvariant, PTL

\* No worker cancels a job nobody asked to cancel (run_once, _beat).
THEOREM CancellationsWereRequested == Spec => []CancelledOnlyIfRequested
<1>1. IInv => CancelledOnlyIfRequested
  BY DEF IInv, RowOK, CancelledOnlyIfRequested
<1>. QED
  BY <1>1, QueueInvariant, PTL

\* An outcome is announced at most once and truly (_execute).
THEOREM AnnouncementsAreTrue == Spec => []AnnouncedOnceAndTruly
  BY QueueInvariant, PTL DEF IInv, AnnouncementsOK

---------------------------------------------------------------------------
(* The queue implements JobLifecycle: the invariant makes every change of  *)
(* a row one of the moves the lifecycle allows.                            *)

\* The moves of the lifecycle, on one row.
Move(r, s) ==
  \/ s.status = r.status /\ s.attempt = r.attempt
  \/ /\ r.status \in {"pending", "running"} /\ r.attempt < MaxAttempts
     /\ s.status = "running" /\ s.attempt = r.attempt + 1
  \/ /\ r.status = "running" /\ r.attempt < MaxAttempts
     /\ s.status = "pending" /\ s.attempt = r.attempt
  \/ /\ r.status = "running" /\ s.status \in Terminal
     /\ s.status = "dead_letter" => r.attempt = MaxAttempts
     /\ s.attempt = r.attempt
  \/ /\ r.status = "pending" /\ s.status = "cancelled"
     /\ s.attempt = r.attempt

\* The legal transitions that start an attempt or withdraw a job.
LEMMA OpenTransitions ==
  /\ Lifecycle!CanTransition("pending", "running")
  /\ Lifecycle!CanTransition("running", "running")
  /\ Lifecycle!CanTransition("pending", "cancelled")
  BY DEF Lifecycle!CanTransition, Lifecycle!LegalTransitions,
         Lifecycle!StoredStatuses, Lifecycle!Terminal, Lifecycle!HasResult

LEMMA MoveIsLifecycleStep ==
  ASSUME TypeOK, NEW i \in Jobs, NEW s, Update(i, s), s \in Row, Move(job[i], s)
  PROVE  [Lifecycle!LifeNext]_(Lifecycle!lifeVars)
<1>. DEFINE st == [j \in Jobs |-> job[j].status]
            at == [j \in Jobs |-> job[j].attempt]
<1>1. \A j \in Jobs : job'[j] = IF j = i THEN s ELSE job[j]
  BY DEF TypeOK, Update
<1>2. st' = [st EXCEPT ![i] = s.status] /\ at' = [at EXCEPT ![i] = s.attempt]
  BY <1>1
<1>3. st[i] = job[i].status /\ at[i] = job[i].attempt
  OBVIOUS
<1>4. /\ s.status = job[i].status => st' = st
      /\ s.attempt = job[i].attempt => at' = at
  BY <1>1
<1>. HIDE DEF st, at
<1>5. CASE s.status = job[i].status /\ s.attempt = job[i].attempt
  <2>1. st' = st /\ at' = at
    BY <1>4, <1>5
  <2>. QED
    BY <2>1 DEF Lifecycle!lifeVars, st, at
<1>6. CASE /\ job[i].status \in {"pending", "running"}
           /\ job[i].attempt < MaxAttempts
           /\ s.status = "running" /\ s.attempt = job[i].attempt + 1
  <2>1. at' = [at EXCEPT ![i] = @ + 1]
    BY <1>2, <1>3, <1>6
  <2>2. Lifecycle!StartAttempt(i)
    BY <1>2, <1>3, <1>6, <2>1, OpenTransitions DEF Lifecycle!StartAttempt, st, at
  <2>. QED
    BY <2>2 DEF Lifecycle!LifeNext
<1>7. CASE s.attempt = job[i].attempt
  <2>1. at' = at
    BY <1>4, <1>7
  <2>2. CASE /\ job[i].status = "running" /\ job[i].attempt < MaxAttempts
             /\ s.status = "pending"
    <3>1. Lifecycle!Retry(i)
      BY <1>2, <1>3, <2>1, <2>2 DEF Lifecycle!Retry, st, at
    <3>. QED
      BY <3>1 DEF Lifecycle!LifeNext
  <2>3. CASE /\ job[i].status = "running" /\ s.status \in Terminal
             /\ s.status = "dead_letter" => job[i].attempt = MaxAttempts
    <3>1. Lifecycle!EndJob(i, s.status)
      BY <1>2, <1>3, <2>1, <2>3 DEF Lifecycle!EndJob, st, at
    <3>. QED
      BY <2>3, <3>1
         DEF Lifecycle!LifeNext, Lifecycle!Terminal, Lifecycle!HasResult,
             Terminal, HasResult
  <2>4. CASE job[i].status = "pending" /\ s.status = "cancelled"
    <3>1. Lifecycle!Withdraw(i)
      BY <1>2, <1>3, <2>1, <2>4, OpenTransitions DEF Lifecycle!Withdraw, st, at
    <3>. QED
      BY <3>1 DEF Lifecycle!LifeNext
  <2>5. job[i].attempt # job[i].attempt + 1
    BY DEF TypeOK, Row
  <2>. QED
    BY <1>5, <1>7, <2>2, <2>3, <2>4, <2>5 DEF Move
<1>. QED
  BY <1>5, <1>6, <1>7 DEF Move

\* The moves the rules of the contract make.
LEMMA ContractMoves ==
  ASSUME NEW r, RowOK(r), r.status = "running"
  PROVE  /\ Move(r, Heartbeat(r)) /\ Move(r, Cancel(r))
         /\ \A t \in BOOLEAN : Move(r, Fail(r, t))
         /\ \A t \in BOOLEAN, a \in Nat :
              Move(r, [Complete(r, t) EXCEPT !.result = a])
         /\ AttemptsExhausted(r) => Move(r, Abandon(r))
<1>0. r \in Row /\ r.attempt \in 0 .. MaxAttempts
  BY DEF RowOK, Row
<1>1. \A s \in Terminal :
        /\ Released(r, s).status = s /\ Released(r, s).attempt = r.attempt
        /\ s = "dead_letter" /\ AttemptsExhausted(r) => r.attempt = MaxAttempts
  BY <1>0, MaxAttemptsAssumption DEF Released, Row, AttemptsExhausted
<1>2. /\ Move(r, Cancel(r))
      /\ AttemptsExhausted(r) => Move(r, Abandon(r))
  BY <1>1 DEF Cancel, Abandon, Move, Terminal, HasResult
<1>3. Move(r, Heartbeat(r))
  BY <1>0 DEF Heartbeat, Move, Row
<1>4. ASSUME NEW t \in BOOLEAN PROVE Move(r, Fail(r, t))
  <2>1. CASE WillRetry(r, t)
    <3>1. Fail(r, t) = [Released(r, "pending") EXCEPT !.due = FALSE]
      BY <2>1 DEF Fail
    <3>2. r.attempt < MaxAttempts
      BY <1>0, <2>1, MaxAttemptsAssumption DEF WillRetry, AttemptsExhausted
    <3>. QED
      BY <1>0, <3>1, <3>2 DEF Move, Released, Row
  <2>2. CASE ~WillRetry(r, t)
    <3>1. \/ Fail(r, t) = Released(r, "failed")
          \/ AttemptsExhausted(r) /\ Fail(r, t) = Released(r, "dead_letter")
      BY <2>2 DEF Fail, WillRetry
    <3>. QED
      BY <1>1, <3>1 DEF Move, Terminal, HasResult
  <2>. QED
    BY <2>1, <2>2
<1>5. ASSUME NEW t \in BOOLEAN, NEW a \in Nat
      PROVE  Move(r, [Complete(r, t) EXCEPT !.result = a])
  <2>1. PICK s \in HasResult : Complete(r, t) = Released(r, s)
    BY DEF Complete, HasResult
  <2>. QED
    BY <1>0, <2>1 DEF Move, Released, Row, Terminal, HasResult
<1>. QED
  BY <1>2, <1>3, <1>4, <1>5

\* Every step of the queue is a step of the lifecycle or none.
LEMMA StepImplementsLifecycle ==
  ASSUME IInv, IInv', [Next]_vars
  PROVE  [Lifecycle!LifeNext]_(Lifecycle!lifeVars)
<1> USE DEF IInv
<1>1. ASSUME UNCHANGED job PROVE [Lifecycle!LifeNext]_(Lifecycle!lifeVars)
  BY <1>1 DEF Lifecycle!lifeVars
<1>2. ASSUME NEW i \in Jobs, NEW s, Update(i, s), Move(job[i], s)
      PROVE  [Lifecycle!LifeNext]_(Lifecycle!lifeVars)
  <2>1. job'[i] = s
    BY <1>2 DEF Update, TypeOK
  <2>2. s \in Row
    BY <2>1 DEF TypeOK
  <2>. QED
    BY <1>2, <2>2, MoveIsLifecycleStep
<1>3. ASSUME NEW j \in Jobs,
             LeaseLapses(j) \/ BackoffElapses(j) \/ RequestCancel(j)
      PROVE  [Lifecycle!LifeNext]_(Lifecycle!lifeVars)
  <2>1. CASE UNCHANGED job
    BY <1>1, <2>1
  <2>2. CASE job' # job
    <3>1. job[j] \in Row
      BY DEF TypeOK
    <3>2. /\ Move(job[j], [job[j] EXCEPT !.lease = "lapsed"])
          /\ Move(job[j], [job[j] EXCEPT !.due = TRUE])
          /\ Move(job[j], [job[j] EXCEPT !.cancelRequested = TRUE])
      BY <3>1 DEF Move, Row
    <3>3. job[j].status = "pending" =>
            Move(job[j], [Cancel(job[j]) EXCEPT !.cancelRequested = TRUE])
      BY <3>1 DEF Move, Row, Cancel, Released
    <3>4. CASE LeaseLapses(j)
      BY <1>2, <3>2, <3>4 DEF LeaseLapses
    <3>5. CASE BackoffElapses(j)
      BY <1>2, <3>2, <3>5 DEF BackoffElapses
    <3>6. CASE RequestCancel(j)
      BY <1>2, <2>2, <3>2, <3>3, <3>6
         DEF RequestCancel, RequestCancelRead, RequestCancelWithdraw,
             RequestCancelFlag
    <3>. QED
      BY <1>3, <3>4, <3>5, <3>6
  <2>. QED
    BY <2>1, <2>2
<1>4. ASSUME NEW w \in Workers, Loop(w)
      PROVE  [Lifecycle!LifeNext]_(Lifecycle!lifeVars)
  <2>1. CASE UNCHANGED job
    BY <1>1, <2>1
  <2>2. CASE job' # job
    <3>1. PICK j \in DOMAIN seen[w] : RetireAbandoned(w, j) \/ ClaimWins(w, j)
      BY <1>4, <2>2
         DEF Loop, Start, Scan, ScanEnds, TryCandidate, ClaimLoses
    <3>2. j \in Jobs /\ seen[w][j] \in Row /\ job[j] \in Row /\ RowOK(job[j])
      BY DEF TypeOK
    <3>3. CASE RetireAbandoned(w, j)
      <4>1. /\ Update(j, Abandon(job[j])) /\ job[j].status = "running"
            /\ AttemptsExhausted(job[j])
        BY <2>2, <3>3 DEF RetireAbandoned, IsAbandoned, AttemptsExhausted
      <4>. QED
        BY <1>2, <3>2, <4>1, ContractMoves
    <3>4. CASE ClaimWins(w, j)
      <4>. DEFINE v == seen[w][j]
                  s == ClaimedRow(job[j], Claim(v, w))
      <4>1. /\ IsClaimable(v) /\ Update(j, s)
            /\ job[j].status = v.status /\ job[j].attempt = v.attempt
        BY <3>4 DEF ClaimWins, ClaimGuard
      <4>2. /\ Claim(v, w).status = "running"
            /\ Claim(v, w).attempt = v.attempt + 1
        BY <3>2 DEF Claim, Row
      <4>3. s.status = "running" /\ s.attempt = job[j].attempt + 1
        BY <3>2, <4>1, <4>2 DEF ClaimedRow, Row
      <4>4. job[j].status \in {"pending", "running"} /\ job[j].attempt < MaxAttempts
        BY <3>2, <4>1, MaxAttemptsAssumption
           DEF IsClaimable, AttemptsExhausted, RowOK, Row, StoredStatuses
      <4>. HIDE DEF s
      <4>5. Move(job[j], s)
        BY <4>3, <4>4 DEF Move
      <4>. QED
        BY <1>2, <3>2, <4>1, <4>5
    <3>. QED
      BY <3>1, <3>3, <3>4
  <2>. QED
    BY <2>1, <2>2
<1>5. ASSUME NEW w \in Workers, Execute(w) \/ Beat(w)
      PROVE  [Lifecycle!LifeNext]_(Lifecycle!lifeVars)
  <2>1. CASE UNCHANGED job
    BY <1>1, <2>1
  <2>2. CASE job' # job
    <3>1. pc[w] \in InHand /\ (Owns(w) \/ MayHeartbeat(job[cur[w]], w))
      BY <1>5, <2>2
         DEF Execute, Outcome, Beat, CancelAtClaim, FailUnknown, EnterHandler,
             StopLost, HandlerEnds, OutcomeRefused, WriteCancelled,
             WriteCompleted, WriteFailed, Notify, InHand
    <3>2. cur[w] \in Jobs /\ RowOK(job[cur[w]])
      BY <3>1 DEF WorkerOK
    <3>3. job[cur[w]].status = "running"
      BY <3>1, <3>2, QueueAssumption DEF RowOK, Owns, MayHeartbeat
    <3>4. held[w] \in Nat
      BY DEF TypeOK
    <3>5. PICK s : Update(cur[w], s) /\ Move(job[cur[w]], s)
      BY <1>5, <2>2, <3>2, <3>3, <3>4, ContractMoves
         DEF Execute, Outcome, Beat, CancelAtClaim, FailUnknown, EnterHandler,
             StopLost, HandlerEnds, OutcomeRefused, WriteCancelled,
             WriteCompleted, WriteFailed, Notify
    <3>. QED
      BY <1>2, <3>2, <3>5
  <2>. QED
    BY <2>1, <2>2
<1>6. ASSUME NEW w \in Workers, Crash(w) \/ DatabaseError(w)
      PROVE  [Lifecycle!LifeNext]_(Lifecycle!lifeVars)
  BY <1>1, <1>6 DEF Crash, DatabaseError
<1>7. CASE UNCHANGED vars
  BY <1>1, <1>7 DEF vars
<1>. QED
  BY <1>3, <1>4, <1>5, <1>6, <1>7 DEF Next

\* Every behaviour of the queue, faults and races included, is one of the
\* abstract lifecycle: attempts are bounded and counted one by one, only
\* legal transitions happen, ends are final.
THEOREM QueueImplementsLifecycle == Spec => ImplementsLifecycle
<1>1. Init => Lifecycle!LifeInit
  BY DEF Init, FreshRow, Lifecycle!LifeInit
<1>2. IInv /\ IInv' /\ [Next]_vars => [Lifecycle!LifeNext]_(Lifecycle!lifeVars)
  BY StepImplementsLifecycle
<1>. QED
  BY <1>1, <1>2, QueueInvariant, PTL
     DEF Spec, ImplementsLifecycle, Lifecycle!LifeSpec

---------------------------------------------------------------------------
(* What a scan has read, against what the table has become. *)

\* A view is a row that was; no later claim than its own is counted in it,
\* and while its claim is the last one the row has its owner or none.
ViewOf(v, r) ==
  /\ RowOK(v)
  /\ v.attempt <= r.attempt
  /\ v.attempt = r.attempt /\ r.status = "running" =>
       v.status = "running" /\ v.owner = r.owner

Views == \A w \in Workers : \A j \in DOMAIN seen[w] : ViewOf(seen[w][j], job[j])

\* Only a claim counts an attempt or gives a row an owner.
Steady(r, s) == s.attempt = r.attempt /\ (s.owner = r.owner \/ s.owner = NoOne)

\* A view stays one when the row changes without a claim.
LEMMA ViewSteady ==
  ASSUME NEW v, NEW r, NEW s, ViewOf(v, r), RowOK(r), RowOK(s), Steady(r, s)
  PROVE  ViewOf(v, s)
  BY DEF ViewOf, RowOK, Steady

\* A claim leaves every view behind.
LEMMA ViewOutdated ==
  ASSUME NEW v, NEW r, NEW s, ViewOf(v, r), RowOK(r), s.attempt = r.attempt + 1
  PROVE  ViewOf(v, s)
<1>1. v.attempt \in Nat /\ r.attempt \in Nat
  BY MaxAttemptsAssumption DEF ViewOf, RowOK, Row
<1>. QED
  BY <1>1 DEF ViewOf

\* Ending an attempt counts none and leaves the row without an owner.
LEMMA EndingsSteady ==
  ASSUME NEW r \in Row
  PROVE  /\ Steady(r, Heartbeat(r)) /\ Heartbeat(r).owner = r.owner
         /\ Steady(r, Abandon(r)) /\ Steady(r, Cancel(r))
         /\ \A t \in BOOLEAN : Steady(r, Fail(r, t))
         /\ \A t \in BOOLEAN, k \in Nat : Steady(r, [Complete(r, t) EXCEPT !.result = k])
  BY DEF Row, Steady, Heartbeat, Abandon, Cancel, Fail, Complete, Released

\* What a step writes: nothing, a row that nobody takes, a claim, the end of
\* an abandoned row, or its owner's heartbeat or outcome.
Written ==
  \/ UNCHANGED job
  \/ \E j \in Jobs, s \in Row :
       /\ Update(j, s) /\ Steady(job[j], s)
       /\ s.owner = job[j].owner \/ job[j].status = "pending"
  \/ \E x \in Workers : \E j \in DOMAIN seen[x] :
       pc[x] = "scan" /\ (ClaimWins(x, j) \/ RetireAbandoned(x, j))
  \/ \E x \in Workers, s \in Row :
       /\ pc'[x] # pc[x] /\ cur[x] \in Jobs /\ Owns(x)
       /\ Update(cur[x], s) /\ Steady(job[cur[x]], s)

LEMMA StepWrites ==
  ASSUME IInv, IInv', [Next]_vars
  PROVE  Written
<1> USE DEF IInv
<1>1. ASSUME UNCHANGED job PROVE Written
  BY <1>1 DEF Written
<1>2. ASSUME NEW j \in Jobs,
             LeaseLapses(j) \/ BackoffElapses(j) \/ RequestCancel(j)
      PROVE  Written
  <2>1. CASE UNCHANGED job
    BY <1>1, <2>1
  <2>2. CASE job' # job
    <3>1. job[j] \in Row
      BY DEF TypeOK
    <3>2. PICK s : /\ Update(j, s) /\ Steady(job[j], s)
                   /\ s.owner = job[j].owner \/ job[j].status = "pending"
      <4>1. CASE LeaseLapses(j)
        BY <3>1, <4>1 DEF LeaseLapses, Steady, Row
      <4>2. CASE BackoffElapses(j)
        BY <3>1, <4>2 DEF BackoffElapses, Steady, Row
      <4>3. CASE RequestCancel(j)
        <5>1. CASE RequestCancelWithdraw(j)
          <6>1. /\ Update(j, [Cancel(job[j]) EXCEPT !.cancelRequested = TRUE])
                /\ job[j].status = "pending"
            BY <2>2, <5>1 DEF RequestCancelWithdraw
          <6>2. Steady(job[j], [Cancel(job[j]) EXCEPT !.cancelRequested = TRUE])
            BY <3>1 DEF Steady, Row, Cancel, Released
          <6>. QED
            BY <6>1, <6>2
        <5>2. CASE RequestCancelFlag(j)
          BY <2>2, <3>1, <5>2 DEF RequestCancelFlag, Steady, Row
        <5>. QED
          BY <2>2, <4>3, <5>1, <5>2 DEF RequestCancel, RequestCancelRead
      <4>. QED
        BY <1>2, <4>1, <4>2, <4>3
    <3>3. s \in Row
      <4>1. job'[j] = s
        BY <3>2 DEF Update, TypeOK
      <4>. QED
        BY <4>1 DEF TypeOK
    <3>. QED
      BY <3>2, <3>3 DEF Written
  <2>. QED
    BY <2>1, <2>2
<1>3. ASSUME NEW w \in Workers, Loop(w)
      PROVE  Written
  BY <1>1, <1>3
     DEF Loop, Start, Scan, ScanEnds, TryCandidate, ClaimLoses, Written
<1>4. ASSUME NEW w \in Workers, Execute(w) \/ Beat(w)
      PROVE  Written
  <2>1. CASE UNCHANGED job
    BY <1>1, <2>1
  <2>2. CASE job' # job
    <3>1. pc[w] \in InHand
      BY <1>4, <2>2
         DEF Execute, Outcome, Beat, CancelAtClaim, FailUnknown, EnterHandler,
             StopLost, HandlerEnds, OutcomeRefused, WriteCancelled,
             WriteCompleted, WriteFailed, Notify, InHand
    <3>2. cur[w] \in Jobs /\ job[cur[w]] \in Row /\ held[w] \in Nat
      BY <3>1 DEF WorkerOK, TypeOK
    <3>3. CASE Beat(w)
      <4>1. Update(cur[w], Heartbeat(job[cur[w]]))
        BY <2>2, <3>3 DEF Beat
      <4>2. job'[cur[w]] = Heartbeat(job[cur[w]]) /\ job'[cur[w]] \in Row
        BY <3>2, <4>1 DEF Update, TypeOK
      <4>. QED
        BY <3>2, <4>1, <4>2, EndingsSteady DEF Written
    <3>4. CASE Execute(w)
      <4>1. /\ pc'[w] # pc[w] /\ Owns(w)
            /\ \E s : Update(cur[w], s) /\ Steady(job[cur[w]], s)
        BY <2>2, <3>2, <3>4, EndingsSteady
           DEF Execute, Outcome, CancelAtClaim, FailUnknown, EnterHandler,
               StopLost, HandlerEnds, OutcomeRefused, WriteCancelled,
               WriteCompleted, WriteFailed, Notify, ToIdle, TypeOK
      <4>2. PICK s : Update(cur[w], s) /\ Steady(job[cur[w]], s)
        BY <4>1
      <4>3. s \in Row
        <5>1. job'[cur[w]] = s
          BY <3>2, <4>2 DEF Update, TypeOK
        <5>. QED
          BY <3>2, <5>1 DEF TypeOK
      <4>. QED
        BY <3>2, <4>1, <4>2, <4>3 DEF Written
    <3>. QED
      BY <1>4, <3>3, <3>4
  <2>. QED
    BY <2>1, <2>2
<1>5. ASSUME NEW w \in Workers, Crash(w) \/ DatabaseError(w)
      PROVE  Written
  BY <1>1, <1>5 DEF Crash, DatabaseError
<1>6. CASE UNCHANGED vars
  BY <1>1, <1>6 DEF vars
<1>. QED
  BY <1>2, <1>3, <1>4, <1>5, <1>6 DEF Next

\* A scan only grows by reading the table; otherwise it is worked off.
LEMMA ScansRead ==
  ASSUME IInv, [Next]_vars, NEW w \in Workers, NEW j \in DOMAIN seen'[w]
  PROVE  \/ j \in DOMAIN seen[w] /\ seen'[w][j] = seen[w][j]
         \/ j \in Jobs /\ seen'[w][j] = job[j] /\ UNCHANGED job
<1> USE DEF IInv, TypeOK
<1>1. ASSUME seen'[w] = seen[w] \/ seen'[w] = NoScan
      PROVE  j \in DOMAIN seen[w] /\ seen'[w][j] = seen[w][j]
  BY <1>1 DEF NoScan
<1>2. ASSUME NEW i \in Jobs,
             LeaseLapses(i) \/ BackoffElapses(i) \/ RequestCancel(i)
      PROVE  seen' = seen
  BY <1>2 DEF LeaseLapses, BackoffElapses, RequestCancel, RequestCancelRead,
              RequestCancelWithdraw, RequestCancelFlag, workerVars
<1>3. ASSUME NEW x \in Workers, Execute(x) \/ Beat(x) \/ Start(x) \/ ScanEnds(x)
      PROVE  seen' = seen
  BY <1>3 DEF Execute, Outcome, Beat, Start, ScanEnds, CancelAtClaim, FailUnknown,
              EnterHandler, StopLost, HandlerEnds, OutcomeRefused, WriteCancelled,
              WriteCompleted, WriteFailed, Notify, ToIdle
<1>4. ASSUME NEW x \in Workers, Crash(x) \/ DatabaseError(x)
      PROVE  seen'[w] = seen[w] \/ seen'[w] = NoScan
  BY <1>4 DEF Crash, DatabaseError
<1>5. ASSUME NEW x \in Workers, Scan(x)
      PROVE  \/ seen'[w] = seen[w]
             \/ j \in Jobs /\ seen'[w][j] = job[j] /\ UNCHANGED job
  BY <1>5 DEF Scan, ClaimQuery
<1>6. ASSUME NEW x \in Workers, TryCandidate(x)
      PROVE  j \in DOMAIN seen[w] /\ seen'[w][j] = seen[w][j]
  <2>1. PICK i \in DOMAIN seen[x] :
          \/ seen' = [seen EXCEPT ![x] = Without(@, i)]
          \/ seen' = [seen EXCEPT ![x] = NoScan]
    BY <1>6 DEF TryCandidate, RetireAbandoned, ClaimWins, ClaimLoses
  <2>. QED
    BY <2>1 DEF Without, NoScan
<1>7. ASSUME UNCHANGED vars PROVE seen' = seen
  BY <1>7 DEF vars, workerVars
<1>. QED
  BY <1>1, <1>2, <1>3, <1>4, <1>5, <1>6, <1>7 DEF Next, Loop

LEMMA ViewsStep == IInv /\ IInv' /\ Views /\ [Next]_vars => Views'
<1> SUFFICES ASSUME IInv, IInv', Views, [Next]_vars,
                    NEW w \in Workers, NEW j \in DOMAIN seen'[w]
             PROVE  ViewOf(seen'[w][j], job'[j])
  BY DEF Views
<1>1. CASE j \in Jobs /\ seen'[w][j] = job[j] /\ UNCHANGED job
  <2>1. RowOK(job[j]) /\ job[j].attempt \in Nat
    BY <1>1, MaxAttemptsAssumption DEF IInv, RowOK, Row
  <2>. QED
    BY <1>1, <2>1 DEF ViewOf
<1>2. CASE j \in DOMAIN seen[w] /\ seen'[w][j] = seen[w][j]
  <2>. DEFINE v == seen[w][j]
  <2>1. /\ j \in Jobs /\ ViewOf(v, job[j]) /\ RowOK(job[j]) /\ RowOK(job'[j])
        /\ job \in [Jobs -> Row] /\ \A i \in Jobs : Steady(job[i], job[i])
    BY <1>2 DEF IInv, TypeOK, Views, Steady
  <2>2. Steady(job[j], job'[j]) \/ job'[j].attempt = job[j].attempt + 1
    <3>1. Written
      BY StepWrites
    <3>2. CASE \E x \in Workers : \E i \in DOMAIN seen[x] :
                 pc[x] = "scan" /\ (ClaimWins(x, i) \/ RetireAbandoned(x, i))
      <4>1. PICK x \in Workers : \E i \in DOMAIN seen[x] :
              pc[x] = "scan" /\ (ClaimWins(x, i) \/ RetireAbandoned(x, i))
        BY <3>2
      <4>2. PICK i \in DOMAIN seen[x] : ClaimWins(x, i) \/ RetireAbandoned(x, i)
        BY <4>1
      <4>3. i \in Jobs /\ seen[x][i] \in Row /\ job[i] \in Row
        BY DEF IInv, TypeOK
      <4>4. CASE RetireAbandoned(x, i)
        BY <2>1, <4>3, <4>4, EndingsSteady DEF RetireAbandoned, Update
      <4>5. CASE ClaimWins(x, i)
        <5>1. /\ IsClaimable(seen[x][i]) /\ job[i].status = seen[x][i].status
              /\ job[i].attempt = seen[x][i].attempt /\ RowOK(job[i])
          BY <4>3, <4>5 DEF ClaimWins, ClaimGuard, IInv
        <5>2. ClaimedRow(job[i], Claim(seen[x][i], x)).attempt = job[i].attempt + 1
          BY <4>3, <5>1, RowClaimed
        <5>3. job' = [job EXCEPT ![i] = ClaimedRow(job[i], Claim(seen[x][i], x))]
          BY <4>5 DEF ClaimWins, Update
        <5>. QED
          BY <2>1, <5>2, <5>3
      <4>. QED
        BY <4>2, <4>4, <4>5
    <3>. QED
      BY <2>1, <3>1, <3>2 DEF Written, Update
  <2>. QED
    BY <1>2, <2>1, <2>2, ViewSteady, ViewOutdated
<1>. QED
  BY <1>1, <1>2, ScansRead

\* A row leaves its owner behind the owner's back only if a scan found it so.
LEMMA TakenStep ==
  ASSUME IInv, IInv', Views, [Next]_vars, NEW j \in Jobs, NEW w \in Workers,
         TakenFrom(j, w)
  PROVE  \E x \in Workers :
           /\ pc[x] = "scan" /\ j \in DOMAIN seen[x]
           /\ seen[x][j].owner = w
           /\ seen[x][j].attempt = job[j].attempt
           /\ seen[x][j].lease = "lapsed"
<1>1. /\ job[j].owner = w /\ job'[j].owner # w /\ pc'[w] = pc[w]
      /\ job \in [Jobs -> Row] /\ RowOK(job[j]) /\ job[j].status = "running"
  BY QueueAssumption DEF TakenFrom, IInv, TypeOK, RowOK
<1>2. Written
  BY StepWrites
<1>3. PICK x \in Workers : \E i \in DOMAIN seen[x] :
        pc[x] = "scan" /\ (ClaimWins(x, i) \/ RetireAbandoned(x, i))
  BY <1>1, <1>2 DEF Written, Update, Owns
<1>4. PICK i \in DOMAIN seen[x] : ClaimWins(x, i) \/ RetireAbandoned(x, i)
  BY <1>3
<1>. DEFINE v == seen[x][i]
<1>5. i = j
  BY <1>1, <1>4 DEF ClaimWins, RetireAbandoned, Update
<1>6. ViewOf(v, job[j]) /\ v \in Row
  BY <1>4, <1>5 DEF Views, IInv, TypeOK
<1>7. v.attempt = job[j].attempt /\ LeaseExpired(v)
  <2>1. CASE RetireAbandoned(x, i)
    BY <1>1, <1>5, <2>1 DEF RetireAbandoned, IsAbandoned
  <2>2. CASE ClaimWins(x, i)
    BY <1>1, <1>5, <2>2 DEF ClaimWins, ClaimGuard, IsClaimable
  <2>. QED
    BY <1>4, <2>1, <2>2
<1>8. v.status = "running" /\ v.owner = w
  BY <1>1, <1>6, <1>7 DEF ViewOf
<1>9. v.lease = "lapsed"
  BY <1>6, <1>7, <1>8 DEF ViewOf, RowOK, Row, LeaseExpired
<1>. QED
  BY <1>3, <1>4, <1>5, <1>7, <1>8, <1>9

\* TakenOnlyAfterLapse: whatever the order of scans, claims, beats and faults,
\* a worker loses its row only to one that saw the lease of this very claim
\* lapsed, and to no later claim than the one it saw.
THEOREM RowsAreTakenOnlyAfterLapse == Spec => TakenOnlyAfterLapse
<1>1. Init => Views
  BY DEF Init, Views, NoScan
<1>2. IInv /\ IInv' /\ Views /\ [Next]_vars => Views'
  BY ViewsStep
<1>3. IInv /\ IInv' /\ Views /\ [Next]_vars =>
        [\A j \in Jobs, w \in Workers :
           TakenFrom(j, w) =>
             \E x \in Workers :
               /\ pc[x] = "scan" /\ j \in DOMAIN seen[x]
               /\ seen[x][j].owner = w
               /\ seen[x][j].attempt = job[j].attempt
               /\ seen[x][j].lease = "lapsed"]_vars
  BY TakenStep
<1>. QED
  BY <1>1, <1>2, <1>3, QueueInvariant, PTL DEF Spec, TakenOnlyAfterLapse
=============================================================================
