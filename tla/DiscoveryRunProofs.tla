------------------------- MODULE DiscoveryRunProofs -------------------------
(***************************************************************************)
(* For every universe, any number of workers, crashes and lapsed leases: a *)
(* run that says it completed lists every ticker; and as long as scanners  *)
(* are exclusive, a retry lists no company twice and an ended run is left  *)
(* alone.                                                                  *)
(***************************************************************************)
EXTENDS DiscoveryRun, TLAPS

USE MaxAttemptsAssumption, DiscoveryAssumption

---------------------------------------------------------------------------
(* Types *)

\* A row that is not running has no owner; a pending one has attempts left.
RowOK(v) ==
  /\ v \in JobRow
  /\ v.status # "running" => v.owner = NoOne
  /\ v.status = "pending" => v.attempt < MaxAttempts

\* A scanner about to extract has a ticker to extract.
InBounds ==
  \A s \in Scanners : pc[s] = "extract" => MoreToScan(s)

TypeInv == TypeOK /\ RowOK(job) /\ InBounds

\* Every move of the contract leaves a sound row (job_contract.py).
LEMMA RowMoves ==
  ASSUME NEW v, RowOK(v)
  PROVE  /\ RowOK([v EXCEPT !.due = TRUE])
         /\ RowOK([v EXCEPT !.lease = "lapsed"])
         /\ \A w \in Workers : IsClaimable(v) => RowOK(Claim(v, w))
         /\ RowOK(Heartbeat(v))
         /\ \A b \in BOOLEAN : RowOK(Complete(v, b)) /\ RowOK(Fail(v, b))
         /\ RowOK(Abandon(v))
<1>. USE DEF RowOK, JobRow, StoredStatuses, Terminal, HasResult
<1>1. /\ RowOK([v EXCEPT !.due = TRUE])
      /\ RowOK([v EXCEPT !.lease = "lapsed"])
      /\ RowOK(Heartbeat(v))
      /\ RowOK(Abandon(v))
  BY DEF Heartbeat, Abandon, Released
<1>2. ASSUME NEW w \in Workers PROVE IsClaimable(v) => RowOK(Claim(v, w))
  <2>1. IsClaimable(v) => v.attempt + 1 \in 0 .. MaxAttempts
    BY DEF IsClaimable, AttemptsExhausted
  <2>. QED
    BY <2>1 DEF Claim
<1>3. ASSUME NEW b \in BOOLEAN PROVE RowOK(Complete(v, b)) /\ RowOK(Fail(v, b))
  <2>1. RowOK(Complete(v, b))
    BY DEF Complete, Released
  <2>2. CASE WillRetry(v, b)
    <3>1. v.attempt < MaxAttempts
      BY <2>2 DEF WillRetry, AttemptsExhausted
    <3>2. Fail(v, b) = [v EXCEPT !.status = "pending", !.owner = NoOne,
                                 !.lease = "none", !.due = FALSE]
      BY <2>2 DEF Fail, Released
    <3>. QED
      BY <2>1, <3>1, <3>2
  <2>3. CASE ~WillRetry(v, b)
    <3>1. \/ Fail(v, b) = Released(v, "failed")
          \/ Fail(v, b) = Released(v, "dead_letter")
      BY <2>3 DEF Fail
    <3>. QED
      BY <2>1, <3>1 DEF Released
  <2>. QED
    BY <2>1, <2>2, <2>3
<1>. QED
  BY <1>1, <1>2, <1>3

LEMMA FreshRowOK == RowOK(FreshRow)
  BY DEF RowOK, JobRow, StoredStatuses, FreshRow

\* What a scanner starts from and what it ends with are rows of a run.
LEMMA RunMoves ==
  ASSUME NEW r \in RunRow, NEW s
  PROVE  /\ NewRun \in RunRow
         /\ Resumed(s, r) \in RunRow
         /\ Resumed(s, r).status = "running"
         /\ [r EXCEPT !.status = "running"] \in RunRow
         /\ [r EXCEPT !.status = "failed"] \in RunRow
         /\ \A m \in RunRow, b \in BOOLEAN :
              [r EXCEPT !.status = Verdict(m, b)] \in RunRow
  BY DEF RunRow, NewRun, Resumed, Verdict

LEMMA InitTypeInv == Init => TypeInv
<1>. SUFFICES ASSUME Init PROVE TypeInv
  OBVIOUS
<1>1. RowOK(job) /\ job \in JobRow
  BY FreshRowOK DEF Init, RowOK
<1>2. TypeOK
  <2>1. NewRun \in RunRow /\ listed \in SUBSET Tickers
    BY DEF Init, NewRun, RunRow
  <2>2. mem \in [Scanners -> RunRow] /\ run \in RunRow
    BY <2>1 DEF Init
  <2>3. faults \in 0 .. MaxFaults /\ stalls \in 0 .. MaxStalls
    BY DEF Init
  <2>. QED
    BY <1>1, <2>1, <2>2, <2>3 DEF Init, TypeOK
<1>. QED
  BY <1>1, <1>2 DEF TypeInv, Init, InBounds

Places == {"idle", "load", "mark", "scan", "extract", "return", "notify", "dead", "gone"}

\* A scanner that goes anywhere but to an extraction keeps the places typed
\* and the cursors in bounds.
LEMMA Moves ==
  ASSUME TypeInv, NEW s \in Scanners, NEW p \in Places, GoTo(s, p), p # "extract",
         \A q \in Scanners \ {s} : mem'[q] = mem[q]
  PROVE  pc' \in [Scanners -> Places] /\ InBounds'
  BY DEF TypeInv, TypeOK, InBounds, GoTo, MoreToScan, Places

\* One that stands still does.
LEMMA Stays ==
  ASSUME TypeInv, UNCHANGED <<pc, mem>>
  PROVE  pc' \in [Scanners -> Places] /\ InBounds'
  BY DEF TypeInv, TypeOK, InBounds, MoreToScan, Places

\* Closing a run that is still open leaves a row of a run.
LEMMA FinishRunTypes ==
  ASSUME run \in RunRow, FinishRun PROVE run' \in RunRow
  BY RunMoves DEF FinishRun

LEMMA RequestTypes ==
  ASSUME TypeInv, Schedule \/ EnqueueRaises \/ FallBack \/ RequestDies
  PROVE  TypeInv'
<1>1. pc' \in [Scanners -> Places] /\ InBounds'
  <2>1. UNCHANGED mem /\ (UNCHANGED pc \/ GoTo(Task, "load"))
    BY DEF Schedule, EnqueueRaises, FallBack, RequestDies, StartTask
  <2>. QED
    BY <2>1, Stays, Moves DEF Scanners, Places
<1>2. faults' \in 0 .. MaxFaults
  BY DEF TypeInv, TypeOK, Schedule, EnqueueRaises, FallBack, RequestDies, Fault
<1>3. queued' \in BOOLEAN /\ api' \in {"created", "failed", "answered"}
  BY DEF TypeInv, TypeOK, Schedule, EnqueueRaises, FallBack, RequestDies
<1>4. UNCHANGED <<run, listed, job, mem, stalls>>
  BY DEF Schedule, EnqueueRaises, FallBack, RequestDies
<1>. QED
  BY <1>1, <1>2, <1>3, <1>4 DEF TypeInv, TypeOK, Places

LEMMA JobTypes ==
  ASSUME TypeInv,
         \/ BackoffElapses \/ LeaseLapses
         \/ \E w \in Workers : ClaimJob(w) \/ Retire(w) \/ Beat(w)
  PROVE  TypeInv'
<1>1. pc' \in [Scanners -> Places] /\ InBounds'
  <2>1. UNCHANGED mem /\ (UNCHANGED pc \/ \E w \in Workers : GoTo(w, "load"))
    BY DEF BackoffElapses, LeaseLapses, ClaimJob, Retire, Beat
  <2>. QED
    BY <2>1, Stays, Moves DEF Scanners, Places
<1>2. stalls' \in 0 .. MaxStalls
  BY DEF TypeInv, TypeOK, BackoffElapses, LeaseLapses, ClaimJob, Retire, Beat
<1>3. RowOK(job)'
  <2>1. \/ job' = [job EXCEPT !.due = TRUE] \/ job' = [job EXCEPT !.lease = "lapsed"]
        \/ \E w \in Workers : \/ IsClaimable(job) /\ job' = Claim(job, w)
                              \/ job' = Abandon(job) \/ job' = Heartbeat(job)
    BY DEF BackoffElapses, LeaseLapses, ClaimJob, Retire, Beat
  <2>2. RowOK(job)
    BY DEF TypeInv
  <2>3. RowOK(job')
    BY <2>1, <2>2, RowMoves
  <2>. QED
    BY <2>3 DEF RowOK
<1>4. UNCHANGED <<run, listed, queued, api, mem, faults>>
  BY DEF BackoffElapses, LeaseLapses, ClaimJob, Retire, Beat
<1>. QED
  BY <1>1, <1>2, <1>3, <1>4 DEF TypeInv, TypeOK, Places, RowOK

LEMMA ProcessTypes ==
  ASSUME TypeInv, NEW s \in Scanners, ProcessRun(s)
  PROVE  TypeInv'
<1>. USE DEF TypeInv
<1>1. run \in RunRow /\ mem \in [Scanners -> RunRow] /\ mem[s] \in RunRow
  BY DEF TypeOK
<1>2. UNCHANGED <<queued, api, faults, stalls>>
  BY DEF ProcessRun, Load, Mark, Checkpoint, Extract, Collide, Finish
<1>3. CASE Load(s)
  <2>1. \E p \in Places : GoTo(s, p) /\ p # "extract"
    BY <1>3 DEF Load, Leave, Places
  <2>2. mem' = [mem EXCEPT ![s] = run] /\ UNCHANGED <<run, listed, job>>
    BY <1>3 DEF Load
  <2>3. pc' \in [Scanners -> Places] /\ InBounds'
    BY <1>1, <2>1, <2>2, Moves
  <2>. QED
    BY <1>1, <1>2, <2>2, <2>3 DEF TypeOK, Places, RowOK
<1>4. CASE Mark(s)
  <2>1. GoTo(s, "scan") /\ UNCHANGED <<listed, job>>
    BY <1>4 DEF Mark
  <2>2. mem' = [mem EXCEPT ![s] = Resumed(s, mem[s])] /\ mem' \in [Scanners -> RunRow]
    BY <1>1, <1>4, RunMoves DEF Mark
  <2>3. run' \in RunRow
    BY <1>1, <1>4, RunMoves DEF Mark
  <2>4. pc' \in [Scanners -> Places] /\ InBounds'
    BY <1>1, <2>1, <2>2, Moves DEF Places
  <2>. QED
    BY <1>2, <2>1, <2>2, <2>3, <2>4 DEF TypeOK, Places, RowOK
<1>5. CASE Checkpoint(s)
  <2>1. UNCHANGED <<run, listed, mem>>
    BY <1>5 DEF Checkpoint
  <2>2. MoreToScan(s) /\ (GoTo(s, "extract") \/ GoTo(s, "idle"))
    BY <1>5 DEF Checkpoint
  <2>3. pc' \in [Scanners -> Places] /\ InBounds'
    BY <2>1, <2>2 DEF TypeOK, InBounds, GoTo, MoreToScan, Places
  <2>4. job' = job \/ (s \in Workers /\ job' = Heartbeat(job))
    BY <1>5 DEF Checkpoint
  <2>5. RowOK(job')
    BY <2>4, RowMoves
  <2>. QED
    BY <1>2, <2>1, <2>3, <2>5 DEF TypeOK, Places, RowOK
<1>6. CASE Extract(s)
  <2>. DEFINE t == mem[s].processed + 1
  <2>1. GoTo(s, "scan") /\ UNCHANGED job
    BY <1>6 DEF Extract
  <2>2. t \in Tickers /\ t \in 0 .. Universe
    BY <1>1, <1>6 DEF Extract, InBounds, MoreToScan, Tickers, RunRow
  <2>3. PICK candidate \in BOOLEAN, error \in BOOLEAN :
          /\ listed' = IF candidate THEN listed \cup {t} ELSE listed
          /\ mem' = [mem EXCEPT ![s].processed = t,
                                ![s].errors = IF error THEN @ + 1 ELSE @]
          /\ run' = [run EXCEPT !.processed = t,
                                !.errors = IF error THEN mem[s].errors + 1 ELSE @]
    BY <1>6 DEF Extract
  <2>4. listed' \in SUBSET Tickers
    BY <2>2, <2>3 DEF TypeOK
  <2>5. mem' \in [Scanners -> RunRow] /\ \A q \in Scanners \ {s} : mem'[q] = mem[q]
    <3>. DEFINE e == IF error THEN mem[s].errors + 1 ELSE mem[s].errors
                m == [mem[s] EXCEPT !.processed = t, !.errors = e]
    <3>1. mem' = [mem EXCEPT ![s] = m]
      BY <1>1, <2>3
    <3>2. e \in Nat
      BY <1>1 DEF RunRow
    <3>3. m \in RunRow
      <4>. HIDE DEF e, t
      <4>. QED
        BY <1>1, <2>2, <3>2 DEF RunRow
    <3>. QED
      BY <1>1, <3>1, <3>3
  <2>6. run' \in RunRow
    <3>1. mem[s].errors + 1 \in Nat
      BY <1>1 DEF RunRow
    <3>. HIDE DEF t
    <3>. QED
      BY <1>1, <2>2, <2>3, <3>1 DEF RunRow
  <2>7. pc' \in [Scanners -> Places] /\ InBounds'
    BY <2>1, <2>5, Moves DEF Places
  <2>. QED
    BY <1>2, <2>1, <2>4, <2>5, <2>6, <2>7 DEF TypeOK, Places, RowOK
<1>7. CASE Collide(s)
  <2>1. UNCHANGED <<listed, mem>>
    BY <1>7 DEF Collide
  <2>2. run' \in RunRow
    BY <1>1, <1>7, FinishRunTypes DEF Collide
  <2>3. job' = job \/ (s \in Workers /\ job' = Fail(job, FALSE))
    BY <1>7 DEF Collide, Scanners
  <2>4. RowOK(job')
    BY <2>3, RowMoves
  <2>5. \E p \in Places : GoTo(s, p) /\ p # "extract"
    BY <1>7 DEF Collide, Places
  <2>6. pc' \in [Scanners -> Places] /\ InBounds'
    BY <2>1, <2>5, Moves
  <2>. QED
    BY <1>2, <2>1, <2>2, <2>4, <2>6 DEF TypeOK, Places, RowOK
<1>8. CASE Finish(s)
  <2>1. UNCHANGED <<listed, job>> /\ mem' = [mem EXCEPT ![s] = run']
    BY <1>8 DEF Finish
  <2>2. run' \in RunRow
    <3>1. PICK warned \in BOOLEAN : run' = [run EXCEPT !.status = Verdict(mem[s], warned)]
      BY <1>8 DEF Finish
    <3>. QED
      BY <1>1, <3>1, RunMoves
  <2>3. mem' \in [Scanners -> RunRow] /\ \A q \in Scanners \ {s} : mem'[q] = mem[q]
    BY <1>1, <2>1, <2>2
  <2>4. \E p \in Places : GoTo(s, p) /\ p # "extract"
    BY <1>8 DEF Finish, Leave, Places
  <2>5. pc' \in [Scanners -> Places] /\ InBounds'
    BY <2>3, <2>4, Moves
  <2>. QED
    BY <1>2, <2>1, <2>2, <2>3, <2>5 DEF TypeOK, Places, RowOK
<1>. QED
  BY <1>3, <1>4, <1>5, <1>6, <1>7, <1>8 DEF ProcessRun

LEMMA EndTypes ==
  ASSUME TypeInv,
         \/ TaskFails
         \/ \E w \in Workers :
              \/ CompleteJob(w) \/ HandlerRaises(w) \/ Notify(w)
              \/ NotificationLost(w) \/ Sweep(w) \/ Crash(w)
  PROVE  TypeInv'
<1>1. pc' \in [Scanners -> Places] /\ InBounds'
  <2>1. UNCHANGED mem
    BY DEF CompleteJob, HandlerRaises, Notify, NotificationLost, Sweep, Crash, TaskFails
  <2>2. \/ UNCHANGED pc
        \/ \E s \in Scanners, p \in Places : GoTo(s, p) /\ p # "extract"
    BY DEF CompleteJob, HandlerRaises, Notify, NotificationLost, Sweep, Crash,
           TaskFails, Scanners, Places
  <2>. QED
    BY <2>1, <2>2, Stays, Moves
<1>2. faults' \in 0 .. MaxFaults
  BY DEF TypeInv, TypeOK, CompleteJob, HandlerRaises, Notify, NotificationLost, Sweep,
         Crash, TaskFails, Fault
<1>3. run' \in RunRow
  BY FinishRunTypes DEF TypeInv, TypeOK, CompleteJob, HandlerRaises, Notify,
         NotificationLost, Sweep, Crash, TaskFails
<1>4. RowOK(job')
  <2>1. \/ job' = job
        \/ \E b \in BOOLEAN : job' = Complete(job, b) \/ job' = Fail(job, b)
    BY DEF CompleteJob, HandlerRaises, Notify, NotificationLost, Sweep, Crash, TaskFails
  <2>. QED
    BY <2>1, RowMoves DEF TypeInv
<1>5. UNCHANGED <<listed, queued, api, mem, stalls>>
  BY DEF CompleteJob, HandlerRaises, Notify, NotificationLost, Sweep, Crash, TaskFails
<1>. QED
  BY <1>1, <1>2, <1>3, <1>4, <1>5 DEF TypeInv, TypeOK, Places, RowOK

LEMMA NextTypeInv == TypeInv /\ [Next]_vars => TypeInv'
<1>. SUFFICES ASSUME TypeInv, [Next]_vars PROVE TypeInv'
  OBVIOUS
<1>1. CASE UNCHANGED vars
  BY <1>1 DEF vars, TypeInv, TypeOK, RowOK, InBounds, MoreToScan
<1>. QED
  BY <1>1, RequestTypes, JobTypes, ProcessTypes, EndTypes
     DEF Next, Work, Scanners

LEMMA TypeInvariant == Spec => []TypeInv
  BY InitTypeInv, NextTypeInv, PTL DEF Spec

\* The types hold, and no scan passes the end of the universe, wherever it was
\* resumed (process_run).
THEOREM TypeCorrect == Spec => []TypeOK
  BY TypeInvariant, PTL DEF TypeInv

---------------------------------------------------------------------------
(* A completed run lists every ticker *)

\* Counters are only as good as the errors they admit: a row or a copy that
\* counts no error has listed what it counts as processed.  The row's errors
\* are never written back to none, so a copy's errors show in the row.
CountInv ==
  /\ \A s \in Scanners : mem[s].errors > 0 => run.errors > 0
  /\ \A s \in Scanners : mem[s].errors = 0 => 1 .. mem[s].processed \subseteq listed
  /\ run.errors = 0 => 1 .. run.processed \subseteq listed
  /\ CompletedRunListsEveryTicker

LEMMA InitCountInv == Init => CountInv
  BY DEF Init, CountInv, NewRun, CompletedRunListsEveryTicker

\* Steps that write no counter and complete nothing.
LEMMA CountsKept ==
  ASSUME TypeInv, CountInv, UNCHANGED <<mem, listed>>,
         run' = run \/ run' = [run EXCEPT !.status = "running"] \/ FinishRun
  PROVE  CountInv'
<1>1. /\ run'.errors = run.errors /\ run'.processed = run.processed
      /\ run'.status = "completed" => run.status = "completed"
  BY DEF FinishRun, TypeInv, TypeOK, RunRow
<1>. QED
  BY <1>1 DEF CountInv, CompletedRunListsEveryTicker

LEMMA ProcessCounts ==
  ASSUME TypeInv, CountInv, NEW s \in Scanners, ProcessRun(s)
  PROVE  CountInv'
<1>1. run \in RunRow /\ mem \in [Scanners -> RunRow] /\ mem[s] \in RunRow
  BY DEF TypeInv, TypeOK
<1>2. CASE Load(s)
  BY <1>1, <1>2 DEF Load, CountInv, CompletedRunListsEveryTicker
<1>3. CASE Mark(s)
  <2>1. mem' = [mem EXCEPT ![s] = Resumed(s, mem[s])] /\ listed' = listed
    BY <1>3 DEF Mark
  <2>2. \/ mem'[s].errors = mem[s].errors /\ mem'[s].processed = mem[s].processed
        \/ mem'[s].errors = 0 /\ mem'[s].processed = 0
    BY <1>1, <2>1 DEF Resumed, NewRun, RunRow
  <2>3. /\ run'.errors = run.errors /\ run'.processed = run.processed
        /\ run'.status = "completed" => run.status = "completed"
    BY <1>1, <1>3 DEF Mark, RunRow
  <2>4. \A q \in Scanners \ {s} : mem'[q] = mem[q]
    BY <1>1, <2>1
  <2>. QED
    BY <2>1, <2>2, <2>3, <2>4 DEF CountInv, CompletedRunListsEveryTicker
<1>4. CASE Checkpoint(s)
  BY <1>4, CountsKept DEF Checkpoint
<1>5. CASE Extract(s)
  <2>. DEFINE t == mem[s].processed + 1
  <2>1. PICK candidate \in BOOLEAN, error \in BOOLEAN :
          /\ candidate \/ error
          /\ listed' = IF candidate THEN listed \cup {t} ELSE listed
          /\ mem' = [mem EXCEPT ![s].processed = t,
                                ![s].errors = IF error THEN @ + 1 ELSE @]
          /\ run' = [run EXCEPT !.processed = t,
                                !.errors = IF error THEN mem[s].errors + 1 ELSE @]
    BY <1>5 DEF Extract
  <2>2. /\ mem'[s].processed = t
        /\ mem'[s].errors = IF error THEN mem[s].errors + 1 ELSE mem[s].errors
        /\ \A q \in Scanners \ {s} : mem'[q] = mem[q]
    BY <1>1, <2>1 DEF RunRow
  <2>3. /\ run'.processed = t /\ run'.status = run.status
        /\ run'.errors = IF error THEN mem[s].errors + 1 ELSE run.errors
    BY <1>1, <2>1 DEF RunRow
  <2>4. listed \subseteq listed' /\ listed' \subseteq Tickers
    <3>1. TypeInv'
      BY ProcessTypes
    <3>. QED
      BY <2>1, <3>1 DEF TypeInv, TypeOK
  <2>5. mem[s].errors \in Nat /\ run.errors \in Nat /\ mem[s].processed \in Nat
    BY <1>1 DEF RunRow
  <2>6. CompletedRunListsEveryTicker'
    BY <2>3, <2>4 DEF CountInv, CompletedRunListsEveryTicker
  <2>7. CASE error
    <3>1. mem'[s].errors > 0 /\ run'.errors > 0
      BY <2>2, <2>3, <2>5, <2>7
    <3>. QED
      BY <2>2, <2>4, <2>6, <3>1 DEF CountInv
  <2>8. CASE ~error
    <3>1. mem'[s].errors = mem[s].errors /\ run'.errors = run.errors
      BY <2>2, <2>3, <2>8
    <3>2. mem[s].errors = 0 => 1 .. t \subseteq listed'
      <4>1. listed' = listed \cup {t} /\ 1 .. t = (1 .. mem[s].processed) \cup {t}
        BY <2>1, <2>5, <2>8
      <4>. QED
        BY <4>1 DEF CountInv
    <3>3. run'.errors = 0 => mem[s].errors = 0
      BY <2>5, <3>1 DEF CountInv
    <3>. QED
      BY <2>2, <2>3, <2>4, <2>6, <3>1, <3>2, <3>3 DEF CountInv
  <2>. QED
    BY <2>7, <2>8
<1>6. CASE Collide(s)
  BY <1>6, CountsKept DEF Collide
<1>7. CASE Finish(s)
  <2>1. PICK warned \in BOOLEAN : run' = [run EXCEPT !.status = Verdict(mem[s], warned)]
    BY <1>7 DEF Finish
  <2>2. mem' = [mem EXCEPT ![s] = run'] /\ listed' = listed
    BY <1>7 DEF Finish
  <2>3. /\ run'.errors = run.errors /\ run'.processed = run.processed
        /\ run'.status = Verdict(mem[s], warned)
    BY <1>1, <2>1 DEF RunRow
  <2>4. run'.status = "completed" => mem[s].errors = 0 /\ mem[s].processed = Universe
    BY <1>1, <1>7, <2>3 DEF Verdict, RunRow, Finish, MoreToScan
  <2>5. run'.status = "completed" => listed' = Tickers
    BY <2>2, <2>4 DEF CountInv, Tickers, TypeInv, TypeOK
  <2>6. mem'[s] = run' /\ \A q \in Scanners \ {s} : mem'[q] = mem[q]
    BY <1>1, <2>2
  <2>. QED
    BY <2>2, <2>3, <2>5, <2>6 DEF CountInv, CompletedRunListsEveryTicker
<1>. QED
  BY <1>2, <1>3, <1>4, <1>5, <1>6, <1>7 DEF ProcessRun

LEMMA NextCountInv == TypeInv /\ CountInv /\ [Next]_vars => CountInv'
<1>. SUFFICES ASSUME TypeInv, CountInv, [Next]_vars PROVE CountInv'
  OBVIOUS
<1>1. CASE \E s \in Scanners : ProcessRun(s)
  BY <1>1, ProcessCounts
<1>2. CASE ~\E s \in Scanners : ProcessRun(s)
  <2>1. UNCHANGED <<mem, listed>> /\ (run' = run \/ FinishRun)
    BY <1>2 DEF Next, Work, Scanners, vars, Schedule, EnqueueRaises, FallBack,
                RequestDies, BackoffElapses, LeaseLapses, ClaimJob, Retire, Beat,
                CompleteJob, HandlerRaises, Notify, NotificationLost, Sweep, Crash, TaskFails
  <2>. QED
    BY <2>1, CountsKept
<1>. QED
  BY <1>1, <1>2

\* A run that says it completed has a candidate for every ticker of its
\* universe, however often and by however many scanners it was scanned
\* (process_run).
THEOREM CompletedRunsAreComplete == Spec => []CompletedRunListsEveryTicker
<1>1. Spec => []CountInv
  BY InitCountInv, NextCountInv, TypeInvariant, PTL DEF Spec
<1>. QED
  BY <1>1, PTL DEF CountInv

---------------------------------------------------------------------------
(* One scanner at a time *)

\* The job is w's and its lease is live.
Held(w) == job.owner = w /\ job.status = "running" /\ job.lease = "live"

\* Who is at work.  A request starts the task last; before the job is
\* committed no worker has moved, and an outcome is announced once it is final.
\* As long as scanners are exclusive, a worker at work holds the job.
WorkInv ==
  /\ api # "answered" => pc[Task] = "idle"
  /\ api = "created" => ~queued
  /\ pc[Task] \in {"idle", "load", "mark", "scan", "extract", "gone"}
  /\ ~queued => \A w \in Workers : pc[w] \in {"idle", "dead"}
  /\ \A w \in Workers : pc[w] = "notify" => job.status \in Terminal
  /\ Exclusive => \A w \in Workers : AtWork(w) => Held(w)

\* The cursor.  The committed counter is the copy's, nothing beyond it is
\* listed, and a scanner that may write has seen the run open.
Cursor ==
  /\ listed \subseteq 1 .. run.processed
  /\ pc[Task] \in {"load", "mark"} => run.processed = 0
  /\ \A s \in Scanners :
       /\ pc[s] = "mark" => mem[s] = run /\ ~RunEnded(run)
       /\ pc[s] \in {"scan", "extract"} =>
            mem[s].processed = run.processed /\ run.status = "running"

CursorInv ==
  /\ ~queued /\ pc[Task] = "idle" => run = NewRun
  /\ Exclusive => Cursor

LEMMA InitWorkInv == Init => WorkInv /\ CursorInv
  BY DEF Init, WorkInv, CursorInv, Cursor, Scanners, AtWork, NewRun

\* Neither the job nor the task, once started, nor a stall is ever undone.
LEMMA Monotone ==
  ASSUME TypeInv, WorkInv, [Next]_vars
  PROVE  /\ stalls' \in {stalls, stalls + 1}
         /\ queued => queued'
         /\ pc[Task] # "idle" => pc'[Task] # "idle"
<1>. USE DEF TypeInv, TypeOK
<1>1. stalls' \in {stalls, stalls + 1}
  BY DEF Next, Work, ProcessRun, vars, Schedule, EnqueueRaises, FallBack, RequestDies,
         BackoffElapses, LeaseLapses, ClaimJob, Retire, Beat, Load, Mark, Checkpoint,
         Extract, Collide, Finish, CompleteJob, HandlerRaises, Notify,
         NotificationLost, Sweep, Crash, TaskFails
<1>2. queued => queued'
  BY DEF WorkInv, Next, Work, ProcessRun, vars, Schedule, EnqueueRaises, FallBack, RequestDies,
         BackoffElapses, LeaseLapses, ClaimJob, Retire, Beat, Load, Mark, Checkpoint,
         Extract, Collide, Finish, CompleteJob, HandlerRaises, Notify,
         NotificationLost, Sweep, Crash, TaskFails
<1>3. pc[Task] # "idle" => pc'[Task] # "idle"
  <2>1. CASE ProcessRun(Task)
    BY <2>1 DEF ProcessRun, Load, Mark, Checkpoint, Extract, Collide, Finish, Leave,
                GoTo, Scanners
  <2>2. CASE TaskFails \/ Schedule \/ EnqueueRaises \/ FallBack \/ RequestDies
    BY <2>2 DEF TaskFails, Schedule, EnqueueRaises, FallBack, RequestDies, StartTask,
                GoTo, Scanners
  <2>3. CASE \E w \in Workers : \/ Work(w) \/ Beat(w) \/ Sweep(w) \/ HandlerRaises(w)
                                \/ NotificationLost(w) \/ Crash(w)
    <3>1. UNCHANGED pc \/ \E w \in Workers, p \in Places : GoTo(w, p)
      BY <2>3 DEF Work, ProcessRun, ClaimJob, Retire, Beat, Load, Mark, Checkpoint,
                  Extract, Collide, Finish, Leave, CompleteJob, HandlerRaises, Notify,
                  NotificationLost, Sweep, Crash, Places
    <3>. QED
      BY <3>1 DEF GoTo, Scanners
  <2>4. CASE BackoffElapses \/ LeaseLapses \/ UNCHANGED vars
    BY <2>4 DEF BackoffElapses, LeaseLapses, vars
  <2>. QED
    BY <2>1, <2>2, <2>3, <2>4 DEF Next
<1>. QED
  BY <1>1, <1>2, <1>3

LEMMA ExclusiveBefore ==
  ASSUME TypeInv, WorkInv, [Next]_vars, Exclusive' PROVE Exclusive
  BY Monotone DEF Exclusive, TypeInv, TypeOK

\* A worker that holds the job is alone with it: nobody else can be at work,
\* claim it, retire it or find it ended.
LEMMA HeldAlone ==
  ASSUME TypeInv, WorkInv, Exclusive, NEW w \in Workers, AtWork(w)
  PROVE  /\ queued /\ pc[Task] = "idle"
         /\ \A v \in Workers : AtWork(v) => v = w
         /\ ~IsClaimable(job) /\ ~IsAbandoned(job) /\ job.status \notin Terminal
         /\ MayHeartbeat(job, w)
  BY DEF TypeInv, TypeOK, WorkInv, Held, AtWork, Exclusive, Terminal, HasResult,
         IsClaimable, IsAbandoned, LeaseExpired, MayHeartbeat

\* Only a running job has an owner.
LEMMA OwnedRuns ==
  ASSUME TypeInv, NEW w \in Workers, Owns(w) PROVE job.status = "running"
  BY DEF TypeInv, RowOK, Owns

LEMMA RequestWork ==
  ASSUME TypeInv, WorkInv, Schedule \/ EnqueueRaises \/ FallBack \/ RequestDies,
         Exclusive' => Exclusive
  PROVE  WorkInv'
<1>1. UNCHANGED job /\ \A w \in Workers : pc'[w] = pc[w]
  BY DEF TypeInv, TypeOK, Schedule, EnqueueRaises, FallBack, RequestDies, StartTask,
         GoTo, Scanners
<1>2. /\ api' \in {"answered", "failed"}
      /\ pc'[Task] \in {pc[Task], "load"}
      /\ api' # "answered" => pc'[Task] = pc[Task] /\ api # "answered"
      /\ queued => queued'
  BY DEF WorkInv, TypeInv, TypeOK, Schedule, EnqueueRaises, FallBack, RequestDies, StartTask,
         GoTo, Scanners
<1>. QED
  BY <1>1, <1>2 DEF WorkInv, Held, AtWork

LEMMA JobWork ==
  ASSUME TypeInv, WorkInv, Exclusive' => Exclusive,
         \/ BackoffElapses \/ LeaseLapses
         \/ \E w \in Workers : ClaimJob(w) \/ Retire(w) \/ Beat(w)
  PROVE  WorkInv'
<1>1. UNCHANGED <<api, queued>> /\ pc'[Task] = pc[Task]
  BY DEF BackoffElapses, LeaseLapses, ClaimJob, Retire, Beat, GoTo, TypeInv, TypeOK, Scanners
<1>2. ASSUME BackoffElapses PROVE WorkInv'
  BY <1>1, <1>2 DEF BackoffElapses, WorkInv, Held, AtWork, TypeInv, TypeOK, JobRow
<1>3. ASSUME LeaseLapses PROVE WorkInv'
  <2>1. Exclusive' => ~OwnerAtWork
    BY <1>3 DEF LeaseLapses, Exclusive, TypeInv, TypeOK
  <2>2. Exclusive' => \A w \in Workers : ~AtWork(w)
    BY <2>1 DEF WorkInv, Held, OwnerAtWork
  <2>. QED
    BY <1>1, <1>3, <2>2 DEF LeaseLapses, WorkInv, AtWork, TypeInv, TypeOK, JobRow
<1>4. ASSUME NEW w \in Workers, ClaimJob(w) PROVE WorkInv'
  <2>1. /\ job' = Claim(job, w) /\ IsClaimable(job) /\ queued
        /\ pc' = [pc EXCEPT ![w] = "load"]
    BY <1>4 DEF ClaimJob, GoTo
  <2>2. Held(w)' /\ \A v \in Workers \ {w} : pc'[v] = pc[v]
    BY <2>1 DEF Claim, Held, TypeInv, TypeOK, JobRow, Scanners
  <2>3. \A v \in Workers : pc[v] # "notify"
    BY <2>1 DEF WorkInv, IsClaimable
  <2>4. pc'[w] = "load"
    BY <2>1 DEF TypeInv, TypeOK, Scanners
  <2>5. Exclusive' => \A v \in Workers \ {w} : ~AtWork(v)'
    BY <2>1, <2>2, HeldAlone DEF AtWork
  <2>. QED
    BY <1>1, <2>1, <2>2, <2>3, <2>4, <2>5 DEF WorkInv
<1>5. ASSUME NEW w \in Workers, Retire(w) PROVE WorkInv'
  <2>1. job'.status \in Terminal /\ UNCHANGED pc
    BY <1>5 DEF Retire, Abandon, Released, Terminal, HasResult, TypeInv, TypeOK, JobRow
  <2>2. Exclusive' => \A v \in Workers : ~AtWork(v)
    BY <1>5, HeldAlone DEF Retire
  <2>. QED
    BY <1>1, <2>1, <2>2 DEF WorkInv, AtWork
<1>6. ASSUME NEW w \in Workers, Beat(w) PROVE WorkInv'
  BY <1>1, <1>6 DEF Beat, Heartbeat, MayHeartbeat, WorkInv, Held, AtWork, TypeInv,
                    TypeOK, JobRow, Terminal, HasResult
<1>. QED
  BY <1>2, <1>3, <1>4, <1>5, <1>6

LEMMA TaskWork ==
  ASSUME TypeInv, WorkInv, Exclusive' => Exclusive, ProcessRun(Task) \/ TaskFails
  PROVE  WorkInv'
<1>1. UNCHANGED <<api, queued, job>> /\ pc[Task] \notin {"idle", "gone"}
  BY DEF ProcessRun, Load, Mark, Checkpoint, Extract, Collide, Finish, TaskFails,
         TypeInv, TypeOK, DiscoveryAssumption
<1>2. pc'[Task] \in {"mark", "scan", "extract", "gone"} /\ \A w \in Workers : pc'[w] = pc[w]
  BY DEF ProcessRun, Load, Mark, Checkpoint, Extract, Collide, Finish, Leave, TaskFails,
         GoTo, TypeInv, TypeOK, Scanners
<1>. QED
  BY <1>1, <1>2 DEF WorkInv, Held, AtWork

LEMMA WorkerWork ==
  ASSUME TypeInv, WorkInv, Exclusive' => Exclusive, NEW w \in Workers,
         \/ ProcessRun(w) \/ CompleteJob(w) \/ HandlerRaises(w) \/ Notify(w)
         \/ NotificationLost(w) \/ Sweep(w) \/ Crash(w)
  PROVE  WorkInv'
<1>1. UNCHANGED <<api, queued>> /\ pc'[Task] = pc[Task]
      /\ \A v \in Workers \ {w} : pc'[v] = pc[v]
  BY DEF ProcessRun, Load, Mark, Checkpoint, Extract, Collide, Finish, Leave, CompleteJob,
         HandlerRaises, Notify, NotificationLost, Sweep, Crash, GoTo, TypeInv, TypeOK, Scanners
<1>2. ~queued => pc'[w] \in {"idle", "dead"}
  BY DEF WorkInv, AtWork, ProcessRun, Load, Mark, Checkpoint, Extract, Collide, Finish,
         CompleteJob, HandlerRaises, Notify, NotificationLost, Sweep, Crash, GoTo, TypeInv,
         TypeOK, Scanners
<1>3. CASE UNCHANGED job /\ (AtWork(w)' => AtWork(w)) /\ (pc'[w] = "notify" => pc[w] = "notify")
  BY <1>1, <1>2, <1>3 DEF WorkInv, AtWork, Held
<1>4. CASE Checkpoint(w) /\ MayHeartbeat(job, w) /\ job' = Heartbeat(job)
  <2>1. AtWork(w) /\ pc'[w] # "notify"
    BY <1>4 DEF Checkpoint, AtWork, GoTo, TypeInv, TypeOK, Scanners
  <2>2. Exclusive' => Held(w)' /\ \A v \in Workers \ {w} : ~AtWork(v)'
    BY <1>1, <1>4, <2>1, HeldAlone DEF AtWork, Held, Heartbeat, MayHeartbeat, TypeInv,
                                       TypeOK, JobRow
  <2>3. job.status = "running"
    BY <1>4 DEF MayHeartbeat
  <2>. QED
    BY <1>1, <1>2, <2>1, <2>2, <2>3 DEF WorkInv, Terminal, HasResult
<1>5. CASE \E b \in BOOLEAN :
             /\ AtWork(w) /\ Owns(w) /\ ~AtWork(w)'
             /\ \/ job' = Complete(job, b) /\ pc'[w] # "notify"
                \/ job' = Fail(job, b) /\ (pc'[w] = "notify" => ~WillRetry(job, b))
  <2>1. job.status = "running"
    BY <1>5, OwnedRuns
  <2>2. \A v \in Workers : pc[v] # "notify"
    BY <2>1 DEF WorkInv, Terminal, HasResult
  <2>3. pc'[w] = "notify" => job'.status \in Terminal
    BY <1>5 DEF Fail, Released, Terminal, HasResult, TypeInv, TypeOK, JobRow
  <2>4. Exclusive' => \A v \in Workers : ~AtWork(v)'
    BY <1>1, <1>5, HeldAlone DEF AtWork
  <2>. QED
    BY <1>1, <1>2, <2>2, <2>3, <2>4 DEF WorkInv
<1>6. \/ UNCHANGED job /\ (AtWork(w)' => AtWork(w)) /\ (pc'[w] = "notify" => pc[w] = "notify")
      \/ Checkpoint(w) /\ MayHeartbeat(job, w) /\ job' = Heartbeat(job)
      \/ \E b \in BOOLEAN :
           /\ AtWork(w) /\ Owns(w) /\ ~AtWork(w)'
           /\ \/ job' = Complete(job, b) /\ pc'[w] # "notify"
              \/ job' = Fail(job, b) /\ (pc'[w] = "notify" => ~WillRetry(job, b))
  <2>. USE DEF AtWork, GoTo, TypeInv, TypeOK, Scanners
  <2>1. w # Task
    BY DEF DiscoveryAssumption
  <2>2. CASE Load(w) \/ Mark(w) \/ Extract(w) \/ Finish(w)
    BY <2>1, <2>2 DEF Load, Mark, Extract, Finish, Leave
  <2>3. CASE Checkpoint(w)
    BY <2>1, <2>3 DEF Checkpoint
  <2>4. CASE Collide(w)
    BY <2>1, <2>4 DEF Collide, WillRetry
  <2>5. CASE CompleteJob(w)
    BY <2>5 DEF CompleteJob
  <2>6. CASE HandlerRaises(w)
    BY <2>6 DEF HandlerRaises
  <2>7. CASE Notify(w) \/ NotificationLost(w) \/ Sweep(w) \/ Crash(w)
    BY <2>7 DEF Notify, NotificationLost, Sweep, Crash
  <2>. QED
    BY <2>2, <2>3, <2>4, <2>5, <2>6, <2>7 DEF ProcessRun
<1>. QED
  BY <1>3, <1>4, <1>5, <1>6

LEMMA NextWorkInv == TypeInv /\ WorkInv /\ [Next]_vars => WorkInv'
<1>. SUFFICES ASSUME TypeInv, WorkInv, [Next]_vars PROVE WorkInv'
  OBVIOUS
<1>1. Exclusive' => Exclusive
  BY ExclusiveBefore
<1>2. CASE UNCHANGED vars
  BY <1>2 DEF vars, WorkInv, Held, AtWork, Exclusive
<1>. QED
  BY <1>1, <1>2, RequestWork, JobWork, TaskWork, WorkerWork DEF Next, Work

---------------------------------------------------------------------------
(* The cursor *)

Writing(s) == pc[s] \in {"mark", "scan", "extract"}

\* An exclusive scanner is the only one.
LEMMA ScansAlone ==
  ASSUME TypeInv, WorkInv, Exclusive, NEW s \in Scanners,
         pc[s] \in {"load", "mark", "scan", "extract"}
  PROVE  \A q \in Scanners \ {s} : ~AtWork(q)
<1>1. CASE s = Task
  BY <1>1 DEF WorkInv, Exclusive, AtWork, Scanners
<1>2. CASE s \in Workers
  BY <1>2, HeldAlone DEF AtWork, Scanners
<1>. QED
  BY <1>1, <1>2 DEF Scanners

\* Once the job has ended nobody scans.
LEMMA NobodyScans ==
  ASSUME TypeInv, WorkInv, Exclusive, queued, job.status \in Terminal
  PROVE  \A q \in Scanners : ~Writing(q) /\ pc[q] # "load"
  BY HeldAlone DEF Exclusive, AtWork, Scanners, Writing

\* Before anyone was asked to scan, nobody touches the run.
LEMMA UntouchedBefore ==
  ASSUME TypeInv, WorkInv, ~queued, pc[Task] = "idle", [Next]_vars
  PROVE  UNCHANGED <<run, listed>>
<1>1. \A s \in Scanners : pc[s] \in {"idle", "dead"}
  BY DEF WorkInv, Scanners
<1>. QED
  BY <1>1 DEF Next, Work, ProcessRun, vars, Schedule, EnqueueRaises, FallBack, RequestDies,
         BackoffElapses, LeaseLapses, ClaimJob, Retire, Beat, Load, Mark, Checkpoint,
         Extract, Collide, Finish, CompleteJob, HandlerRaises, Notify,
         NotificationLost, Sweep, Crash, TaskFails, AtWork, Scanners

\* Steps that neither write the run nor bring a scanner to write it.
LEMMA QuietCursor ==
  ASSUME Cursor, UNCHANGED <<run, listed, mem>>,
         \A s \in Scanners : Writing(s)' => pc'[s] = pc[s],
         pc'[Task] = "load" => run.processed = 0
  PROVE  Cursor'
<1>1. pc'[Task] \in {"load", "mark"} => run.processed = 0
  BY DEF Cursor, Writing, Scanners
<1>. QED
  BY <1>1 DEF Cursor, Writing

LEMMA ScanCursor ==
  ASSUME TypeInv, WorkInv, Exclusive, Cursor, NEW s \in Scanners, ProcessRun(s)
  PROVE  Cursor'
<1>1. run \in RunRow /\ mem \in [Scanners -> RunRow] /\ mem[s] \in RunRow
  BY DEF TypeInv, TypeOK
<1>2. /\ \A q \in Scanners \ {s} : ~AtWork(q) /\ pc'[q] = pc[q]
      /\ pc'[Task] # "load"
  <2>1. pc[s] \in {"load", "mark", "scan", "extract"}
    BY DEF ProcessRun, Load, Mark, Checkpoint, Extract, Collide, Finish
  <2>2. \E p \in Places \ {"load"} : pc' = [pc EXCEPT ![s] = p]
    BY DEF ProcessRun, Load, Mark, Checkpoint, Extract, Collide, Finish, Leave, GoTo, Places
  <2>. QED
    BY <2>1, <2>2, ScansAlone DEF TypeInv, TypeOK, Scanners, AtWork
<1>3. \A q \in Scanners : Writing(q)' => q = s
  BY <1>2 DEF Writing, AtWork
<1>4. CASE Load(s)
  <2>1. UNCHANGED <<run, listed>> /\ mem'[s] = run
    BY <1>1, <1>4 DEF Load
  <2>2. pc[s] = "load" /\ (Writing(s)' => pc'[s] = "mark" /\ ~RunEnded(run))
    BY <1>4 DEF Load, Leave, MayProcess, GoTo, Writing, TypeInv, TypeOK
  <2>3. pc'[Task] = "mark" => run.processed = 0
    BY <1>2, <2>2 DEF Cursor, AtWork, Scanners
  <2>. QED
    BY <1>2, <1>3, <2>1, <2>2, <2>3 DEF Cursor, Writing, RunEnded
<1>5. CASE Mark(s)
  <2>1. mem[s] = run /\ listed' = listed /\ pc'[s] = "scan"
    BY <1>5 DEF Mark, Cursor, GoTo, TypeInv, TypeOK
  <2>2. run'.processed = run.processed /\ run'.status = "running"
    BY <1>1, <1>5, <2>1 DEF Mark, RunRow
  <2>3. mem'[s].processed = run.processed
    <3>1. mem'[s] = Resumed(s, run)
      BY <1>1, <1>5, <2>1 DEF Mark
    <3>2. s \notin Workers => run.processed = 0
      BY <1>5 DEF Mark, Cursor, Scanners
    <3>. QED
      BY <1>1, <3>1, <3>2 DEF Resumed, NewRun, RunRow
  <2>4. pc'[Task] \notin {"load", "mark"}
    BY <1>2, <1>3, <2>1 DEF Writing, Scanners
  <2>. QED
    BY <1>3, <2>1, <2>2, <2>3, <2>4 DEF Cursor, Writing
<1>6. CASE Checkpoint(s)
  <2>1. UNCHANGED <<run, listed, mem>> /\ pc[s] = "scan" /\ pc'[s] \in {"extract", "idle"}
    BY <1>6 DEF Checkpoint, GoTo, TypeInv, TypeOK
  <2>2. pc'[Task] \notin {"load", "mark"}
    BY <1>2, <1>3, <2>1 DEF Writing, Scanners
  <2>. QED
    BY <1>3, <2>1, <2>2 DEF Cursor, Writing
<1>7. CASE Extract(s)
  <2>. DEFINE t == mem[s].processed + 1
  <2>1. listed' \subseteq listed \cup {t} /\ run'.processed = t /\ run'.status = run.status
        /\ mem'[s].processed = t
    BY <1>1, <1>7 DEF Extract, RunRow
  <2>2. mem[s].processed = run.processed /\ run.status = "running" /\ pc'[s] = "scan"
    BY <1>7 DEF Extract, Cursor, GoTo, TypeInv, TypeOK
  <2>3. listed' \subseteq 1 .. t
    <3>1. mem[s].processed \in Nat /\ listed \subseteq 1 .. mem[s].processed
      BY <1>1, <2>2 DEF Cursor, RunRow
    <3>. QED
      BY <2>1, <3>1
  <2>4. pc'[Task] \notin {"load", "mark"}
    BY <1>2, <1>3, <2>2 DEF Writing, Scanners
  <2>. QED
    BY <1>3, <2>1, <2>2, <2>3, <2>4 DEF Cursor, Writing
<1>8. CASE Collide(s)
  <2>1. mem[s].processed = run.processed /\ mem[s].processed + 1 \in listed
    BY <1>8 DEF Collide, Cursor
  <2>. QED
    BY <1>1, <2>1 DEF Cursor, RunRow
<1>9. CASE Finish(s)
  <2>1. listed' = listed /\ pc'[s] \in {"gone", "return"}
    BY <1>9 DEF Finish, Leave, GoTo, TypeInv, TypeOK
  <2>2. run'.processed = run.processed
    BY <1>1, <1>9 DEF Finish, RunRow
  <2>3. \A q \in Scanners : ~Writing(q)'
    BY <1>3, <2>1 DEF Writing
  <2>4. pc'[Task] \notin {"load", "mark"}
    BY <1>2, <2>3 DEF Writing, Scanners
  <2>. QED
    BY <2>1, <2>2, <2>3, <2>4 DEF Cursor, Writing
<1>. QED
  BY <1>4, <1>5, <1>6, <1>7, <1>8, <1>9 DEF ProcessRun

\* Closing the run from outside happens when nobody scans it.
LEMMA ClosingCursor ==
  ASSUME TypeInv, WorkInv, Exclusive, Cursor,
         TaskFails \/ \E w \in Workers : Notify(w) \/ Sweep(w)
  PROVE  Cursor'
<1>1. run'.processed = run.processed /\ listed' = listed
  BY DEF TaskFails, Notify, Sweep, FinishRun, TypeInv, TypeOK, RunRow
<1>2. \A q \in Scanners : ~Writing(q)' /\ pc'[q] # "load"
  <2>1. CASE TaskFails
    <3>1. \A w \in Workers : pc[w] \in {"idle", "dead"}
      BY <2>1 DEF TaskFails, WorkInv, Exclusive
    <3>. QED
      BY <2>1, <3>1 DEF TaskFails, GoTo, Writing, TypeInv, TypeOK, Scanners
  <2>2. ASSUME NEW w \in Workers, Notify(w) \/ Sweep(w)
        PROVE  \A q \in Scanners : ~Writing(q)' /\ pc'[q] # "load"
    <3>1. queued /\ job.status \in Terminal
      BY <2>2 DEF Notify, Sweep, UnfinishedTerminal, WorkInv, Terminal, HasResult
    <3>2. \A q \in Scanners : pc'[q] = pc[q] \/ pc'[q] = "idle"
      BY <2>2 DEF Notify, Sweep, GoTo, TypeInv, TypeOK
    <3>. QED
      BY <3>1, <3>2, NobodyScans DEF Writing
  <2>. QED
    BY <2>1, <2>2
<1>. QED
  BY <1>1, <1>2 DEF Cursor, Writing, Scanners

LEMMA NextCursorInv == TypeInv /\ WorkInv /\ CursorInv /\ [Next]_vars => CursorInv'
<1>. SUFFICES ASSUME TypeInv, WorkInv, CursorInv, [Next]_vars PROVE CursorInv'
  OBVIOUS
<1>1. (~queued /\ pc[Task] = "idle" => run = NewRun)'
  BY Monotone, UntouchedBefore DEF CursorInv
<1>2. ASSUME Exclusive' PROVE Cursor'
  <2>1. Exclusive /\ Cursor
    BY <1>2, ExclusiveBefore DEF CursorInv
  <2>2. CASE \E s \in Scanners : ProcessRun(s)
    BY <2>1, <2>2, ScanCursor
  <2>3. CASE TaskFails \/ \E w \in Workers : Notify(w) \/ Sweep(w)
    BY <2>1, <2>3, ClosingCursor
  <2>4. CASE Schedule \/ EnqueueRaises \/ FallBack \/ RequestDies
    <3>1. UNCHANGED <<run, listed, mem>> /\ (UNCHANGED pc \/ GoTo(Task, "load"))
      BY <2>4 DEF Schedule, EnqueueRaises, FallBack, RequestDies, StartTask
    <3>2. pc'[Task] = "load" => run.processed = 0
      <4>1. CASE UNCHANGED pc
        BY <2>1, <4>1 DEF Cursor
      <4>2. CASE GoTo(Task, "load")
        <5>1. pc[Task] = "idle" /\ pc'[Task] = "load"
          BY <2>4, <4>2 DEF WorkInv, Schedule, EnqueueRaises, FallBack, RequestDies, GoTo,
                            TypeInv, TypeOK, Scanners
        <5>2. ~queued
          BY <1>2, <5>1, Monotone DEF Exclusive
        <5>. QED
          BY <5>1, <5>2 DEF CursorInv, NewRun
      <4>. QED
        BY <3>1, <4>1, <4>2
    <3>3. \A s \in Scanners : Writing(s)' => pc'[s] = pc[s]
      BY <3>1 DEF GoTo, Writing, TypeInv, TypeOK
    <3>. QED
      BY <2>1, <3>1, <3>2, <3>3, QuietCursor
  <2>5. CASE \/ BackoffElapses \/ LeaseLapses \/ UNCHANGED vars
             \/ \E w \in Workers : \/ ClaimJob(w) \/ Retire(w) \/ Beat(w) \/ CompleteJob(w)
                                   \/ HandlerRaises(w) \/ NotificationLost(w) \/ Crash(w)
    <3>1. UNCHANGED <<run, listed, mem>>
      BY <2>5 DEF BackoffElapses, LeaseLapses, vars, ClaimJob, Retire, Beat, CompleteJob,
                  HandlerRaises, NotificationLost, Crash
    <3>2. \/ UNCHANGED pc
          \/ \E w \in Workers, p \in {"load", "idle", "notify", "dead"} : GoTo(w, p)
      BY <2>5 DEF BackoffElapses, LeaseLapses, vars, ClaimJob, Retire, Beat, CompleteJob,
                  HandlerRaises, NotificationLost, Crash
    <3>3. pc'[Task] = pc[Task] /\ \A s \in Scanners : Writing(s)' => pc'[s] = pc[s]
      BY <3>2 DEF GoTo, Writing, TypeInv, TypeOK, Scanners
    <3>4. pc'[Task] = "load" => run.processed = 0
      BY <2>1, <3>3 DEF Cursor
    <3>. QED
      BY <2>1, <3>1, <3>3, <3>4, QuietCursor
  <2>. QED
    BY <2>2, <2>3, <2>4, <2>5 DEF Next, Work, Scanners
<1>. QED
  BY <1>1, <1>2 DEF CursorInv

LEMMA ScanInvariant == Spec => [](TypeInv /\ WorkInv /\ CursorInv)
  BY InitTypeInv, InitWorkInv, NextTypeInv, NextWorkInv, NextCursorInv, PTL DEF Spec

\* With exclusive scanners a retry never meets a ticker that is listed already,
\* whatever crashed before it (the resume of process_run).
THEOREM ExclusiveScansAreExact == Spec => []ExclusiveScansNeverCollide
<1>1. TypeInv /\ CursorInv => ExclusiveScansNeverCollide
  BY DEF TypeInv, TypeOK, CursorInv, Cursor, ExclusiveScansNeverCollide, RunRow
<1>. QED
  BY <1>1, ScanInvariant, PTL

\* With exclusive scanners no step touches a run that ended (process_run,
\* _finish_run).
THEOREM EndedRunsStay == Spec => EndedRunIsLeftAlone
<1>1. TypeInv /\ CursorInv /\ [Next]_vars =>
        [Exclusive /\ RunEnded(run) => run' = run /\ listed' = listed]_vars
  <2>. SUFFICES ASSUME TypeInv, CursorInv, [Next]_vars, Exclusive, RunEnded(run)
                PROVE  run' = run /\ listed' = listed
    OBVIOUS
  <2>1. \A s \in Scanners : ~Writing(s)
    BY DEF CursorInv, Cursor, Writing, RunEnded
  <2>. QED
    BY <2>1 DEF Next, Work, ProcessRun, vars, Schedule, EnqueueRaises, FallBack,
           RequestDies, BackoffElapses, LeaseLapses, ClaimJob, Retire, Beat, Load, Mark,
           Checkpoint, Extract, Collide, Finish, CompleteJob, HandlerRaises, Notify,
           NotificationLost, Sweep, Crash, TaskFails, FinishRun, Writing, Scanners
<1>. QED
  BY <1>1, ScanInvariant, PTL DEF Spec, EndedRunIsLeftAlone
=============================================================================
