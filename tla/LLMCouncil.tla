----------------------------- MODULE LLMCouncil -----------------------------
(***************************************************************************)
(* LLM councils of one process (llm/council.py over retry_engine.py and    *)
(* token_pacer.py).  A council attempts its agents once each in order and  *)
(* then retries the transient failures in priority order, all under a      *)
(* wall-clock budget of which a reserve is kept for the protected agents.  *)
(* Every attempt first waits for its share of the deployment's tokens      *)
(* (TokenPacer), which the councils of the process share.                  *)
(*                                                                         *)
(* Time is discrete.  What the code does between two awaits takes none; a  *)
(* sleep ends when it is due and a request to the provider within MaxCall. *)
(***************************************************************************)
EXTENDS Integers, Sequences, FiniteSets, TokenPacer

CONSTANTS
  Councils,
  Order,           \* agent_order: the initial pass
  Priority,        \* priority_order: the retry pass, of some of these agents
  Critical, Reserved, Chair,
  Estimate,        \* agent |-> the estimated tokens of its request
  Budget,          \* total_budget_seconds
  Reserve,         \* critical_reserve_seconds
  Retries, CriticalRetries,
  Pause,           \* initial_pass_delay_seconds
  MaxBackoff,      \* bound: the longest backoff or honoured retry-after
  MaxCall,         \* llm_request_timeout_seconds, of one request
  Overrun,         \* bound: tokens a reply may report over its estimate
  LastStart,       \* bound: the latest start of a council
  MaxFaults        \* bound, per council: failed attempts and replies to repair

Agents == {Order[i] : i \in DOMAIN Order}

ASSUME CouncilAssumption ==
  /\ {Order, Priority} \subseteq Seq(Agents)
  /\ IsInjective(Order) /\ IsInjective(Priority)
  /\ Critical \subseteq Agents /\ Reserved \subseteq Agents /\ Chair \in Agents
  /\ Estimate \in [Agents -> Nat \ {0}]
  /\ {Reserve, Retries, CriticalRetries, Pause, Overrun, LastStart} \subseteq Nat
  /\ MaxFaults \in [Councils -> Nat]
  /\ {Budget, MaxBackoff, MaxCall} \subseteq Nat \ {0}

VARIABLES
  now,
  window,   \* the pacer's entries
  run,      \* council |-> where it is and what it has: see TypeOK
  faults

vars == <<now, window, run, faults>>

Set(c, r) == run' = [run EXCEPT ![c] = r]

Fault(c) ==
  /\ faults[c] < MaxFaults[c]
  /\ faults' = [faults EXCEPT ![c] = @ + 1]

Init ==
  /\ now = 0 /\ window = {} /\ faults = [c \in Councils |-> 0]
  /\ run = [c \in Councils |->
       [pc |-> "idle", pass |-> "initial", pos |-> 1, tries |-> 0, waited |-> 0,
        wake |-> 0, deadline |-> 0, passed |-> 0,
        status |-> [a \in Agents |-> "none"],
        failure |-> [a \in Agents |-> "none"],
        attempts |-> [a \in Agents |-> 0]]]

Begin(c) ==
  /\ run[c].pc = "idle"
  /\ Set(c, [run[c] EXCEPT !.pc = "turn", !.deadline = now + Budget])
  /\ UNCHANGED <<now, window, faults>>

Agent(c) == IF run[c].pass = "initial" THEN Order[run[c].pos] ELSE Priority[run[c].pos]

---------------------------------------------------------------------------
\* The initial pass
InTurn(c) == run[c].pc = "turn" /\ run[c].pos <= Len(Order)

(* An agent that cannot start before the deadline gets a failed output *)
Skip(c) ==
  /\ InTurn(c) /\ now >= run[c].deadline
  /\ Set(c, [run[c] EXCEPT !.status[Agent(c)] = "failed", !.pos = @ + 1])
  /\ UNCHANGED <<now, window, faults>>

\* An attempt begins with the pacer
Attempting(r, a) ==
  [r EXCEPT !.pc = "acquire", !.waited = 0, !.wake = 0, !.attempts[a] = @ + 1]

Turn(c) ==
  /\ InTurn(c) /\ now < run[c].deadline
  /\ Set(c, Attempting(run[c], Agent(c)))
  /\ UNCHANGED <<now, window, faults>>

EndInitialPass(c) ==
  /\ run[c].pc = "turn" /\ run[c].pos > Len(Order)
  /\ Set(c, [run[c] EXCEPT !.pc = "review", !.pass = "retry", !.pos = 1,
                           !.passed = now])
  /\ UNCHANGED <<now, window, faults>>

---------------------------------------------------------------------------
\* An attempt: the pacer's wait, its lease, the provider's answer

\* Mutant: every council of the process has a window of its own.
SharedWindowOwn(c) == {e \in window : e.by[1] = c}

\* get_shared_pacer: one window for the deployment
SharedWindow(c) == window

Acquire(c) ==
  LET a == Agent(c)
      sleep == Sleep(SharedWindow(c), Estimate[a], a = Chair, run[c].waited, now)
  IN
  /\ run[c].pc = "acquire"
  /\ IF sleep > 0
       THEN /\ Set(c, [run[c] EXCEPT !.pc = "pacing", !.wake = now + sleep,
                                     !.waited = @ + sleep])
            /\ UNCHANGED window
       ELSE /\ Set(c, [run[c] EXCEPT !.pc = "call", !.wake = now + MaxCall])
            /\ window' = window \cup
                 {[by |-> <<c, a, run[c].attempts[a]>>, at |-> now,
                   tokens |-> Estimate[a], over |-> ~Fits(SharedWindow(c), Estimate[a], a = Chair)
                                                    \/ Estimate[a] > Effective(a = Chair)]}
  /\ UNCHANGED <<now, faults>>

\* settle: the lease counts what the attempt is known to have spent
Settle(c, tokens) ==
  LET key == <<c, Agent(c), run[c].attempts[Agent(c)]>> IN
  window' = {IF e.by = key
               THEN [e EXCEPT !.tokens = tokens, !.over = @ \/ tokens > e.tokens]
               ELSE e : e \in window}

\* What one reply reports, or is counted for
Usage(a) == 0..(Estimate[a] + Overrun)

Twice(a) == {u + v : u, v \in Usage(a)}

(* What an attempt is known to have spent, with no reply before the error   *)
(* nothing if it was rate-limited and the estimate otherwise, and after a    *)
(* reply that had to be repaired at least the usage of that one              *)
Spent(place, outcome, a) ==
  IF outcome \in {"completed", "quarantined"}
    THEN IF place = "call" THEN Usage(a) ELSE Twice(a)
  ELSE IF place = "call"
    THEN IF outcome = "rate_limited" THEN {0} ELSE {Estimate[a]}
  ELSE IF outcome = "permanent" THEN Usage(a) \cup Twice(a)
  ELSE Usage(a)

Transient == {"rate_limited", "server_error"}

\* The next agent of the pass
Advance(r) ==
  [r EXCEPT !.pc = IF r.pass = "initial" THEN "turn" ELSE "review",
            !.pos = @ + 1, !.tries = 0, !.waited = 0, !.wake = 0]

\* After an attempt of the initial pass; the pause is not taken past the deadline
AfterFirst(r, a, outcome) ==
  LET done == [r EXCEPT
        !.status[a] = IF outcome = "completed" THEN "completed" ELSE "failed",
        !.failure[a] = IF outcome \in Transient THEN outcome ELSE "none"]
  IN  IF Pause > 0 /\ r.pos < Len(Order) /\ now + Pause < r.deadline
        THEN [done EXCEPT !.pc = "pause", !.wake = now + Pause]
        ELSE Advance(done)

(* After a retry: an output, quarantined or not, replaces the placeholder;  *)
(* a permanent error leaves it; a transient one goes round again            *)
AfterRetry(r, a, outcome) ==
  IF outcome \in {"completed", "quarantined"}
    THEN Advance([r EXCEPT
           !.status[a] = IF outcome = "completed" THEN "completed" ELSE "failed",
           !.failure[a] = "none"])
  ELSE IF outcome = "permanent" THEN Advance(r)
  ELSE [r EXCEPT !.pc = "review", !.failure[a] = outcome, !.waited = 0, !.wake = 0]

(* complete_json: a reply that is not JSON is asked for once more, under the *)
(* same lease and with a timeout of its own                                  *)
Repair(c) ==
  /\ run[c].pc = "call"
  /\ Set(c, [run[c] EXCEPT !.pc = "repair", !.wake = now + MaxCall])
  /\ Fault(c)
  /\ UNCHANGED <<now, window>>

Failed == Transient \cup {"quarantined", "permanent"}

Return(c) ==
  LET a == Agent(c) IN
  /\ run[c].pc \in {"call", "repair"}
  /\ \E outcome \in {"completed"} \cup Failed :
       /\ \E tokens \in Spent(run[c].pc, outcome, a) : Settle(c, tokens)
       /\ Set(c, IF run[c].pass = "initial" THEN AfterFirst(run[c], a, outcome)
                 ELSE AfterRetry(run[c], a, outcome))
       /\ IF outcome \in Failed THEN Fault(c) ELSE UNCHANGED faults
  /\ UNCHANGED now

---------------------------------------------------------------------------
\* The retry pass

\* Mutant: everyone may use the reserve.
RetryDeadlineShared(c, a) == run[c].deadline

\* The reserve is closed to the others
RetryDeadline(c, a) ==
  IF a \in Reserved THEN run[c].deadline ELSE run[c].deadline - Reserve

\* Mutant: whoever has a turn is retried.
NeedsRetryAlways(c, a) == TRUE

\* Only a transient failure is retried
NeedsRetry(c, a) == run[c].failure[a] # "none" /\ run[c].status[a] = "failed"

MaxTries(a) == IF a \in Critical THEN CriticalRetries ELSE Retries

\* Mutant: off by one.
TriedOutLate(c, a) == run[c].tries > MaxTries(a)

TriedOut(c, a) == run[c].tries >= MaxTries(a)

\* Mutant: the wait is not cut to the time that remains.
RetryWaitUncut(wait, remaining) == wait

RetryWait(wait, remaining) == Lesser(wait, remaining)

\* The head of retry_agent's loop; a retry-after of 0 ends it
Review(c) ==
  LET r == run[c] IN
  /\ r.pc = "review"
  /\ IF r.pos > Len(Priority) THEN Set(c, [r EXCEPT !.pc = "done"])
     ELSE LET a == Agent(c)
              remaining == RetryDeadline(c, a) - now
          IN
          IF (r.tries = 0 /\ ~NeedsRetry(c, a)) \/ TriedOut(c, a) \/ remaining <= 0
            THEN Set(c, Advance(r))
          ELSE \E wait \in (IF r.failure[a] = "rate_limited" THEN 0 ELSE 1)..MaxBackoff :
                 LET sleep == RetryWait(wait, remaining) IN
                 Set(c, IF sleep = 0 THEN Advance(r)
                        ELSE [r EXCEPT !.pc = "backoff", !.tries = @ + 1,
                                       !.wake = now + sleep])
  /\ UNCHANGED <<now, window, faults>>

(* A sleep is over: of the pacer, of the pause between two agents, or of    *)
(* the backoff before a retry                                               *)
Wake(c) ==
  LET r == run[c] IN
  /\ r.pc \in {"pacing", "pause", "backoff"} /\ now = r.wake
  /\ Set(c, IF r.pc = "pacing" THEN [r EXCEPT !.pc = "acquire", !.wake = 0]
            ELSE IF r.pc = "pause" THEN Advance(r)
            ELSE Attempting(r, Agent(c)))
  /\ UNCHANGED <<now, window, faults>>

---------------------------------------------------------------------------
\* Time passes when every council waits for it
MayWait(c) ==
  \/ run[c].pc = "done"
  \/ run[c].pc = "idle" /\ now < LastStart
  \/ run[c].pc \in {"pacing", "pause", "backoff", "call", "repair"} /\ now < run[c].wake

AllDone == \A c \in Councils : run[c].pc = "done"

Tick ==
  /\ ~AllDone /\ \A c \in Councils : MayWait(c)
  /\ now' = now + 1
  /\ window' = Live(window, now')
  /\ UNCHANGED <<run, faults>>

\* The councils have answered
Finished == AllDone /\ UNCHANGED vars

Next ==
  \/ \E c \in Councils :
       \/ Begin(c) \/ Skip(c) \/ Turn(c) \/ EndInitialPass(c) \/ Acquire(c)
       \/ Repair(c) \/ Return(c) \/ Review(c) \/ Wake(c)
  \/ Tick \/ Finished

Spec == Init /\ [][Next]_vars

---------------------------------------------------------------------------
Runs ==
  [pc : {"idle", "turn", "acquire", "pacing", "call", "repair", "pause", "review",
         "backoff", "done"},
   pass : {"initial", "retry"}, pos : Nat \ {0}, tries : Nat,
   waited : 0..MaxWait, wake : Nat, deadline : Nat, passed : Nat,
   status : [Agents -> {"none", "failed", "completed"}],
   failure : [Agents -> Transient \cup {"none"}],
   attempts : [Agents -> Nat]]

Entries ==
  [by : Councils \X Agents \X Nat, at : Nat, tokens : Nat, over : BOOLEAN]

\* Types, and no agent is attempted more often than its retries allow
TypeOK ==
  /\ now \in Nat
  /\ window \subseteq Entries
  /\ run \in [Councils -> Runs]
  /\ faults \in [Councils -> Nat] /\ \A c \in Councils : faults[c] <= MaxFaults[c]
  /\ \A c \in Councils, a \in Agents : run[c].attempts[a] <= 1 + MaxTries(a)

(* How long a council really lasts: its budget, one full pacing wait and    *)
(* the two requests of the attempt that was waiting.  stale_after_minutes    *)
(* counts the budget and the wait; its fixed overhead and margin must hold   *)
(* the requests                                                              *)
WithinTheWorstCase ==
  \A c \in Councils :
    run[c].pc \notin {"idle", "done"} => now <= run[c].deadline + MaxWait + 2 * MaxCall

(* What the retries of the others leave: when the initial pass ended in     *)
(* time and the reserve covers an attempt and its repair, the first          *)
(* protected agent to be retried, having failed on a server error, is        *)
ReserveKeepsARetry ==
  LET protected == {i \in DOMAIN Priority : Priority[i] \in Reserved}
      first == Priority[Min(protected)]
  IN
  /\ protected # {} /\ first \in Critical
  /\ Reserve > MaxWait + 2 * MaxCall /\ CriticalRetries > 0
  => \A c \in Councils :
      /\ run[c].pc = "done" /\ run[c].passed < run[c].deadline
      /\ run[c].failure[first] = "server_error"
      => run[c].attempts[first] > 1

(* Councils that run at once do not burst the deployment: as long as no     *)
(* request was let through unfitting and none spent more than its estimate, *)
(* the window holds its capacity, and the others leave the chair its slice  *)
NoBurst ==
  (\A e \in window : ~e.over) =>
    /\ Tokens(window) <= Capacity
    /\ Tokens({e \in window : e.by[2] # Chair}) <= Effective(FALSE)

(* "A completed output is never re-attempted": a retry never loses one *)
CompletedStays ==
  [][\A c \in Councils, a \in Agents :
       run[c].status[a] = "completed" =>
         run'[c].status[a] = "completed" /\ run'[c].attempts[a] = run[c].attempts[a]]_vars
=============================================================================
