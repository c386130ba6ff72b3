--------------------------- MODULE ExtractionPool ---------------------------
(***************************************************************************)
(* ExtractionPool (web_research/pool.py): the process pool that parses     *)
(* fetched documents and whose calls can be killed.  A call takes the      *)
(* gate, gets the executor (a new one is warmed first, a worn one is       *)
(* replaced), submits its parse and waits for it; a timeout, a crash or a  *)
(* cancellation kills the executor's workers and drops it.                 *)
(***************************************************************************)
EXTENDS Integers, FiniteSets

CONSTANTS
  Calls,
  Workers,   \* V3_WEB_EXTRACTION_WORKERS
  Quota,     \* MAX_TASKS_PER_CHILD
  MaxDeaths  \* bound: the workers that die by themselves

ASSUME PoolAssumption ==
  /\ {Workers, Quota} \subseteq Nat \ {0} /\ MaxDeaths \in Nat
  /\ IsFiniteSet(Calls)

VARIABLES
  free,      \* permits of the gate
  executors, \* the executors created so far: 1 .. executors
  current,   \* the installed executor, 0 when there is none
  runs,      \* _runs
  alive, warm, \* the executors that are not broken or killed; those warmed
  parsing,   \* the calls whose parse runs in a worker
  place,     \* call |-> new, gate, warming, running, reaping, over
  uses,      \* call |-> its executor
  deaths

poolVars == <<free, executors, current, runs, alive, warm, parsing, place, uses, deaths>>

PoolInit ==
  /\ free = Workers /\ executors = 0 /\ current = 0 /\ runs = 0
  /\ alive = {} /\ warm = {} /\ parsing = {}
  /\ place = [c \in Calls |-> "new"] /\ uses = [c \in Calls |-> 0]
  /\ deaths = 0

Move(c, p) == place' = [place EXCEPT ![c] = p]

On(e) == {c \in parsing : uses[c] = e}

Call(c) ==
  /\ place[c] = "new" /\ Move(c, "gate")
  /\ UNCHANGED <<free, executors, current, runs, alive, warm, parsing, uses, deaths>>

\* An executor that has served its quota is replaced
Worn == current # 0 /\ runs >= Quota

(* The gate and _get_executor, with no await in between, when an executor   *)
(* is installed: the parse is submitted at once, which a broken one refuses *)
TakeInstalled(c) ==
  /\ place[c] = "gate" /\ free > 0
  /\ current # 0 /\ ~Worn
  /\ free' = free - 1
  /\ runs' = runs + 1
  /\ uses' = [uses EXCEPT ![c] = current]
  /\ IF current \in alive
       THEN /\ Move(c, "running")
            /\ parsing' = parsing \cup {c}
            /\ UNCHANGED current
       ELSE /\ Move(c, "reaping")
            /\ current' = 0
            /\ UNCHANGED parsing
  /\ UNCHANGED <<executors, alive, warm, deaths>>

(* No executor, or a worn one, whose workers are killed: a new one, which   *)
(* is warmed before the parse is submitted                                  *)
TakeFresh(c) ==
  /\ place[c] = "gate" /\ free > 0
  /\ current = 0 \/ Worn
  /\ free' = free - 1
  /\ executors' = executors + 1 /\ current' = executors + 1 /\ runs' = 0
  /\ alive' = (alive \ {current}) \cup {executors + 1}
  /\ parsing' = parsing \ On(current)
  /\ uses' = [uses EXCEPT ![c] = executors + 1]
  /\ Move(c, "warming")
  /\ UNCHANGED <<warm, deaths>>

Warmed(c) ==
  /\ place[c] = "warming"
  /\ runs' = runs + 1
  /\ IF uses[c] \in alive
       THEN /\ warm' = warm \cup {uses[c]} /\ parsing' = parsing \cup {c}
            /\ Move(c, "running")
            /\ UNCHANGED current
       ELSE /\ Move(c, "reaping")
            /\ current' = IF current = uses[c] THEN 0 ELSE current
            /\ UNCHANGED <<warm, parsing>>
  /\ UNCHANGED <<free, executors, alive, uses, deaths>>

\* Mutant: the executor is forgotten and its workers are left to finish.
KillNone(e) == UNCHANGED <<alive, parsing>>

\* SIGKILL of an executor's workers
Kill(e) == alive' = alive \ {e} /\ parsing' = parsing \ On(e)

\* _forget and _discard: dropped when installed, its workers killed
Drop(c, p) ==
  /\ current' = IF current = uses[c] THEN 0 ELSE current
  /\ Kill(uses[c])
  /\ Move(c, p)

WarmUpFails(c) ==
  /\ place[c] = "warming" /\ Drop(c, "reaping")
  /\ UNCHANGED <<free, executors, runs, warm, uses, deaths>>

Parsed(c) ==
  /\ place[c] = "running" /\ c \in parsing
  /\ parsing' = parsing \ {c}
  /\ Move(c, "over") /\ free' = free + 1
  /\ UNCHANGED <<executors, current, runs, alive, warm, uses, deaths>>

Timeout(c) ==
  /\ place[c] = "running" /\ c \in parsing /\ Drop(c, "reaping")
  /\ UNCHANGED <<free, executors, runs, warm, uses, deaths>>

\* The future fails when the pool is broken
Broken(c) ==
  /\ place[c] = "running" /\ c \notin parsing /\ Drop(c, "reaping")
  /\ UNCHANGED <<free, executors, runs, warm, uses, deaths>>

\* _join of the killed processes is over; the gate is released
Reaped(c) ==
  /\ place[c] = "reaping" /\ Move(c, "over") /\ free' = free + 1
  /\ UNCHANGED <<executors, current, runs, alive, warm, parsing, uses, deaths>>

\* Mutant: a cancelled caller gives back a gate it has not taken.
GivesBackAny(p) == TRUE

\* Mutant: a caller cancelled while its worker starts keeps the gate.
GivesBackRunning(p) == p = "running"

\* The gate is held from the moment it is taken
GivesBack(p) == p # "gate"

(* The caller gave up: the parse must not keep running.  A call that waits  *)
(* for the gate or for the reaping has nothing to kill.                     *)
CancelCall(c) ==
  /\ place[c] \in {"gate", "warming", "running", "reaping"}
  /\ IF place[c] = "warming" \/ (place[c] = "running" /\ c \in parsing)
       THEN Drop(c, "over")
       ELSE Move(c, "over") /\ UNCHANGED <<current, alive, parsing>>
  /\ free' = IF GivesBack(place[c]) THEN free + 1 ELSE free
  /\ UNCHANGED <<executors, runs, warm, uses, deaths>>

\* A worker dies (a segfault, its memory or CPU limit): its executor breaks
WorkerDies(e) ==
  /\ e \in alive /\ deaths < MaxDeaths
  /\ alive' = alive \ {e} /\ parsing' = parsing \ On(e)
  /\ deaths' = deaths + 1
  /\ UNCHANGED <<free, executors, current, runs, warm, place, uses>>

CallStep(c) ==
  \/ Call(c) \/ TakeInstalled(c) \/ TakeFresh(c) \/ Warmed(c) \/ WarmUpFails(c)
  \/ Parsed(c) \/ Timeout(c) \/ Broken(c) \/ Reaped(c)

Deaths == \E e \in alive : WorkerDies(e)

---------------------------------------------------------------------------
Inside == {c \in Calls : place[c] \in {"warming", "running", "reaping"}}

(* The gate is never leaked or over-released, whatever ends a call: at most *)
(* Workers calls are in flight                                              *)
GateAccounted == free >= 0 /\ free + Cardinality(Inside) = Workers

(* No parse outlives its call: the next document never pays for the time of *)
(* a document whose caller has its answer, or gave up                       *)
NoParseOutlivesItsCall == \A c \in parsing : place[c] = "running"

(* A document's timeout measures its parse, never the start of its worker,  *)
(* and no executor serves more than its quota                               *)
ParsedWarmAndInQuota ==
  (\A c \in parsing : uses[c] \in warm) /\ runs <= Quota

(* pool.py:210: replacing a worn executor cuts no call short; nor does      *)
(* another call's timeout, crash or cancellation.  This holds with the       *)
(* default of one worker.  With more it is false, and that comment wrong:    *)
(* the gate admits a second call, whose parse dies with the executor         *)
NobodyElseCutsACallShort ==
  [][deaths' = deaths =>
       \A c \in parsing \ parsing' : place'[c] # "running"]_poolVars
=============================================================================
