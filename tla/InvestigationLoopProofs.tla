---------------------- MODULE InvestigationLoopProofs ----------------------
(***************************************************************************)
(* Proofs about InvestigationLoop, for every plan, mode and budget: the    *)
(* variables keep their types, no budget is exceeded, a completed run      *)
(* stays complete, what a web round fed is queued for reading, and the     *)
(* reason a run gives for its stop is true.                                *)
(***************************************************************************)
EXTENDS InvestigationLoop, FiniteSetTheorems, WellFoundedInduction, TLAPS

USE LoopAssumption DEF None, Limits, Completions

---------------------------------------------------------------------------
(* Where the running task and the queue stand: a task asks only questions   *)
(* of its role, a queued role's questions are its own, and in the first     *)
(* round a question waiting to be asked was not worked before               *)
Owned(r, S) == S \subseteq {q \in Assigned : RoleOf[q] = r}

Places ==
  /\ \A r \in DOMAIN queue : Owned(r, queue[r])
  /\ Owned(role, asking) /\ Owned(role, DOMAIN outcome)
  /\ asking \cap DOMAIN outcome = {}
  /\ pc # "asking" => asking = {} /\ DOMAIN outcome = {} /\ spent = 0
  /\ pc = "asking" => role \notin DOMAIN queue
  /\ pc \in {"web", "followups"} => round # 0

FirstRound ==
  /\ round = 0 =>
       /\ (asking \cup DOMAIN outcome) \cap worked = {}
       /\ \A r \in DOMAIN queue : queue[r] \cap worked = {}
  /\ \A q \in Questions \ worked : corpus[q] = 0 /\ searched[q] = 0

(* What has been spent, and what the running task is about to charge *)
Spending ==
  /\ BudgetsHold
  /\ pc \in {"tasks", "asking"} => round < MaxRounds
  /\ pc = "asking" => tasksRun < MaxTasks
  /\ \A q \in DOMAIN outcome : /\ corpus[q] + outcome[q].corpus <= Intents
                               /\ searched[q] + outcome[q].searched <= SearchCap

(* When the run may be complete, and why it stopped *)
Completeness ==
  /\ CompletionStands
  /\ pc = "next_round" /\ completed => round < MaxRounds
  /\ pc \notin {"settle", "closed"} => stop = None
  /\ pc # "closed" => runStatus = "investigating"

(* What a web round fed is a closable gap's question until it is queued *)
Feeding ==
  /\ FedQuestionsAreQueued
  /\ fresh # {} => pc \in {"followups", "next_round"}
  /\ pc = "followups" /\ fresh # {} =>
       /\ round < MaxRounds /\ tasksRun < MaxTasks
       /\ \A q \in fresh : \E g \in ClosableGaps : g.question = q
  /\ \A g \in gaps : Closable(g) => g.question \in Assigned

(* Every reason to stop has its cause in the state the loop stopped in *)
NothingWorthATask ==
  \A g \in ClosableGaps : g.question \in Answered \/ ~HasRungLeft(g.question, FALSE)

Reasons ==
  /\ pc = "next_round" /\ round # 0 => DOMAIN queue # {}
  /\ webLimit # None => \E g \in ClosableGaps : WebAnswerable(g)
  /\ pc \in {"settle", "closed"} /\ stop \in {"no_closable_gaps", "saturation"} =>
       NothingWorthATask
  /\ pc \in {"settle", "closed"} /\ stop \in Limits =>
       \/ DOMAIN queue # {}
       \/ GapKeys # {}
       \/ webLimit = stop

LoopInvariant ==
  /\ TypeOK /\ Places /\ FirstRound /\ Spending
  /\ Completeness /\ Feeding /\ Reasons

---------------------------------------------------------------------------
LEMMA InitTypeOK == Init => TypeOK
<1>. SUFFICES ASSUME Init PROVE TypeOK
  OBVIOUS
<1>1. /\ DOMAIN queue \subseteq Roles /\ Queued \subseteq Questions
  BY DEF Init, Queued, Assigned
<1>2. gaps \subseteq GapRows
  BY DEF Init, Gap, GapRows
<1>3. DOMAIN outcome = {}
  BY DEF Init, NoAnswer
<1>4. /\ status \in [Questions -> {"open", "answered", "unanswerable"}]
      /\ corpus \in [Questions -> Nat] /\ searched \in [Questions -> Nat]
  BY DEF Init
<1>5. late \in BOOLEAN /\ completed \in BOOLEAN /\ saturated \in BOOLEAN
  BY Zenon DEF Init
<1>8. round \in Nat /\ {spent, tasksRun, calls, searches, webRounds} \subseteq Nat
  BY DEF Init
<1>6. /\ pc = "next_round" /\ role = NoRole /\ webLimit = "none" /\ stop = "none"
      /\ improvement = "none" /\ runStatus = "investigating"
  BY DEF Init
<1>7. /\ asking = {} /\ handed = {} /\ accepted = {} /\ worked = {} /\ met = {}
      /\ handled = {} /\ fresh = {} /\ queries = {} /\ leftOut = {}
  BY DEF Init
<1>. QED BY <1>1, <1>2, <1>3, <1>4, <1>5, <1>6, <1>7, <1>8 DEF TypeOK

(* The reasons a limit gives are limits *)
LEMMA LimitsAreLimits ==
  /\ LimitHit \in Limits \cup {None}
  /\ \A e \in BOOLEAN : RefusedBy(e) \in Limits \cup {None}
BY DEF LimitHit, RefusedBy, WebSpent

(* The follow-ups are tasks of the plan's roles, each for questions it owns *)
LEMMA FollowUpsAreOwned ==
  /\ DOMAIN FollowUps \subseteq Roles
  /\ \A r \in DOMAIN FollowUps : FollowUps[r] \subseteq {q \in Assigned : RoleOf[q] = r}
BY DEF FollowUps, GapKeys, Assigned

(* The ladder keeps to the calls it is given and to the intents there are  *)
LEMMA ClimbBounds ==
  ASSUME TypeOK, NEW q \in Questions, NEW budget \in Nat, NEW t \in Turns
  PROVE  /\ Climb(q, budget, t).batch \in Nat
         /\ Climb(q, budget, t).calls \in 0..budget
         /\ Climb(q, budget, t).search \in BOOLEAN
         /\ Climb(q, budget, t).search =>
              searches + t.bought < SearchBudget /\ searched[q] < SearchCap
         /\ LET start == IF Again(q) THEN corpus[q] ELSE t.first IN
            start <= Intents => start + Climb(q, budget, t).batch <= Intents
<1>. DEFINE reread == IF q \in handed THEN FollowupQueries ELSE 0
            used == Smaller(t.platform + reread, budget)
            start == IF Again(q) THEN corpus[q] ELSE t.first
            batch == IF t.met1 \/ used >= budget \/ start >= Intents THEN 0
                     ELSE Smaller(CorpusBatch, Intents - start)
<1>1. used \in 0..budget
  BY DEF Turns, Smaller
<1>2. start \in Nat
  BY DEF Turns, TypeOK
<1>3. batch \in Nat /\ (start <= Intents => start + batch <= Intents)
  <2>. HIDE DEF start, used
  <2>. QED BY <1>2 DEF Smaller
<1>4. Smaller(used + batch, budget) \in 0..budget
  <2>. HIDE DEF used, batch
  <2>. QED BY <1>1, <1>3 DEF Smaller
<1>5. Climb(q, budget, t) =
        [read |-> used > 0, batch |-> batch, calls |-> Smaller(used + batch, budget),
         search |-> /\ ~t.met2 /\ q \in External /\ searched[q] < SearchCap
                    /\ searches + t.bought < SearchBudget
                    /\ budget - Smaller(used + batch, budget) > 1]
  BY DEF Climb
<1>. HIDE DEF used, batch
<1>. QED BY <1>3, <1>4, <1>5

(* One question asked: what its ladder charged, and what it will add to the *)
(* question's counters                                                      *)
LEMMA AskOutcome ==
  ASSUME TypeOK, NEW q \in Questions, NEW t \in Turns, Asked(q, t)
  PROVE  /\ spent' \in Nat /\ calls + spent' <= MaxCalls
         /\ searches' \in Nat /\ (searches <= SearchBudget => searches' <= SearchBudget)
         /\ DOMAIN outcome' = DOMAIN outcome \cup {q}
         /\ \A p \in DOMAIN outcome \ {q} : outcome'[p] = outcome[p]
         /\ outcome'[q] \in Outcomes
         /\ outcome'[q].searched = 1 => searched[q] < SearchCap
         /\ ~Again(q) => outcome'[q].corpus <= Intents
         /\ Again(q) /\ corpus[q] <= Intents => corpus[q] + outcome'[q].corpus <= Intents
<1>. DEFINE budget == MaxCalls - calls - spent
            climb == Climb(q, budget, t)
<1>1. budget \in Nat
  BY DEF Asked, TypeOK
<1>2. /\ climb.batch \in Nat /\ climb.calls \in 0..budget /\ climb.search \in BOOLEAN
      /\ climb.search => searches + t.bought < SearchBudget /\ searched[q] < SearchCap
      /\ LET start == IF Again(q) THEN corpus[q] ELSE t.first IN
         start <= Intents => start + climb.batch <= Intents
  BY <1>1, ClimbBounds
<1>0. t.first <= Intents
  BY DEF Turns
<1>3. /\ (Again(q) => t.first = 0)
      /\ ~climb.search => t.paid = 0 /\ t.fetched = 0
      /\ climb.search => climb.calls + 1 + t.fetched <= budget
      /\ spent' = spent + climb.calls + (IF climb.search THEN 1 + t.fetched ELSE 0)
      /\ t.bought > 0 => searches < SearchBudget
      /\ searches' = searches + t.bought + t.paid
      /\ outcome' = [p \in DOMAIN outcome \cup {q} |->
           IF p = q THEN [corpus |-> t.first + climb.batch,
                          searched |-> IF climb.search THEN 1 ELSE 0,
                          met |-> t.met3, kinds |-> t.kinds, answered |-> t.answered]
           ELSE outcome[p]]
  BY DEF Asked
<1>4. /\ t.first \in Nat /\ {t.bought, t.paid} \subseteq 0..1 /\ t.fetched \in Nat
      /\ t.met3 \in BOOLEAN /\ t.kinds \in SUBSET GapKinds /\ t.answered \in BOOLEAN
  BY DEF Turns
<1>. HIDE DEF climb
<1>5. spent' \in Nat /\ calls + spent' <= MaxCalls
  BY <1>1, <1>2, <1>3, <1>4 DEF TypeOK
<1>6. searches' \in Nat /\ (searches <= SearchBudget => searches' <= SearchBudget)
  BY <1>2, <1>3, <1>4, LoopAssumption DEF TypeOK
<1>7. outcome'[q] = [corpus |-> t.first + climb.batch,
                     searched |-> IF climb.search THEN 1 ELSE 0,
                     met |-> t.met3, kinds |-> t.kinds, answered |-> t.answered]
  BY <1>3
<1>8. outcome'[q] \in Outcomes
  BY <1>2, <1>4, <1>7 DEF Outcomes
<1>9. /\ outcome'[q].searched = 1 => searched[q] < SearchCap
      /\ ~Again(q) => outcome'[q].corpus <= Intents
      /\ Again(q) /\ corpus[q] <= Intents => corpus[q] + outcome'[q].corpus <= Intents
  BY <1>0, <1>2, <1>3, <1>4, <1>7
<1>. QED BY <1>3, <1>5, <1>6, <1>8, <1>9

---------------------------------------------------------------------------
(* TypeOK in the parts that change together *)

ControlTypes ==
  /\ pc \in {"next_round", "tasks", "asking", "web", "followups", "settle", "closed"}
  /\ round \in Nat /\ late \in BOOLEAN /\ completed \in BOOLEAN
QueueTypes ==
  /\ DOMAIN queue \subseteq Roles
  /\ \A r \in DOMAIN queue : queue[r] \subseteq Questions
  /\ leftOut \subseteq Questions
TaskTypes ==
  /\ role \in Roles \cup {NoRole}
  /\ asking \subseteq Questions /\ handed \subseteq Questions
  /\ DOMAIN outcome \subseteq Questions
  /\ \A q \in DOMAIN outcome : outcome[q] \in Outcomes
CounterTypes ==
  /\ spent \in Nat /\ tasksRun \in Nat /\ calls \in Nat /\ searches \in Nat
  /\ webRounds \in Nat
LedgerTypes ==
  /\ status \in [Questions -> {"open", "answered", "unanswerable"}]
  /\ gaps \subseteq GapRows /\ accepted \subseteq gaps /\ handled \subseteq gaps
LadderTypes ==
  /\ worked \subseteq Questions /\ met \subseteq worked
  /\ corpus \in [Questions -> Nat] /\ searched \in [Questions -> Nat]
WebTypes ==
  /\ fresh \subseteq Questions /\ queries \subseteq Questions
  /\ saturated \in BOOLEAN /\ webLimit \in Limits \cup {None}
VerdictTypes ==
  /\ stop \in Limits \cup Completions \cup {None}
  /\ improvement \in Limits \cup {None}
  /\ runStatus \in {"investigating", "stopped", "reviewing"}

LEMMA TypeParts ==
  TypeOK <=> /\ ControlTypes /\ QueueTypes /\ TaskTypes /\ CounterTypes
             /\ LedgerTypes /\ LadderTypes /\ WebTypes /\ VerdictTypes
<1>1. (Queued \subseteq Questions) <=> \A r \in DOMAIN queue : queue[r] \subseteq Questions
  BY DEF Queued
<1>2. {spent, tasksRun, calls, searches, webRounds} \subseteq Nat <=> CounterTypes
  BY DEF CounterTypes
<1>. QED
  BY Zenon, <1>1, <1>2 DEF TypeOK, ControlTypes, QueueTypes, TaskTypes, LedgerTypes,
     LadderTypes, WebTypes, VerdictTypes

LEMMA KeepsControl == TypeOK /\ Next => ControlTypes'
<1>. SUFFICES ASSUME TypeOK, Next PROVE ControlTypes'
  OBVIOUS
<1>1. ControlTypes
  BY TypeParts
<1>2. CASE EndRound
  <2>1. completed' \in BOOLEAN
    BY Zenon, <1>1, <1>2 DEF EndRound, RulesSatisfied, ControlTypes
  <2>2. round' \in Nat /\ pc' \in {"web", "followups"} /\ late' = late
    BY <1>1, <1>2 DEF EndRound, ControlTypes, task, budgets
  <2>. QED
    BY <1>1, <2>1, <2>2 DEF ControlTypes
<1>3. CASE HitLimit \/ BeginTask \/ \E q \in Questions : Ask(q)
  BY <1>1, <1>3 DEF ControlTypes, HitLimit, BeginTask, Ask
<1>6. CASE WallPasses
  BY <1>1, <1>6 DEF ControlTypes, WallPasses
<1>7. CASE BeginRound
  <2>1. pc' \in {"settle", "tasks"} /\ UNCHANGED <<round, late, completed>>
    BY <1>7 DEF BeginRound
  <2>. QED
    BY <1>1, <2>1 DEF ControlTypes
<1>4. CASE FinishTask \/ TaskRaises \/ WebRefused \/ NothingForTheWeb \/ WebRound
  BY <1>1, <1>4 DEF ControlTypes, FinishTask, TaskRaises, WebRefused, NothingForTheWeb, WebRound
<1>5. CASE ReviewCompleted \/ ReviewUnfinished \/ Close
  BY <1>1, <1>5 DEF ControlTypes, ReviewCompleted, ReviewUnfinished, Close, Stop, Queue
<1>. QED
  BY <1>2, <1>3, <1>4, <1>5, <1>6, <1>7 DEF Next

LEMMA QueueIsOfItsRoles ==
  ASSUME TypeOK, Queue(FollowUps) PROVE QueueTypes'
<1>1. DOMAIN queue' \subseteq DOMAIN FollowUps
      /\ \A r \in DOMAIN queue' : queue'[r] = FollowUps[r]
  BY DEF Queue, Kept
<1>2. leftOut' \subseteq Questions
  BY TypeParts DEF Queue, QueueTypes, GapKeys, Assigned
<1>. QED
  BY <1>1, <1>2, FollowUpsAreOwned DEF QueueTypes, Assigned

LEMMA KeepsQueue == TypeOK /\ Next => QueueTypes'
<1>. SUFFICES ASSUME TypeOK, Next PROVE QueueTypes'
  OBVIOUS
<1>1. QueueTypes /\ TaskTypes
  BY TypeParts
<1>2. ASSUME UNCHANGED <<queue, leftOut>> PROVE QueueTypes'
  BY <1>1, <1>2 DEF QueueTypes
<1>3. CASE BeginTask
  BY <1>1, <1>3 DEF QueueTypes, BeginTask
<1>4. CASE FinishTask
  <2>1. queue' = queue /\ leftOut' \subseteq leftOut \cup asking
    BY <1>4 DEF FinishTask
  <2>. QED
    BY <1>1, <2>1 DEF QueueTypes, TaskTypes
<1>5. CASE ReviewCompleted \/ ReviewUnfinished
  BY <1>2, <1>5, QueueIsOfItsRoles DEF ReviewCompleted, ReviewUnfinished, Stop
<1>6. CASE WallPasses \/ BeginRound \/ HitLimit \/ \E q \in Questions : Ask(q)
  BY <1>2, <1>6 DEF WallPasses, BeginRound, HitLimit, Ask
<1>7. CASE TaskRaises \/ EndRound \/ WebRefused \/ NothingForTheWeb \/ WebRound \/ Close
  BY <1>2, <1>7 DEF TaskRaises, EndRound, WebRefused, NothingForTheWeb, WebRound, Close
<1>. QED
  BY <1>3, <1>4, <1>5, <1>6, <1>7 DEF Next

LEMMA KeepsTask == TypeOK /\ Next => TaskTypes'
<1>. SUFFICES ASSUME TypeOK, Next PROVE TaskTypes'
  OBVIOUS
<1>1. QueueTypes /\ TaskTypes
  BY TypeParts
<1>2. CASE BeginTask
  BY <1>1, <1>2 DEF QueueTypes, TaskTypes, BeginTask, NoAnswer
<1>3. ASSUME NEW q \in Questions, Ask(q) PROVE TaskTypes'
  <2>1. PICK t \in Turns : Asked(q, t)
    BY <1>3 DEF Ask
  <2>2. DOMAIN outcome' = DOMAIN outcome \cup {q}
        /\ \A p \in DOMAIN outcome' : outcome'[p] \in Outcomes
    BY <1>1, <2>1, AskOutcome DEF TaskTypes
  <2>. QED
    BY <1>1, <1>3, <2>2 DEF TaskTypes, Ask, StillToAsk
<1>4. CASE FinishTask \/ TaskRaises
  BY <1>1, <1>4 DEF TaskTypes, FinishTask, TaskRaises, NoAnswer
<1>5. ASSUME UNCHANGED task PROVE TaskTypes'
  BY <1>1, <1>5 DEF TaskTypes, task
<1>6. CASE WallPasses \/ BeginRound \/ HitLimit \/ EndRound \/ WebRefused
  BY <1>5, <1>6 DEF WallPasses, BeginRound, HitLimit, EndRound, WebRefused
<1>7. CASE NothingForTheWeb \/ WebRound \/ ReviewCompleted \/ ReviewUnfinished \/ Close
  BY <1>5, <1>7 DEF NothingForTheWeb, WebRound, ReviewCompleted, ReviewUnfinished, Close
<1>. QED
  BY <1>2, <1>3, <1>4, <1>6, <1>7 DEF Next

LEMMA KeepsCounters == TypeOK /\ Next => CounterTypes'
<1>. SUFFICES ASSUME TypeOK, Next PROVE CounterTypes'
  OBVIOUS
<1>1. CounterTypes
  BY TypeParts
<1>2. ASSUME NEW q \in Questions, Ask(q) PROVE CounterTypes'
  <2>1. PICK t \in Turns : Asked(q, t)
    BY <1>2 DEF Ask
  <2>2. /\ spent' \in Nat
        /\ searches' \in Nat
    BY <2>1, AskOutcome
  <2>. QED
    BY <1>1, <1>2, <2>2 DEF CounterTypes, Ask, web
<1>3. CASE BeginTask \/ FinishTask \/ TaskRaises
  BY <1>1, <1>3 DEF CounterTypes, BeginTask, FinishTask, TaskRaises, budgets, web
<1>4. CASE WebRound
  BY <1>1, <1>4 DEF CounterTypes, WebRound, budgets, task
<1>5. ASSUME UNCHANGED <<budgets, spent, webRounds>> PROVE CounterTypes'
  BY <1>1, <1>5 DEF CounterTypes, budgets
<1>6. CASE WallPasses \/ BeginRound \/ HitLimit \/ EndRound \/ WebRefused
  BY <1>5, <1>6 DEF WallPasses, BeginRound, HitLimit, EndRound, WebRefused, task, web
<1>7. CASE NothingForTheWeb \/ ReviewCompleted \/ ReviewUnfinished \/ Close
  BY <1>5, <1>7 DEF NothingForTheWeb, ReviewCompleted, ReviewUnfinished, Close, task, web
<1>. QED
  BY <1>2, <1>3, <1>4, <1>6, <1>7 DEF Next

LEMMA KeepsLedger == TypeOK /\ Next => LedgerTypes'
<1>. SUFFICES ASSUME TypeOK, Next PROVE LedgerTypes'
  OBVIOUS
<1>1. LedgerTypes /\ TaskTypes /\ ControlTypes
  BY TypeParts
<1>2. CASE FinishTask
  <2>1. gaps' = gaps \cup UNION {{Gap(q, round, k) : k \in outcome[q].kinds} : q \in DOMAIN outcome}
        /\ UNCHANGED <<accepted, handled>>
    BY <1>2 DEF FinishTask, web
  <2>2. \A q \in DOMAIN outcome : \A k \in outcome[q].kinds : Gap(q, round, k) \in GapRows
    BY <1>1 DEF TaskTypes, ControlTypes, Outcomes, Gap, GapRows
  <2>3. gaps' \subseteq GapRows /\ gaps \subseteq gaps'
    BY <1>1, <2>1, <2>2 DEF LedgerTypes
  <2>4. status' \in [Questions -> {"open", "answered", "unanswerable"}]
    BY <1>1, <1>2 DEF LedgerTypes, FinishTask
  <2>. QED
    BY <1>1, <2>1, <2>3, <2>4 DEF LedgerTypes
<1>3. CASE WebRound
  BY <1>1, <1>3 DEF LedgerTypes, WebRound, ledger, SelectGaps, Candidates, ClosableGaps, OpenGaps
<1>4. CASE Close
  <2>1. PICK absent \in BOOLEAN :
          LET released == {q \in Conditional : absent /\ status[q] = "open"} IN
          /\ status' = [q \in Questions |->
               IF q \in released THEN "unanswerable" ELSE status[q]]
          /\ gaps' = gaps \cup {Gap(q, round, "unclosable") : q \in released}
    BY <1>4 DEF Close
  <2>2. accepted' \subseteq gaps /\ handled' = handled
    BY <1>1, <1>4 DEF LedgerTypes, Close, OpenGaps, web
  <2>3. status' \in [Questions -> {"open", "answered", "unanswerable"}]
    BY <1>1, <2>1 DEF LedgerTypes
  <2>4. \A q \in Conditional : Gap(q, round, "unclosable") \in GapRows
    BY <1>1 DEF Gap, GapRows, ControlTypes
  <2>5. gaps' \subseteq GapRows /\ gaps \subseteq gaps'
    BY <1>1, <2>1, <2>4 DEF LedgerTypes
  <2>. QED
    BY <1>1, <2>2, <2>3, <2>5 DEF LedgerTypes
<1>5. ASSUME UNCHANGED <<ledger, handled>> PROVE LedgerTypes'
  BY <1>1, <1>5 DEF LedgerTypes, ledger
<1>6. CASE WallPasses \/ BeginRound \/ HitLimit \/ BeginTask \/ \E q \in Questions : Ask(q)
  BY <1>5, <1>6 DEF WallPasses, BeginRound, HitLimit, BeginTask, Ask, web
<1>7. CASE TaskRaises \/ EndRound \/ WebRefused \/ NothingForTheWeb \/ ReviewCompleted
           \/ ReviewUnfinished
  BY <1>5, <1>7 DEF TaskRaises, EndRound, WebRefused, NothingForTheWeb, ReviewCompleted,
     ReviewUnfinished, web
<1>. QED
  BY <1>2, <1>3, <1>4, <1>6, <1>7 DEF Next

LEMMA KeepsLadder == TypeOK /\ Next => LadderTypes'
<1>. SUFFICES ASSUME TypeOK, Next PROVE LadderTypes'
  OBVIOUS
<1>1. LadderTypes /\ TaskTypes
  BY TypeParts
<1>2. CASE FinishTask
  <2>1. worked' \subseteq Questions /\ met' \subseteq worked'
    BY <1>1, <1>2 DEF FinishTask, LadderTypes, TaskTypes
  <2>2. \A q \in DOMAIN outcome : outcome[q].corpus \in Nat /\ outcome[q].searched \in Nat
    BY <1>1 DEF TaskTypes, Outcomes
  <2>3. corpus' \in [Questions -> Nat] /\ searched' \in [Questions -> Nat]
    BY <1>1, <1>2, <2>2 DEF FinishTask, LadderTypes
  <2>. QED
    BY <2>1, <2>3 DEF LadderTypes
<1>3. ASSUME UNCHANGED ladder PROVE LadderTypes'
  BY <1>1, <1>3 DEF LadderTypes, ladder
<1>4. CASE WallPasses \/ BeginRound \/ HitLimit \/ BeginTask \/ \E q \in Questions : Ask(q)
  BY <1>3, <1>4 DEF WallPasses, BeginRound, HitLimit, BeginTask, Ask
<1>5. CASE TaskRaises \/ EndRound \/ WebRefused \/ NothingForTheWeb \/ WebRound
           \/ ReviewCompleted \/ ReviewUnfinished \/ Close
  BY <1>3, <1>5 DEF TaskRaises, EndRound, WebRefused, NothingForTheWeb, WebRound,
     ReviewCompleted, ReviewUnfinished, Close
<1>. QED
  BY <1>2, <1>4, <1>5 DEF Next

LEMMA KeepsWeb == TypeOK /\ Next => WebTypes'
<1>. SUFFICES ASSUME TypeOK, Next PROVE WebTypes'
  OBVIOUS
<1>1. WebTypes /\ LedgerTypes
  BY TypeParts
<1>2. CASE BeginRound \/ BeginTask
  BY <1>1, <1>2 DEF WebTypes, BeginRound, BeginTask
<1>3. CASE WebRefused
  BY <1>1, <1>3, LimitsAreLimits DEF WebTypes, WebRefused, Sticky
<1>4. CASE WebRound
  <2>1. PICK chosen \in SUBSET gaps :
          /\ fresh' = fresh \/ fresh' = {g.question : g \in chosen}
          /\ queries' = queries \/ queries' = queries \cup {g.question : g \in chosen}
          /\ webLimit' \in {webLimit, "web_budget"}
    BY <1>4 DEF WebRound, SelectGaps, Candidates, ClosableGaps, OpenGaps
  <2>2. {g.question : g \in chosen} \subseteq Questions
    BY <1>1 DEF LedgerTypes, GapRows
  <2>3. saturated' \in BOOLEAN
    BY Zenon, <1>1, <1>4 DEF WebTypes, WebRound
  <2>. QED
    BY <1>1, <2>1, <2>2, <2>3 DEF WebTypes
<1>5. ASSUME UNCHANGED <<fresh, queries, saturated, webLimit>> PROVE WebTypes'
  BY <1>1, <1>5 DEF WebTypes
<1>6. CASE WallPasses \/ HitLimit \/ FinishTask \/ TaskRaises \/ \E q \in Questions : Ask(q)
  BY <1>5, <1>6 DEF WallPasses, HitLimit, FinishTask, TaskRaises, Ask, web
<1>7. CASE EndRound \/ NothingForTheWeb \/ ReviewCompleted \/ ReviewUnfinished \/ Close
  BY <1>5, <1>7 DEF EndRound, NothingForTheWeb, ReviewCompleted, ReviewUnfinished, Close, web
<1>. QED
  BY <1>2, <1>3, <1>4, <1>6, <1>7 DEF Next

LEMMA KeepsVerdict == TypeOK /\ Next => VerdictTypes'
<1>. SUFFICES ASSUME TypeOK, Next PROVE VerdictTypes'
  OBVIOUS
<1>1. VerdictTypes /\ WebTypes
  BY TypeParts
<1>2. CASE BeginRound
  BY <1>1, <1>2 DEF VerdictTypes, BeginRound
<1>3. CASE HitLimit
  BY <1>1, <1>3, LimitsAreLimits DEF VerdictTypes, HitLimit, StopOn
<1>4. CASE ReviewCompleted \/ ReviewUnfinished
  BY <1>1, <1>4 DEF VerdictTypes, ReviewCompleted, ReviewUnfinished, Stop, Queue, NoTaskLeft
<1>5. CASE Close
  <2>1. PICK closed \in SUBSET handled : SettleWebStop(closed)
    BY <1>5 DEF Close
  <2>2. /\ stop' \in Limits \cup Completions \cup {None}
        /\ improvement' \in Limits \cup {None}
    BY <1>1, <2>1 DEF VerdictTypes, WebTypes, SettleWebStop
  <2>. QED
    BY <1>5, <2>2 DEF VerdictTypes, Close
<1>6. ASSUME UNCHANGED verdict PROVE VerdictTypes'
  BY <1>1, <1>6 DEF VerdictTypes, verdict
<1>7. CASE WallPasses \/ BeginTask \/ FinishTask \/ TaskRaises \/ \E q \in Questions : Ask(q)
  BY <1>6, <1>7 DEF WallPasses, BeginTask, FinishTask, TaskRaises, Ask
<1>8. CASE EndRound \/ WebRefused \/ NothingForTheWeb \/ WebRound
  BY <1>6, <1>8 DEF EndRound, WebRefused, NothingForTheWeb, WebRound
<1>. QED
  BY <1>2, <1>3, <1>4, <1>5, <1>7, <1>8 DEF Next

---------------------------------------------------------------------------
(* The task budget always leaves room for the task that outranks the others *)

LEMMA LeastKey ==
  ASSUME NEW D, D # {}, NEW key \in [D -> Nat]
  PROVE  \E r \in D : \A s \in D : key[r] <= key[s]
<1>. DEFINE S == {key[r] : r \in D}
<1>1. S \subseteq Nat /\ S # {}
  OBVIOUS
<1>2. IsWellFoundedOn(OpToRel(<, Nat), Nat)
  BY NatLessThanWellFounded
<1>. HIDE DEF S
<1>3. PICK n \in S : \A m \in S : ~ (<<m, n>> \in OpToRel(<, Nat))
  BY <1>1, <1>2, WFMin
<1>4. ASSUME NEW m \in S PROVE n <= m
  <2>1. m \in Nat /\ n \in Nat
    BY <1>1
  <2>2. ~(m < n)
    BY <1>3, <2>1 DEF OpToRel
  <2>. QED
    BY <2>1, <2>2
<1>. QED
  BY <1>4 DEF S

LEMMA SomebodyIsFirst ==
  ASSUME NEW f, DOMAIN f # {}, DOMAIN f \subseteq Nat,
         \A r \in DOMAIN f : f[r] \subseteq Questions
  PROVE  \E r \in DOMAIN f : \A s \in DOMAIN f : ~Outranks(f, s, r)
<1>. DEFINE first == [r \in DOMAIN f |-> IF f[r] \cap Blocking # {} THEN 0 ELSE 1]
            second == [r \in DOMAIN f |-> IF f[r] \cap GapKeys # {} THEN 0 ELSE 1]
            third == [r \in DOMAIN f |-> Cardinality(Questions) - Cardinality(f[r])]
            last == [r \in DOMAIN f |-> r]
            least(D, key) == {r \in D : \A s \in D : key[r] <= key[s]}
            A == least(DOMAIN f, first)
            B == least(A, second)
            C == least(B, third)
<1>1. first \in [DOMAIN f -> Nat] /\ second \in [DOMAIN f -> Nat] /\ last \in [DOMAIN f -> Nat]
  OBVIOUS
<1>2. third \in [DOMAIN f -> Nat]
  <2>1. ASSUME NEW r \in DOMAIN f
        PROVE  /\ Cardinality(f[r]) \in Nat /\ Cardinality(Questions) \in Nat
               /\ Cardinality(f[r]) <= Cardinality(Questions)
    BY FS_Subset, FS_CardinalityType
  <2>. QED
    BY <2>1
<1>. HIDE DEF first, second, third, last
<1>3. A # {} /\ A \subseteq DOMAIN f
  BY <1>1, LeastKey
<1>. HIDE DEF A
<1>4. B # {} /\ B \subseteq A
  <2>1. [r \in A |-> second[r]] \in [A -> Nat]
    BY <1>1, <1>3
  <2>2. \E r \in A : \A s \in A : [t \in A |-> second[t]][r] <= [t \in A |-> second[t]][s]
    BY <1>3, <2>1, LeastKey
  <2>. QED
    BY <2>2
<1>. HIDE DEF B
<1>5. C # {} /\ C \subseteq B
  <2>1. [r \in B |-> third[r]] \in [B -> Nat]
    BY <1>2, <1>3, <1>4
  <2>2. \E r \in B : \A s \in B : [t \in B |-> third[t]][r] <= [t \in B |-> third[t]][s]
    BY <1>4, <2>1, LeastKey
  <2>. QED
    BY <2>2
<1>. HIDE DEF C
<1>6. PICK r \in C : \A s \in C : r <= s
  <2>1. [t \in C |-> t] \in [C -> Nat]
    BY <1>3, <1>4, <1>5
  <2>2. \E r \in C : \A s \in C : [t \in C |-> t][r] <= [t \in C |-> t][s]
    BY <1>5, <2>1, LeastKey
  <2>. QED
    BY <2>2
<1>7. r \in DOMAIN f
  BY <1>3, <1>4, <1>5, <1>6
<1>8. ASSUME NEW s \in DOMAIN f, Outranks(f, s, r) PROVE FALSE
  <2>1. \/ first[s] < first[r]
        \/ first[s] = first[r] /\ second[s] < second[r]
        \/ first[s] = first[r] /\ second[s] = second[r] /\ third[s] < third[r]
        \/ first[s] = first[r] /\ second[s] = second[r] /\ third[s] = third[r] /\ s < r
    BY <1>7, <1>8 DEF Outranks, first, second, third
  <2>2. first[r] <= first[s] /\ (first[s] = first[r] => s \in A)
    BY <1>1, <1>3, <1>4, <1>5, <1>6, <1>8 DEF A
  <2>3. s \in A => second[r] <= second[s] /\ (second[s] = second[r] => s \in B)
    BY <1>1, <1>4, <1>5, <1>6, <1>8 DEF B
  <2>4. s \in B => third[r] <= third[s] /\ (third[s] = third[r] => s \in C)
    BY <1>2, <1>5, <1>6, <1>8 DEF C
  <2>5. s \in C => r <= s
    BY <1>6
  <2>6. /\ first[s] \in Nat /\ first[r] \in Nat /\ second[s] \in Nat /\ second[r] \in Nat
        /\ third[s] \in Nat /\ third[r] \in Nat /\ s \in Nat /\ r \in Nat
    BY <1>1, <1>2, <1>7, <1>8
  <2>. QED
    BY <2>1, <2>2, <2>3, <2>4, <2>5, <2>6
<1>. QED
  BY <1>7, <1>8

LEMMA SomethingIsKept ==
  ASSUME NEW f, DOMAIN f # {}, DOMAIN f \subseteq Nat,
         \A r \in DOMAIN f : f[r] \subseteq Questions,
         NEW remaining \in Int, remaining > 0
  PROVE  Kept(f, remaining) # {} /\ Kept(f, remaining) \subseteq DOMAIN f
<1>1. PICK r \in DOMAIN f : \A s \in DOMAIN f : ~Outranks(f, s, r)
  BY SomebodyIsFirst
<1>2. {s \in DOMAIN f : Outranks(f, s, r)} = {}
  BY <1>1
<1>3. Cardinality({s \in DOMAIN f : Outranks(f, s, r)}) = 0
  BY <1>2, FS_EmptySet
<1>. QED
  BY <1>3 DEF Kept

---------------------------------------------------------------------------
LEMMA NextTypeOK == TypeOK /\ [Next]_vars => TypeOK'
<1>1. TypeOK /\ Next => TypeOK'
  BY TypeParts, KeepsControl, KeepsQueue, KeepsTask, KeepsCounters, KeepsLedger,
     KeepsLadder, KeepsWeb, KeepsVerdict, PTL
<1>2. TypeOK /\ UNCHANGED vars => TypeOK'
  BY DEF vars, budgets, ledger, ladder, task, web, verdict, TypeOK, Queued, GapRows
<1>. QED
  BY <1>1, <1>2

\* Every variable keeps its type, whatever the plan, the mode and the budgets.
THEOREM TypeCorrect == Spec => []TypeOK
  BY InitTypeOK, NextTypeOK, PTL DEF Spec

---------------------------------------------------------------------------
(* The follow-ups that are queued are follow-ups *)
LEMMA QueueShape ==
  ASSUME Queue(FollowUps)
  PROVE  /\ DOMAIN queue' \subseteq DOMAIN FollowUps
         /\ \A r \in DOMAIN queue' : queue'[r] = FollowUps[r]
         /\ pc' = "next_round" /\ stop' = stop
<1>. DEFINE f == FollowUps
<1>1. PICK kept \in SUBSET DOMAIN f : queue' = [r \in kept |-> f[r]]
  BY DEF Queue, Kept
<1>. QED
  BY <1>1 DEF Queue

(* A review either stops the run or queues follow-ups for the next round *)
LEMMA ReviewOutcome ==
  ASSUME ReviewCompleted \/ ReviewUnfinished
  PROVE  /\ pc = "followups"
         /\ UNCHANGED <<round, task, budgets, late, ledger, ladder, completed, web, runStatus>>
         /\ \/ Queue(FollowUps)
            \/ pc' = "settle" /\ UNCHANGED <<queue, leftOut>>
BY DEF ReviewCompleted, ReviewUnfinished, Stop

LEMMA KeepsPlaces == LoopInvariant /\ Next => Places'
<1>. SUFFICES ASSUME LoopInvariant, Next PROVE Places'
  OBVIOUS
<1>1. Places /\ TypeOK
  BY DEF LoopInvariant
<1>2. CASE BeginTask
  <2>1. PICK r \in DOMAIN queue :
          /\ role' = r /\ asking' = queue[r]
          /\ queue' = [s \in DOMAIN queue \ {r} |-> queue[s]]
    BY <1>2 DEF BeginTask
  <2>2. /\ outcome' = NoAnswer /\ pc' = "asking" /\ spent' = 0
    BY <1>2 DEF BeginTask
  <2>3. DOMAIN outcome' = {}
    BY <2>2 DEF NoAnswer
  <2>4. Owned(role', asking') /\ Owned(role', DOMAIN outcome')
    BY <1>1, <2>1, <2>3 DEF Places, Owned
  <2>5. \A s \in DOMAIN queue' : Owned(s, queue'[s])
    BY <1>1, <2>1 DEF Places
  <2>. QED
    BY <2>1, <2>2, <2>3, <2>4, <2>5 DEF Places, Owned, Assigned
<1>3. ASSUME NEW q \in Questions, Ask(q) PROVE Places'
  <2>1. PICK t \in Turns : Asked(q, t)
    BY <1>3 DEF Ask
  <2>2. DOMAIN outcome' = DOMAIN outcome \cup {q}
    BY <1>1, <2>1, AskOutcome
  <2>3. /\ pc = "asking" /\ q \in asking /\ asking' = asking \ {q}
        /\ UNCHANGED <<pc, role, queue, round>>
    BY <1>3 DEF Ask, StillToAsk
  <2>. QED
    BY <1>1, <2>2, <2>3 DEF Places, Owned, Assigned
<1>4. CASE FinishTask \/ TaskRaises
  <2>1. /\ role' = NoRole /\ asking' = {} /\ outcome' = NoAnswer /\ spent' = 0
        /\ pc' = "tasks" /\ UNCHANGED <<queue, round>>
    BY <1>4 DEF FinishTask, TaskRaises
  <2>2. DOMAIN outcome' = {}
    BY <2>1 DEF NoAnswer
  <2>. QED
    BY <1>1, <2>1, <2>2 DEF Places, Owned, Assigned
<1>5. CASE ReviewCompleted \/ ReviewUnfinished
  <2>1. /\ pc = "followups"
        /\ UNCHANGED <<round, role, asking, outcome, spent>>
        /\ \/ Queue(FollowUps)
           \/ pc' = "settle" /\ UNCHANGED <<queue, leftOut>>
    BY <1>5, ReviewOutcome DEF task
  <2>2. CASE Queue(FollowUps)
    <3>1. /\ \A r \in DOMAIN queue' : Owned(r, queue'[r])
          /\ pc' = "next_round"
      BY <2>2, QueueShape, FollowUpsAreOwned DEF Owned, Assigned
    <3>. QED
      BY <1>1, <2>1, <3>1 DEF Places, Owned, Assigned
  <2>3. CASE pc' = "settle" /\ UNCHANGED <<queue, leftOut>>
    BY <1>1, <2>1, <2>3 DEF Places, Owned, Assigned
  <2>. QED
    BY <2>1, <2>2, <2>3
<1>6. CASE EndRound
  BY <1>1, <1>6 DEF EndRound, Places, Owned, Assigned, task, TypeOK
<1>7. CASE WallPasses \/ BeginRound \/ HitLimit
  BY <1>1, <1>7 DEF WallPasses, BeginRound, HitLimit, Places, Owned, Assigned, task
<1>8. CASE WebRefused \/ NothingForTheWeb \/ WebRound \/ Close
  BY <1>1, <1>8 DEF WebRefused, NothingForTheWeb, WebRound, Close, Places, Owned, Assigned, task
<1>. QED
  BY <1>2, <1>3, <1>4, <1>5, <1>6, <1>7, <1>8 DEF Next

LEMMA KeepsFirstRound == LoopInvariant /\ Next => FirstRound'
<1>. SUFFICES ASSUME LoopInvariant, Next PROVE FirstRound'
  OBVIOUS
<1>1. Places /\ FirstRound /\ TypeOK
  BY DEF LoopInvariant
<1>2. CASE BeginTask
  <2>1. PICK r \in DOMAIN queue :
          /\ asking' = queue[r]
          /\ queue' = [s \in DOMAIN queue \ {r} |-> queue[s]]
    BY <1>2 DEF BeginTask
  <2>2. outcome' = NoAnswer /\ UNCHANGED <<round, worked, corpus, searched>>
    BY <1>2 DEF BeginTask, ladder
  <2>3. DOMAIN outcome' = {}
    BY <2>2 DEF NoAnswer
  <2>. QED
    BY <1>1, <2>1, <2>2, <2>3 DEF FirstRound
<1>3. ASSUME NEW q \in Questions, Ask(q) PROVE FirstRound'
  <2>1. PICK t \in Turns : Asked(q, t)
    BY <1>3 DEF Ask
  <2>2. DOMAIN outcome' = DOMAIN outcome \cup {q}
    BY <1>1, <2>1, AskOutcome
  <2>3. /\ q \in asking /\ asking' = asking \ {q}
        /\ UNCHANGED <<queue, round, worked, corpus, searched>>
    BY <1>3 DEF Ask, StillToAsk, ladder
  <2>. QED
    BY <1>1, <2>2, <2>3 DEF FirstRound
<1>4. CASE FinishTask
  <2>1. /\ pc = "asking" /\ asking' = {} /\ outcome' = NoAnswer /\ UNCHANGED <<queue, round>>
        /\ worked' = worked \cup DOMAIN outcome
    BY <1>4 DEF FinishTask
  <2>2. DOMAIN outcome' = {}
    BY <2>1 DEF NoAnswer
  <2>3. \A r \in DOMAIN queue : queue[r] \cap DOMAIN outcome = {}
    BY <1>1, <2>1 DEF Places, Owned
  <2>4. \A q \in Questions \ worked' : corpus'[q] = 0 /\ searched'[q] = 0
    BY <1>1, <1>4, <2>1 DEF FinishTask, FirstRound
  <2>. QED
    BY <1>1, <2>1, <2>2, <2>3, <2>4 DEF FirstRound
<1>5. CASE TaskRaises
  <2>1. /\ asking' = {} /\ outcome' = NoAnswer
        /\ UNCHANGED <<queue, round, worked, corpus, searched>>
    BY <1>5 DEF TaskRaises, ladder
  <2>2. DOMAIN outcome' = {}
    BY <2>1 DEF NoAnswer
  <2>. QED
    BY <1>1, <2>1, <2>2 DEF FirstRound
<1>6. CASE ReviewCompleted \/ ReviewUnfinished
  <2>1. pc = "followups" /\ UNCHANGED <<round, worked, corpus, searched>>
    BY <1>6, ReviewOutcome DEF ladder
  <2>. QED
    BY <1>1, <2>1 DEF FirstRound, Places
<1>7. CASE EndRound
  BY <1>1, <1>7 DEF EndRound, FirstRound, ladder, TypeOK
<1>8. CASE WallPasses \/ BeginRound \/ HitLimit
  BY <1>1, <1>8 DEF WallPasses, BeginRound, HitLimit, FirstRound, ladder, task, TypeOK
<1>9. CASE WebRefused \/ NothingForTheWeb \/ WebRound \/ Close
  BY <1>1, <1>9 DEF WebRefused, NothingForTheWeb, WebRound, Close, FirstRound, ladder, task
<1>. QED
  BY <1>2, <1>3, <1>4, <1>5, <1>6, <1>7, <1>8, <1>9 DEF Next

LEMMA KeepsSpending == LoopInvariant /\ Next => Spending'
<1>. SUFFICES ASSUME LoopInvariant, Next PROVE Spending'
  OBVIOUS
<1>1. Places /\ FirstRound /\ Spending /\ TypeOK
  BY DEF LoopInvariant
<1>0. /\ round \in Nat /\ tasksRun \in Nat /\ calls \in Nat /\ spent \in Nat
      /\ searches \in Nat /\ webRounds \in Nat
      /\ corpus \in [Questions -> Nat] /\ searched \in [Questions -> Nat]
  BY <1>1 DEF TypeOK
<1>2. CASE BeginTask
  <2>1. tasksRun < MaxTasks
    BY <1>0, <1>2 DEF BeginTask, LimitHit
  <2>2. /\ pc = "tasks" /\ outcome' = NoAnswer /\ spent' = 0 /\ UNCHANGED budgets
        /\ UNCHANGED <<round, webRounds, corpus, searched>>
    BY <1>2 DEF BeginTask, ladder
  <2>3. DOMAIN outcome' = {}
    BY <2>2 DEF NoAnswer
  <2>. QED
    BY <1>0, <1>1, <2>1, <2>2, <2>3 DEF Spending, BudgetsHold, budgets
<1>3. ASSUME NEW q \in Questions, Ask(q) PROVE Spending'
  <2>1. PICK t \in Turns : Asked(q, t)
    BY <1>3 DEF Ask
  <2>2. /\ calls + spent' <= MaxCalls
        /\ searches <= SearchBudget => searches' <= SearchBudget
        /\ DOMAIN outcome' = DOMAIN outcome \cup {q}
        /\ \A p \in DOMAIN outcome \ {q} : outcome'[p] = outcome[p]
        /\ outcome'[q] \in Outcomes
        /\ outcome'[q].searched = 1 => searched[q] < SearchCap
        /\ ~Again(q) => outcome'[q].corpus <= Intents
        /\ Again(q) /\ corpus[q] <= Intents => corpus[q] + outcome'[q].corpus <= Intents
    BY <1>1, <2>1, AskOutcome
  <2>3. /\ q \in asking /\ pc = "asking"
        /\ UNCHANGED <<pc, round, tasksRun, calls, webRounds, worked, corpus, searched>>
    BY <1>3 DEF Ask, ladder, web
  <2>4. searches' <= SearchBudget
    BY <1>1, <2>2 DEF Spending, BudgetsHold
  <2>5. /\ outcome'[q].searched \in 0..1 /\ outcome'[q].corpus \in Nat
        /\ corpus[q] <= Intents /\ searched[q] <= SearchCap
        /\ corpus[q] \in Nat /\ searched[q] \in Nat
    BY <1>0, <1>1, <2>2 DEF Outcomes, Spending, BudgetsHold
  <2>6. ~Again(q) => corpus[q] = 0
    BY <1>1, <2>3 DEF Again, FirstRound, TypeOK
  <2>7. /\ corpus[q] + outcome'[q].corpus <= Intents
        /\ searched[q] + outcome'[q].searched <= SearchCap
    BY <2>2, <2>5, <2>6
  <2>8. \A p \in DOMAIN outcome' : /\ corpus'[p] + outcome'[p].corpus <= Intents
                                   /\ searched'[p] + outcome'[p].searched <= SearchCap
    BY <1>1, <2>2, <2>3, <2>7 DEF Spending
  <2>. QED
    BY <1>1, <2>2, <2>3, <2>4, <2>8 DEF Spending, BudgetsHold
<1>4. CASE FinishTask
  <2>1. /\ pc = "asking" /\ outcome' = NoAnswer /\ spent' = 0 /\ pc' = "tasks"
        /\ tasksRun' = tasksRun + 1 /\ calls' = calls + spent
        /\ UNCHANGED <<round, searches, webRounds>>
    BY <1>4 DEF FinishTask, web
  <2>2. DOMAIN outcome' = {}
    BY <2>1 DEF NoAnswer
  <2>3. \A q \in Questions : corpus'[q] <= Intents /\ searched'[q] <= SearchCap
    BY <1>1, <1>4 DEF FinishTask, Spending, BudgetsHold
  <2>. QED
    BY <1>0, <1>1, <2>1, <2>2, <2>3 DEF Spending, BudgetsHold
<1>5. CASE TaskRaises
  <2>1. /\ pc = "asking" /\ outcome' = NoAnswer /\ spent' = 0 /\ pc' = "tasks"
        /\ tasksRun' = tasksRun + 1
        /\ UNCHANGED <<round, calls, searches, webRounds, corpus, searched>>
    BY <1>5 DEF TaskRaises, web, ladder
  <2>2. DOMAIN outcome' = {}
    BY <2>1 DEF NoAnswer
  <2>. QED
    BY <1>0, <1>1, <2>1, <2>2 DEF Spending, BudgetsHold
<1>6. CASE WebRound
  <2>1. webRounds < WebRounds
    BY <1>0, <1>6 DEF WebRound, RefusedBy, WebSpent
  <2>2. /\ webRounds' = webRounds + 1 /\ pc' = "followups"
        /\ UNCHANGED <<round, tasksRun, calls, searches, spent, outcome, corpus, searched>>
    BY <1>6 DEF WebRound, budgets, task, ladder
  <2>. QED
    BY <1>0, <1>1, <2>1, <2>2 DEF Spending, BudgetsHold
<1>7. CASE BeginRound \/ HitLimit
  <2>1. /\ UNCHANGED <<tasksRun, calls, searches, spent, outcome, corpus, searched, webRounds>>
        /\ \/ pc' = "settle" /\ round' = round
           \/ pc' = "tasks" /\ round' = round /\ round # MaxRounds
           \/ pc = "tasks" /\ pc' = "settle" /\ round' = round + 1
    BY <1>7 DEF BeginRound, HitLimit, budgets, task, ladder, web
  <2>. QED
    BY <1>0, <1>1, <2>1 DEF Spending, BudgetsHold
<1>8. CASE EndRound
  <2>1. /\ UNCHANGED <<tasksRun, calls, searches, spent, outcome, corpus, searched, webRounds>>
        /\ pc = "tasks" /\ pc' \in {"web", "followups"} /\ round' = round + 1
    BY <1>8 DEF EndRound, budgets, task, ladder, web
  <2>. QED
    BY <1>0, <1>1, <2>1 DEF Spending, BudgetsHold
<1>9. ASSUME UNCHANGED <<round, tasksRun, calls, searches, spent, outcome, corpus,
                         searched, webRounds>>,
             pc' = pc \/ pc' \notin {"tasks", "asking"}
      PROVE  Spending'
  BY <1>1, <1>9 DEF Spending, BudgetsHold
<1>10. CASE ReviewCompleted \/ ReviewUnfinished
  <2>1. pc' \in {"next_round", "settle"}
    BY <1>10, ReviewOutcome, QueueShape
  <2>. QED
    BY <1>9, <1>10, <2>1, ReviewOutcome DEF budgets, task, ladder, web
<1>11. CASE WallPasses \/ WebRefused \/ NothingForTheWeb \/ Close
  BY <1>9, <1>11 DEF WallPasses, WebRefused, NothingForTheWeb, Close, budgets, task, ladder, web
<1>. QED
  BY <1>2, <1>3, <1>4, <1>5, <1>6, <1>7, <1>8, <1>10, <1>11 DEF Next

---------------------------------------------------------------------------
(* What the loop writes to the ledger: an open question may be answered or  *)
(* given up, gaps are only added, and only unclosable gaps are accepted     *)

LEMMA LedgerGrows ==
  ASSUME LoopInvariant, Next
  PROVE  /\ ClosableGaps \subseteq ClosableGaps'
         /\ \A g \in OpenGaps' : BlocksCouncil(g) => g \in OpenGaps
         /\ OpenQuestions' \subseteq OpenQuestions
<1>1. TypeOK
  BY DEF LoopInvariant
<1>2. CASE FinishTask
  <2>1. /\ gaps' = gaps \cup UNION {{Gap(q, round, k) : k \in outcome[q].kinds} : q \in DOMAIN outcome}
        /\ accepted' = accepted
        /\ status' = [q \in Questions |->
             IF q \in DOMAIN outcome /\ outcome[q].answered THEN "answered" ELSE status[q]]
    BY <1>2 DEF FinishTask
  <2>2. \A q \in DOMAIN outcome : outcome[q].kinds \subseteq GapKinds
    BY <1>1 DEF TypeOK, Outcomes
  <2>3. \A g \in gaps' : BlocksCouncil(g) => g \in gaps
    BY <2>1, <2>2 DEF BlocksCouncil, Gap
  <2>. QED
    BY <2>1, <2>3 DEF ClosableGaps, OpenGaps, OpenQuestions
<1>3. CASE Close
  <2>1. PICK absent \in BOOLEAN :
          LET released == {q \in Conditional : absent /\ status[q] = "open"} IN
          /\ status' = [q \in Questions |->
               IF q \in released THEN "unanswerable" ELSE status[q]]
          /\ gaps' = gaps \cup {Gap(q, round, "unclosable") : q \in released}
    BY <1>3 DEF Close
  <2>2. accepted' = accepted \cup {g \in OpenGaps : ~Closable(g)}
    BY <1>3 DEF Close
  <2>3. ClosableGaps \subseteq ClosableGaps'
    BY <2>1, <2>2 DEF ClosableGaps, OpenGaps
  <2>4. \A g \in OpenGaps' : BlocksCouncil(g) => g \in OpenGaps
    BY <2>1, <2>2 DEF OpenGaps, BlocksCouncil, Gap
  <2>5. OpenQuestions' \subseteq OpenQuestions
    BY <2>1 DEF OpenQuestions
  <2>. QED
    BY <2>3, <2>4, <2>5
<1>4. ASSUME UNCHANGED ledger
      PROVE  /\ ClosableGaps \subseteq ClosableGaps'
             /\ \A g \in OpenGaps' : BlocksCouncil(g) => g \in OpenGaps
             /\ OpenQuestions' \subseteq OpenQuestions
  BY <1>4 DEF ledger, ClosableGaps, OpenGaps, OpenQuestions
<1>5. CASE WallPasses \/ BeginRound \/ HitLimit \/ BeginTask \/ \E q \in Questions : Ask(q)
  BY <1>4, <1>5 DEF WallPasses, BeginRound, HitLimit, BeginTask, Ask
<1>6. CASE TaskRaises \/ EndRound \/ WebRefused \/ NothingForTheWeb \/ WebRound
           \/ ReviewCompleted \/ ReviewUnfinished
  BY <1>4, <1>6 DEF TaskRaises, EndRound, WebRefused, NothingForTheWeb, WebRound,
     ReviewCompleted, ReviewUnfinished
<1>. QED
  BY <1>2, <1>3, <1>5, <1>6 DEF Next

LEMMA RulesStayMet == LoopInvariant /\ Next /\ RulesSatisfied => RulesSatisfied'
<1>. SUFFICES ASSUME LoopInvariant, Next, RulesSatisfied PROVE RulesSatisfied'
  OBVIOUS
<1>1. /\ \A g \in OpenGaps' : BlocksCouncil(g) => g \in OpenGaps
      /\ OpenQuestions' \subseteq OpenQuestions
  BY LedgerGrows
<1>2. NoBlockingQuestionOpen => NoBlockingQuestionOpen'
  BY <1>1 DEF NoBlockingQuestionOpen
<1>3. NoBlockingGapOpen => NoBlockingGapOpen'
  BY <1>1 DEF NoBlockingGapOpen, BlocksCouncil
<1>. QED
  BY <1>1, <1>2, <1>3 DEF RulesSatisfied, CouncilMayConvene

LEMMA KeepsCompleteness == LoopInvariant /\ Next => Completeness'
<1>. SUFFICES ASSUME LoopInvariant, Next PROVE Completeness'
  OBVIOUS
<1>1. Completeness /\ Spending /\ Reasons /\ TypeOK
  BY DEF LoopInvariant
<1>2. RulesSatisfied => RulesSatisfied'
  BY RulesStayMet
<1>3. ASSUME UNCHANGED <<completed, stop, runStatus>>, pc \notin {"settle", "closed"},
             pc' # "next_round"
      PROVE  Completeness'
  BY <1>1, <1>2, <1>3 DEF Completeness, CompletionStands
<1>4. CASE BeginRound
  <2>1. /\ pc = "next_round" /\ UNCHANGED <<completed, runStatus>>
        /\ \/ round = MaxRounds /\ stop' = "max_rounds" /\ pc' = "settle"
           \/ stop' \in {"no_closable_gaps", "completion_rules_satisfied"} /\ pc' = "settle"
           \/ pc' = "tasks" /\ stop' = stop
    BY <1>4 DEF BeginRound
  <2>2. completed => round # MaxRounds
    BY <1>1, <2>1 DEF Completeness, TypeOK
  <2>. QED
    BY <1>1, <1>2, <2>1, <2>2 DEF Completeness, CompletionStands
<1>5. CASE HitLimit
  <2>1. /\ pc' = "settle" /\ UNCHANGED <<completed, runStatus>>
        /\ pc = "tasks"
        /\ completed => stop' = "completion_rules_satisfied"
    BY <1>5 DEF HitLimit, StopOn
  <2>. QED
    BY <1>1, <1>2, <2>1 DEF Completeness, CompletionStands
<1>6. CASE EndRound
  <2>1. /\ completed' = (completed \/ RulesSatisfied) /\ pc = "tasks"
        /\ pc' \in {"web", "followups"} /\ UNCHANGED <<stop, runStatus>>
    BY <1>6 DEF EndRound, verdict
  <2>. QED
    BY <1>1, <1>2, <2>1 DEF Completeness, CompletionStands
<1>7. CASE ReviewCompleted
  <2>1. /\ pc = "followups" /\ UNCHANGED <<completed, runStatus, round>> /\ completed
        /\ \/ pc' = "settle" /\ stop' = "completion_rules_satisfied"
           \/ round # MaxRounds /\ Queue(FollowUps)
    BY <1>7 DEF ReviewCompleted, Stop, LastRound
  <2>2. Queue(FollowUps) => pc' = "next_round" /\ stop' = stop
    BY QueueShape
  <2>3. round # MaxRounds => round < MaxRounds
    BY <1>1 DEF Spending, BudgetsHold, TypeOK
  <2>. QED
    BY <1>1, <1>2, <2>1, <2>2, <2>3 DEF Completeness, CompletionStands
<1>8. CASE ReviewUnfinished
  <2>1. /\ pc = "followups" /\ UNCHANGED <<completed, runStatus>> /\ ~completed
        /\ \/ pc' = "settle"
           \/ Queue(FollowUps)
    BY <1>8 DEF ReviewUnfinished, Stop
  <2>2. Queue(FollowUps) => pc' = "next_round" /\ stop' = stop
    BY QueueShape
  <2>. QED
    BY <1>1, <2>1, <2>2 DEF Completeness, CompletionStands
<1>9. CASE Close
  <2>1. /\ pc = "settle" /\ pc' = "closed" /\ UNCHANGED completed
        /\ runStatus' = IF stop' \in Limits THEN "stopped" ELSE "reviewing"
    BY <1>9 DEF Close
  <2>2. PICK closed \in SUBSET handled : SettleWebStop(closed)
    BY <1>9 DEF Close
  <2>3. completed => stop' \in Completions \cup {None}
    BY <1>1, <2>2 DEF SettleWebStop, Completeness, CompletionStands
  <2>4. completed => runStatus' # "stopped"
    BY <2>1, <2>3
  <2>. QED
    BY <1>1, <1>2, <2>1, <2>3, <2>4 DEF Completeness, CompletionStands
<1>10. CASE WallPasses \/ BeginTask \/ FinishTask \/ TaskRaises \/ \E q \in Questions : Ask(q)
  BY <1>3, <1>10 DEF WallPasses, BeginTask, FinishTask, TaskRaises, Ask, verdict
<1>11. CASE WebRefused \/ NothingForTheWeb \/ WebRound
  BY <1>3, <1>11 DEF WebRefused, NothingForTheWeb, WebRound, verdict
<1>. QED
  BY <1>2, <1>4, <1>5, <1>6, <1>7, <1>8, <1>9, <1>10, <1>11 DEF Next

---------------------------------------------------------------------------
(* Every question worth a task is queued, or left out by the task budget *)
LEMMA QueueTakesAll ==
  ASSUME Queue(FollowUps)
  PROVE  GapKeys \subseteq Queued' \cup leftOut'
<1>. DEFINE f == FollowUps
            kept == IF Cardinality(DOMAIN f) > TasksLeft THEN Kept(f, TasksLeft) ELSE DOMAIN f
<1>1. kept \subseteq DOMAIN f
  BY DEF Kept
<1>2. /\ queue' = [r \in kept |-> f[r]]
      /\ leftOut' = leftOut \cup ((UNION {f[r] : r \in DOMAIN f \ kept}) \cap GapKeys)
  BY DEF Queue
<1>3. ASSUME NEW q \in GapKeys PROVE RoleOf[q] \in DOMAIN f /\ q \in f[RoleOf[q]]
  BY <1>3 DEF FollowUps
<1>. HIDE DEF kept, f
<1>4. ASSUME NEW q \in GapKeys PROVE q \in Queued' \cup leftOut'
  <2>1. CASE RoleOf[q] \in kept
    BY <1>2, <1>3, <2>1 DEF Queued
  <2>2. CASE RoleOf[q] \notin kept
    BY <1>2, <1>3, <1>4, <2>2
  <2>. QED
    BY <2>1, <2>2
<1>. QED
  BY <1>4

\* ... and then at least one task is
LEMMA QueueIsNotEmpty ==
  ASSUME TypeOK, Queue(FollowUps), DOMAIN FollowUps # {}, TasksLeft > 0
  PROVE  DOMAIN queue' # {}
<1>. DEFINE f == FollowUps
            kept == IF Cardinality(DOMAIN f) > TasksLeft THEN Kept(f, TasksLeft) ELSE DOMAIN f
<1>1. queue' = [r \in kept |-> f[r]]
  BY DEF Queue
<1>2. DOMAIN f \subseteq Nat /\ \A r \in DOMAIN f : f[r] \subseteq Questions
  <2>1. \A r \in DOMAIN f : f[r] \subseteq {q \in Assigned : RoleOf[q] = r}
    BY FollowUpsAreOwned
  <2>2. DOMAIN f \subseteq Roles
    BY FollowUpsAreOwned
  <2>. HIDE DEF f
  <2>. QED
    BY <2>1, <2>2 DEF Assigned
<1>3. TasksLeft \in Int
  BY DEF TasksLeft, TypeOK
<1>4. DOMAIN f # {}
  OBVIOUS
<1>. HIDE DEF f
<1>5. kept # {}
  BY <1>2, <1>3, <1>4, SomethingIsKept
<1>. QED
  BY <1>1, <1>5

(* A question the web round fed is worth a task *)
LEMMA FedIsWorthATask ==
  ASSUME LoopInvariant, pc = "followups", fresh # {}
  PROVE  /\ fresh \subseteq GapKeys /\ DOMAIN FollowUps # {}
         /\ ~LastRound /\ TasksLeft > 0 /\ round < MaxRounds
<1>1. Feeding /\ TypeOK
  BY DEF LoopInvariant
<1>2. \A q \in fresh : q \in Assigned /\ \E g \in ClosableGaps : g.question = q
  BY <1>1 DEF Feeding, ClosableGaps, OpenGaps
<1>3. fresh \subseteq GapKeys
  BY <1>2 DEF GapKeys, HasRungLeft
<1>4. DOMAIN FollowUps # {}
  <2>1. PICK q \in fresh : q \in GapKeys
    BY <1>3
  <2>. QED
    BY <2>1 DEF FollowUps
<1>5. round < MaxRounds /\ tasksRun < MaxTasks
  BY <1>1 DEF Feeding
<1>. QED
  BY <1>1, <1>3, <1>4, <1>5 DEF LastRound, TasksLeft, TypeOK

LEMMA KeepsFeeding == LoopInvariant /\ Next => Feeding'
<1>. SUFFICES ASSUME LoopInvariant, Next PROVE Feeding'
  OBVIOUS
<1>1. Feeding /\ Places /\ Spending /\ TypeOK
  BY DEF LoopInvariant
<1>2. \A g \in gaps' : Closable(g) => g.question \in Assigned
  <2>1. CASE FinishTask
    <3>1. gaps' = gaps \cup UNION {{Gap(q, round, k) : k \in outcome[q].kinds} : q \in DOMAIN outcome}
      BY <2>1 DEF FinishTask
    <3>2. DOMAIN outcome \subseteq Assigned
      BY <1>1 DEF Places, Owned
    <3>. QED
      BY <1>1, <3>1, <3>2 DEF Feeding, Gap
  <2>2. CASE Close
    <3>1. PICK released \in SUBSET Questions :
            gaps' = gaps \cup {Gap(q, round, "unclosable") : q \in released}
      BY <2>2 DEF Close
    <3>. QED
      BY <1>1, <3>1 DEF Feeding, Gap, Closable
  <2>3. ASSUME UNCHANGED ledger PROVE \A g \in gaps' : Closable(g) => g.question \in Assigned
    BY <1>1, <2>3 DEF Feeding, ledger
  <2>4. CASE WallPasses \/ BeginRound \/ HitLimit \/ BeginTask \/ \E q \in Questions : Ask(q)
    BY <2>3, <2>4 DEF WallPasses, BeginRound, HitLimit, BeginTask, Ask
  <2>5. CASE TaskRaises \/ EndRound \/ WebRefused \/ NothingForTheWeb \/ WebRound
             \/ ReviewCompleted \/ ReviewUnfinished
    BY <2>3, <2>5 DEF TaskRaises, EndRound, WebRefused, NothingForTheWeb, WebRound,
       ReviewCompleted, ReviewUnfinished
  <2>. QED
    BY <2>1, <2>2, <2>4, <2>5 DEF Next
<1>3. ASSUME fresh' = {} PROVE Feeding'
  BY <1>2, <1>3 DEF Feeding, FedQuestionsAreQueued
<1>4. ASSUME fresh = {}, fresh' = fresh PROVE Feeding'
  BY <1>3, <1>4
<1>5. CASE BeginRound
  BY <1>3, <1>5 DEF BeginRound
<1>6. CASE WallPasses \/ HitLimit \/ BeginTask \/ FinishTask \/ TaskRaises
           \/ \E q \in Questions : Ask(q)
  <2>1. fresh' = fresh /\ pc \in {"tasks", "asking", "web"}
    BY <1>6 DEF WallPasses, HitLimit, BeginTask, FinishTask, TaskRaises, Ask, web
  <2>. QED
    BY <1>1, <1>4, <2>1 DEF Feeding
<1>7. CASE EndRound \/ WebRefused \/ NothingForTheWeb \/ Close
  <2>1. fresh' = fresh /\ pc \in {"tasks", "web", "settle"}
    BY <1>7 DEF EndRound, WebRefused, NothingForTheWeb, Close, web
  <2>. QED
    BY <1>1, <1>4, <2>1 DEF Feeding
<1>8. CASE WebRound
  <2>0. fresh = {}
    BY <1>1, <1>8 DEF WebRound, Feeding
  <2>1. PICK chosen \in SUBSET ClosableGaps :
          fresh' = {} \/ fresh' = {g.question : g \in chosen}
    BY <1>8, <2>0 DEF WebRound, SelectGaps, Candidates
  <2>2. round < MaxRounds /\ tasksRun < MaxTasks
    <3>1. ~LastRound /\ ~(TasksLeft <= 0)
      BY <1>8 DEF WebRound, RefusedBy
    <3>. QED
      BY <1>1, <3>1 DEF LastRound, TasksLeft, Spending, BudgetsHold, TypeOK
  <2>3. pc' = "followups" /\ UNCHANGED <<round, tasksRun, gaps, accepted>>
    BY <1>8 DEF WebRound, budgets, ledger
  <2>4. \A q \in fresh' : \E g \in ClosableGaps' : g.question = q
    BY <2>1, <2>3 DEF ClosableGaps, OpenGaps
  <2>. QED
    BY <1>2, <2>2, <2>3, <2>4 DEF Feeding, FedQuestionsAreQueued
<1>9. CASE ReviewCompleted \/ ReviewUnfinished
  <2>1. pc = "followups" /\ UNCHANGED <<fresh, round>>
    BY <1>9, ReviewOutcome DEF web
  <2>2. CASE fresh # {}
    <3>1. /\ fresh \subseteq GapKeys /\ DOMAIN FollowUps # {}
          /\ ~LastRound /\ TasksLeft > 0 /\ round < MaxRounds
      BY <2>1, <2>2, FedIsWorthATask
    <3>2. ~(TasksLeft <= 0)
      BY <1>1, <3>1 DEF TasksLeft, TypeOK
    <3>3. Queue(FollowUps)
      BY <1>9, <3>1, <3>2 DEF ReviewCompleted, ReviewUnfinished
    <3>4. pc' = "next_round" /\ GapKeys \subseteq Queued' \cup leftOut'
      BY <3>3, QueueShape, QueueTakesAll
    <3>. QED
      BY <1>2, <2>1, <3>1, <3>4 DEF Feeding, FedQuestionsAreQueued
  <2>. QED
    BY <1>4, <2>1, <2>2
<1>. QED
  BY <1>5, <1>6, <1>7, <1>8, <1>9 DEF Next

---------------------------------------------------------------------------
(* A step of the loop that writes nothing the follow-ups are chosen by      *)
(* leaves what is worth a task as it was                                    *)
LEMMA SameWork ==
  ASSUME UNCHANGED <<status, gaps, accepted, corpus, searched, searches>>
  PROVE  /\ ClosableGaps' = ClosableGaps /\ Answered' = Answered
         /\ NothingWorthATask => NothingWorthATask'
         /\ fresh' = fresh => GapKeys' = GapKeys
<1>1. ClosableGaps' = ClosableGaps /\ Answered' = Answered
  BY DEF ClosableGaps, OpenGaps, Answered
<1>2. \A q \in Questions, b \in BOOLEAN : HasRungLeft(q, b)' = HasRungLeft(q, b)
  BY DEF HasRungLeft, CanSearch
<1>. QED
  BY <1>1 DEF NothingWorthATask, GapKeys, HasRungLeft, CanSearch

\* Nothing is worth a task when no closable gap has a key
LEMMA NoKeysNoTask ==
  ASSUME LoopInvariant, GapKeys = {}
  PROVE  NothingWorthATask
<1>1. \A g \in ClosableGaps : g.question \in Assigned
  BY DEF LoopInvariant, Feeding, ClosableGaps, OpenGaps
<1>. QED
  BY <1>1 DEF NothingWorthATask, GapKeys, HasRungLeft

LEMMA CloseKeepsWork ==
  ASSUME LoopInvariant, Close
  PROVE  /\ NothingWorthATask => NothingWorthATask'
         /\ GapKeys' = GapKeys
<1>1. TypeOK
  BY DEF LoopInvariant
<1>2. PICK absent \in BOOLEAN :
        LET released == {q \in Conditional : absent /\ status[q] = "open"} IN
        /\ status' = [q \in Questions |->
             IF q \in released THEN "unanswerable" ELSE status[q]]
        /\ gaps' = gaps \cup {Gap(q, round, "unclosable") : q \in released}
  BY DEF Close
<1>3. /\ accepted' = accepted \cup {g \in OpenGaps : ~Closable(g)}
      /\ UNCHANGED <<corpus, searched, searches, fresh>>
  BY DEF Close, ladder, web, budgets
<1>4. ClosableGaps' = ClosableGaps
  BY <1>2, <1>3 DEF ClosableGaps, OpenGaps, Closable, Gap
<1>5. Answered' = Answered
  BY <1>1, <1>2 DEF Answered, TypeOK
<1>. QED
  BY <1>3, <1>4, <1>5 DEF NothingWorthATask, GapKeys, HasRungLeft, CanSearch

LEMMA KeepsReasons == LoopInvariant /\ Next => Reasons'
<1>. SUFFICES ASSUME LoopInvariant, Next PROVE Reasons'
  OBVIOUS
<1>1. Reasons /\ Completeness /\ Places /\ Spending /\ TypeOK
  BY DEF LoopInvariant
<1>2. ClosableGaps \subseteq ClosableGaps'
  BY LedgerGrows
<1>3. webLimit' # None => \E g \in ClosableGaps' : WebAnswerable(g)'
  <2>1. CASE webLimit' = webLimit
    BY <1>1, <1>2, <2>1 DEF Reasons, WebAnswerable
  <2>2. CASE WebRefused \/ WebRound
    <3>1. PICK g \in ClosableGaps : WebAnswerable(g)
      BY <2>2 DEF WebRefused, WebRound, Candidates
    <3>. QED
      BY <1>2, <3>1 DEF WebAnswerable
  <2>3. CASE WallPasses \/ BeginRound \/ HitLimit \/ BeginTask \/ FinishTask
             \/ \E q \in Questions : Ask(q)
    BY <2>1, <2>3 DEF WallPasses, BeginRound, HitLimit, BeginTask, FinishTask, Ask, web
  <2>4. CASE TaskRaises \/ EndRound \/ NothingForTheWeb \/ ReviewCompleted
             \/ ReviewUnfinished \/ Close
    BY <2>1, <2>4 DEF TaskRaises, EndRound, NothingForTheWeb, ReviewCompleted,
       ReviewUnfinished, Close, web
  <2>. QED
    BY <2>2, <2>3, <2>4 DEF Next
<1>4. ASSUME pc' \notin {"next_round", "settle", "closed"} PROVE Reasons'
  BY <1>3, <1>4 DEF Reasons
<1>5. CASE BeginRound
  <2>1. /\ pc = "next_round" /\ pc' \in {"tasks", "settle"} /\ UNCHANGED <<queue, round>>
        /\ pc' = "settle" =>
             \/ round = MaxRounds /\ stop' = "max_rounds"
             \/ DOMAIN queue = {} /\ (round > 0 \/ stop' = "completion_rules_satisfied")
    BY <1>5 DEF BeginRound
  <2>2. round # 0 => DOMAIN queue # {}
    BY <1>1, <2>1 DEF Reasons
  <2>3. round = MaxRounds => round # 0
    OBVIOUS
  <2>4. pc' = "settle" => \/ DOMAIN queue # {} /\ stop' = "max_rounds"
                          \/ stop' = "completion_rules_satisfied"
    BY <1>1, <2>1, <2>2, <2>3 DEF TypeOK
  <2>. QED
    BY <1>3, <2>1, <2>4 DEF Reasons
<1>6. CASE HitLimit
  <2>1. /\ pc' = "settle" /\ UNCHANGED queue /\ DOMAIN queue # {}
        /\ stop' \in {LimitHit, "completion_rules_satisfied"} /\ LimitHit # None
    BY <1>6 DEF HitLimit, StopOn
  <2>2. stop' \notin {"no_closable_gaps", "saturation"}
    BY <2>1, LimitsAreLimits
  <2>. QED
    BY <1>3, <2>1, <2>2 DEF Reasons
<1>7. CASE ReviewCompleted \/ ReviewUnfinished
  <2>1. /\ pc = "followups"
        /\ UNCHANGED <<status, gaps, accepted, corpus, searched, searches, fresh, round>>
    BY <1>7, ReviewOutcome DEF ledger, ladder, budgets, web
  <2>2. GapKeys' = GapKeys /\ (NothingWorthATask => NothingWorthATask')
    BY <2>1, SameWork
  <2>3. GapKeys = {} => NothingWorthATask'
    BY <2>2, NoKeysNoTask
  <2>4. CASE /\ Queue(FollowUps) /\ DOMAIN FollowUps # {} /\ ~(TasksLeft <= 0)
    <3>1. TasksLeft > 0
      BY <1>1, <2>4 DEF TasksLeft, TypeOK
    <3>2. DOMAIN queue' # {} /\ pc' = "next_round"
      BY <1>1, <2>4, <3>1, QueueIsNotEmpty, QueueShape
    <3>. QED
      BY <1>3, <3>2 DEF Reasons
  <2>5. CASE pc' = "settle" /\ stop' = "completion_rules_satisfied"
    BY <1>3, <2>5 DEF Reasons
  <2>6. CASE pc' = "settle" /\ stop' = "no_closable_gaps" /\ GapKeys = {}
    BY <1>3, <2>3, <2>6 DEF Reasons
  <2>7. CASE pc' = "settle" /\ stop' = "max_tasks" /\ GapKeys # {}
    BY <1>3, <2>2, <2>7 DEF Reasons
  <2>8. DOMAIN FollowUps = {} => GapKeys = {}
    BY DEF FollowUps
  <2>9. CASE ReviewCompleted
    BY <2>4, <2>5, <2>9 DEF ReviewCompleted, Stop
  <2>10. CASE ReviewUnfinished
    BY <2>4, <2>6, <2>7, <2>8, <2>10 DEF ReviewUnfinished, Stop, NoTaskLeft
  <2>. QED
    BY <1>7, <2>9, <2>10
<1>8. CASE Close
  <2>1. pc = "settle" /\ pc' = "closed" /\ UNCHANGED <<queue, webLimit>>
    BY <1>8 DEF Close, web
  <2>2. PICK closed \in SUBSET handled : SettleWebStop(closed)
    BY <1>8 DEF Close
  <2>3. GapKeys' = GapKeys /\ (NothingWorthATask => NothingWorthATask')
    BY <1>8, CloseKeepsWork
  <2>4. \/ stop' = stop
        \/ stop' = webLimit /\ webLimit # None
        \/ stop' \in {"answered", "completion_rules_satisfied"}
        \/ stop' = "saturation" /\ stop = "no_closable_gaps"
    BY <2>2 DEF SettleWebStop
  <2>5. stop' \in {"no_closable_gaps", "saturation"} => NothingWorthATask'
    BY <1>1, <2>1, <2>3, <2>4 DEF Reasons, TypeOK
  <2>6. stop' \in Limits => \/ DOMAIN queue' # {} \/ GapKeys' # {} \/ webLimit' = stop'
    BY <1>1, <2>1, <2>3, <2>4 DEF Reasons
  <2>. QED
    BY <1>3, <2>1, <2>5, <2>6 DEF Reasons
<1>9. CASE WallPasses \/ BeginTask \/ FinishTask \/ TaskRaises \/ \E q \in Questions : Ask(q)
  BY <1>4, <1>9 DEF WallPasses, BeginTask, FinishTask, TaskRaises, Ask
<1>10. CASE EndRound \/ WebRefused \/ NothingForTheWeb \/ WebRound
  BY <1>4, <1>10 DEF EndRound, WebRefused, NothingForTheWeb, WebRound
<1>. QED
  BY <1>5, <1>6, <1>7, <1>8, <1>9, <1>10 DEF Next

---------------------------------------------------------------------------
LEMMA InitLoopInvariant == Init => LoopInvariant
<1>. SUFFICES ASSUME Init PROVE LoopInvariant
  OBVIOUS
<1>1. TypeOK
  BY InitTypeOK
<1>2. DOMAIN outcome = {}
  BY DEF Init, NoAnswer
<1>3. Places
  BY <1>2 DEF Init, Places, Owned, Assigned
<1>4. FirstRound
  BY <1>2 DEF Init, FirstRound, Assigned
<1>5. Spending
  BY <1>2 DEF Init, Spending, BudgetsHold
<1>6. Completeness
  BY DEF Init, Completeness, CompletionStands
<1>7. Feeding
  BY DEF Init, Feeding, FedQuestionsAreQueued, Gap, Closable
<1>8. Reasons
  BY DEF Init, Reasons
<1>. QED
  BY <1>1, <1>3, <1>4, <1>5, <1>6, <1>7, <1>8 DEF LoopInvariant

LEMMA NextLoopInvariant == LoopInvariant /\ [Next]_vars => LoopInvariant'
<1>1. LoopInvariant /\ Next => LoopInvariant'
  <2>1. LoopInvariant /\ Next => TypeOK'
    BY NextTypeOK DEF LoopInvariant
  <2>. QED
    BY <2>1, KeepsPlaces, KeepsFirstRound, KeepsSpending, KeepsCompleteness, KeepsFeeding,
       KeepsReasons DEF LoopInvariant
<1>2. LoopInvariant /\ UNCHANGED vars => LoopInvariant'
  <2>. SUFFICES ASSUME LoopInvariant, UNCHANGED vars PROVE LoopInvariant'
    OBVIOUS
  <2>1. /\ UNCHANGED <<pc, round, queue, role, asking, outcome, spent, tasksRun, calls,
                       searches, status, gaps, accepted, worked, corpus, searched>>
        /\ UNCHANGED <<completed, webRounds, fresh, webLimit, stop, runStatus, leftOut>>
    BY DEF vars, budgets, ledger, ladder, task, web, verdict
  <2>2. TypeOK'
    BY NextTypeOK DEF LoopInvariant
  <2>3. Places' /\ FirstRound' /\ Spending'
    BY <2>1 DEF LoopInvariant, Places, FirstRound, Spending, BudgetsHold, Owned, Assigned
  <2>4. Completeness'
    BY <2>1 DEF LoopInvariant, Completeness, CompletionStands, RulesSatisfied,
       CouncilMayConvene, NoBlockingQuestionOpen, NoBlockingGapOpen, OpenQuestions, OpenGaps,
       BlocksCouncil
  <2>5. Queued' = Queued
    BY <2>1 DEF Queued
  <2>6. ClosableGaps' = ClosableGaps
    BY <2>1, SameWork
  <2>7. Feeding'
    BY <2>1, <2>5, <2>6 DEF LoopInvariant, Feeding, FedQuestionsAreQueued
  <2>8. GapKeys' = GapKeys /\ (NothingWorthATask => NothingWorthATask')
    BY <2>1, SameWork
  <2>9. Reasons'
    BY <2>1, <2>6, <2>8 DEF LoopInvariant, Reasons
  <2>. QED
    BY <2>2, <2>3, <2>4, <2>7, <2>9 DEF LoopInvariant
<1>. QED
  BY <1>1, <1>2

LEMMA LoopInvariantHolds == Spec => []LoopInvariant
  BY InitLoopInvariant, NextLoopInvariant, PTL DEF Spec

(* No budget is exceeded, whatever the plan, the mode, what the tools       *)
(* return and the order in which the budgets run out                        *)
THEOREM BudgetsAreKept == Spec => []BudgetsHold
<1>1. LoopInvariant => BudgetsHold
  BY DEF LoopInvariant, Spending
<1>. QED
  BY <1>1, LoopInvariantHolds, PTL

(* A completed run stays complete: its rules stay met, and no limit of a    *)
(* later round makes it end as stopped                                      *)
THEOREM CompletionIsFinal == Spec => []CompletionStands
<1>1. LoopInvariant => CompletionStands
  BY DEF LoopInvariant, Completeness
<1>. QED
  BY <1>1, LoopInvariantHolds, PTL

(* A web round that was paid for is read: what it fed is queued for the     *)
(* round that follows, or was left out by the task budget                   *)
THEOREM PaidForIsRead == Spec => []FedQuestionsAreQueued
<1>1. LoopInvariant => FedQuestionsAreQueued
  BY DEF LoopInvariant, Feeding
<1>. QED
  BY <1>1, LoopInvariantHolds, PTL

(* A run that says nothing is left has climbed every rung it was allowed    *)
(* for the closable gaps it leaves open                                     *)
THEOREM NothingLeftIsSaidTruly == Spec => []NothingLeftIsTrue
<1>1. LoopInvariant => NothingLeftIsTrue
  BY DEF LoopInvariant, Reasons, NothingLeftIsTrue, NothingWorthATask
<1>. QED
  BY <1>1, LoopInvariantHolds, PTL

(* A run that says a limit stopped it had work the limit refused *)
THEOREM LimitsAreSaidTruly == Spec => []ALimitLeftWorkUndone
<1>1. LoopInvariant => ALimitLeftWorkUndone
  BY DEF LoopInvariant, Reasons, ALimitLeftWorkUndone
<1>. QED
  BY <1>1, LoopInvariantHolds, PTL
=============================================================================
