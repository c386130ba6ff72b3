------------------------- MODULE InvestigationLoop -------------------------
(***************************************************************************)
(* The Director's bounded investigation loop (run_investigation): rounds   *)
(* of tasks by the plan's roles, every limit checked before the spend, a   *)
(* web round for the gaps a search could answer, the gap review that turns *)
(* closable gaps into follow-up tasks, and the reason the run stops.  The  *)
(* ledger's rows are reduced to what the loop's decisions read: questions, *)
(* gaps, and how far each question's acquisition ladder was climbed.       *)
(*                                                                         *)
(* One coroutine runs the loop, so its steps do not interleave; what makes *)
(* it hard is the number of budgets that can run out between two steps.    *)
(* A question's evidence either satisfies its contract or does not: the    *)
(* dimensions of the contract are abstracted.                              *)
(***************************************************************************)
EXTENDS Integers, FiniteSets

CONSTANTS
  Questions,       \* plan.questions, and those the plan could not assign
  Roles,           \* role ids in their sorted order: numbers
  NoRole,          \* stands for "no role holds the question's tools"
  RoleOf,          \* the plan's assignment, or NoRole (then an unclosable gap)
  Blocking,        \* questions a playbook marks blocking
  Conditional,     \* blocking questions that declare blocking_requires
  External,        \* the contract allows the web and the role holds the ladder
  Rules,           \* the playbooks' completion rules
  Intents,         \* search intents of a question
  SearchCap,       \* min(max_external_searches, intents or 1)
  MaxRounds, MaxTasks, MaxCalls,   \* ModeLimits
  SearchBudget,    \* ExternalSearchBudget.limit
  WebRounds,       \* WEB_ROUNDS_BY_MODE; 0 when no web_followup is supplied
  MaxWebGaps,      \* MAX_GAPS_PER_ROUND, 3
  CorpusBatch,     \* MAX_CORPUS_INTENTS, 2
  FollowupQueries, \* MAX_FOLLOWUP_QUERIES, 2
  PlatformCalls,   \* bound: calls of the platform rung, recency and re-read
  SearchCalls,     \* bound: a search and the fetches it verifies
  GapKinds         \* the kinds of gap an investigator may write

ASSUME LoopAssumption ==
  /\ Roles \subseteq Nat /\ IsFiniteSet(Questions)
  /\ NoRole \notin Roles
  /\ RoleOf \in [Questions -> Roles \cup {NoRole}]
  /\ Blocking \subseteq Questions /\ Conditional \subseteq Blocking
  /\ External \subseteq Questions
  /\ {Intents, SearchCap, SearchBudget, WebRounds, CorpusBatch, FollowupQueries,
      PlatformCalls} \subseteq Nat
  /\ {MaxRounds, MaxTasks, MaxCalls, MaxWebGaps, SearchCalls} \subseteq Nat \ {0}
  /\ Rules \subseteq {"all_blocking_questions_answered", "no_council_blocking_gaps"}
  /\ GapKinds \subseteq {"unclosable", "closable", "absence", "unprovable",
                         "contradiction"}

VARIABLES
  pc,        \* next_round, tasks, asking, review, followups, settle, closed
  round,     \* round_index: the rounds begun before this one
  queue,     \* pending, less the tasks begun: role |-> the questions to ask
  role,      \* the role whose task is running
  asking,    \* the running task's questions not asked yet
  outcome,   \* TaskOutcome so far: question |-> what its ladder returned
  spent,     \* outcome.tool_calls of the running task
  handed,    \* the asked questions that were given the web rung's queries
  tasksRun, calls, searches,      \* what the run has spent
  late,      \* the wall clock has passed max_wall_seconds
  status,    \* question |-> resolution_status in the ledger
  gaps,      \* research_gaps rows
  accepted,  \* those of status accepted
  worked,    \* keys of evidence_so_far and of attempted
  met,       \* questions whose evidence satisfies their contract
  corpus, searched,   \* corpus_so_far, searches_so_far
  completed, \* the completion rules were met after some round
  webRounds, handled, fresh, queries, saturated, webLimit, \* _WebLoopState
  stop, improvement, \* stopped_by, improvement_stopped_by
  runStatus, \* the run row's status
  leftOut    \* history: questions a budget left out and that were not asked since

budgets == <<tasksRun, calls, searches>>
ledger == <<status, gaps, accepted>>
ladder == <<worked, met, corpus, searched>>
task == <<role, asking, outcome, spent, handed>>
web == <<webRounds, handled, fresh, queries, saturated, webLimit>>
verdict == <<stop, improvement, runStatus>>
vars == <<pc, round, queue, task, budgets, late, ledger, ladder, completed,
          web, verdict, leftOut>>

---------------------------------------------------------------------------
Smaller(m, n) == IF m <= n THEN m ELSE n

None == "none"
Limits == {"max_rounds", "max_tasks", "max_tool_calls", "max_wall_seconds",
           "web_budget"}
Completions == {"completion_rules_satisfied", "no_closable_gaps", "answered",
                "saturation"}

Assigned == {q \in Questions : RoleOf[q] # NoRole}
NoAnswer == [q \in {} |-> 0]

(* A gap row.  Its kind says what the loop and the web rung read of its     *)
(* type and text; "unassigned" is the planner's, council-blocking when its  *)
(* question is.  Rows of one kind that one task writes for one question are *)
(* one row here.                                                            *)
Gap(q, r, k) == [question |-> q, round |-> r, kind |-> k]
Closable(g) == g.kind \notin {"unassigned", "unclosable"}
WebAnswerable(g) == g.kind \in {"absence", "unprovable", "contradiction"}
Absence(g) == g.kind \in {"absence", "unprovable"}

OpenGaps == gaps \ accepted
ClosableGaps == {g \in OpenGaps : Closable(g)}
Answered == {q \in Questions : status[q] = "answered"}
OpenQuestions == {q \in Questions : status[q] = "open"}
BlocksCouncil(g) == g.kind = "unassigned" /\ g.question \in Blocking

NoBlockingQuestionOpen == OpenQuestions \cap Blocking = {}
NoBlockingGapOpen == \A g \in OpenGaps : ~BlocksCouncil(g)
CouncilMayConvene == NoBlockingQuestionOpen /\ NoBlockingGapOpen

RulesSatisfied ==
  IF Rules = {} THEN CouncilMayConvene /\ OpenQuestions = {}
  ELSE /\ "all_blocking_questions_answered" \in Rules => NoBlockingQuestionOpen
       /\ "no_council_blocking_gaps" \in Rules => NoBlockingGapOpen

---------------------------------------------------------------------------
\* What a further round could still try for a question
CanSearch(q) == q \in External /\ searches < SearchBudget

\* Mutant: documents a web round fed do not make a question worth a task.
HasRungLeftUnfed(q, webRung) ==
  corpus[q] < Intents \/ (CanSearch(q) /\ searched[q] < SearchCap)

HasRungLeft(q, webRung) ==
  \/ webRung
  \/ corpus[q] < Intents
  \/ CanSearch(q) /\ searched[q] < SearchCap

Improvable ==
  {q \in worked \ met : CanSearch(q) /\ searched[q] < SearchCap}

(* _follow_up_tasks: the questions of the closable gaps worth a task, ...   *)
GapKeys ==
  {q \in Assigned : /\ \E g \in ClosableGaps : g.question = q
                    /\ q \in Answered => q \in fresh
                    /\ HasRungLeft(q, q \in fresh)}

(* ... and with the improvable ones, grouped by the role that owns them     *)
FollowUps ==
  LET keys == GapKeys \cup (Improvable \cap Assigned)
  IN  [r \in {RoleOf[q] : q \in keys} |-> {q \in keys : RoleOf[q] = r}]

(* _within_task_budget: blocking first, then a gap to close, then the       *)
(* busiest, then the role id                                                *)
Outranks(f, r, s) ==
  LET first(t) == IF f[t] \cap Blocking # {} THEN 0 ELSE 1
      second(t) == IF f[t] \cap GapKeys # {} THEN 0 ELSE 1
      third(t) == Cardinality(Questions) - Cardinality(f[t])
      above(x, y, otherwise) == x < y \/ (x = y /\ otherwise)
  IN  above(first(r), first(s),
        above(second(r), second(s), above(third(r), third(s), r < s)))

Kept(f, remaining) ==
  {r \in DOMAIN f : Cardinality({s \in DOMAIN f : Outranks(f, s, r)}) < remaining}

---------------------------------------------------------------------------
Init ==
  /\ pc = "next_round" /\ round = 0
  /\ queue = [r \in {RoleOf[q] : q \in Assigned} |-> {q \in Assigned : RoleOf[q] = r}]
  /\ role = NoRole /\ asking = {} /\ outcome = NoAnswer
  /\ spent = 0 /\ handed = {}
  /\ tasksRun = 0 /\ calls = 0 /\ searches = 0
  /\ late = FALSE
  /\ status = [q \in Questions |-> "open"]
  /\ gaps = {Gap(q, 0, "unassigned") : q \in Questions \ Assigned}
  /\ accepted = {}
  /\ worked = {}
  /\ met = {}
  /\ corpus = [q \in Questions |-> 0] /\ searched = [q \in Questions |-> 0]
  /\ completed = FALSE
  /\ webRounds = 0 /\ handled = {} /\ fresh = {} /\ queries = {}
  /\ saturated = FALSE /\ webLimit = None
  /\ stop = None /\ improvement = None /\ runStatus = "investigating"
  /\ leftOut = {}

(* The wall clock passes max_wall_seconds; it is read before a task and in  *)
(* the web rung                                                             *)
WallPasses ==
  /\ pc \in {"tasks", "web"} /\ ~late
  /\ late' = TRUE
  /\ UNCHANGED <<pc, round, queue, task, budgets, ledger, ladder, completed,
                 web, verdict, leftOut>>

---------------------------------------------------------------------------
(* The head of the `for`: no round left is max_rounds; a plan with no task  *)
(* stops at once                                                            *)
BeginRound ==
  /\ pc = "next_round"
  /\ IF round = MaxRounds
       THEN stop' = "max_rounds" /\ pc' = "settle"
     ELSE IF DOMAIN queue = {}
       THEN /\ stop' = IF round > 0 THEN "no_closable_gaps"
                       ELSE "completion_rules_satisfied"
            /\ pc' = "settle"
     ELSE pc' = "tasks" /\ UNCHANGED stop
  /\ fresh' = {}
  /\ UNCHANGED <<round, queue, task, budgets, late, ledger, ladder, completed,
                 webRounds, handled, queries, saturated, webLimit,
                 improvement, runStatus, leftOut>>

(* The limits, in the order they are checked before a task *)
LimitHit ==
  IF tasksRun >= MaxTasks THEN "max_tasks"
  ELSE IF calls >= MaxCalls THEN "max_tool_calls"
  ELSE IF late THEN "max_wall_seconds"
  ELSE None

\* Mutant: a limit stops a completed run too.
StopAnyRunOn(limit) == limit

\* A limit hit in an improvement round ends the improvement, not the run
StopOn(limit) == IF completed THEN "completion_rules_satisfied" ELSE limit

HitLimit ==
  /\ pc = "tasks" /\ DOMAIN queue # {} /\ LimitHit # None
  /\ stop' = StopOn(LimitHit)
  /\ improvement' = IF completed THEN LimitHit ELSE improvement
  /\ pc' = "settle"
  /\ round' = round + 1
  /\ UNCHANGED <<queue, task, budgets, late, ledger, ladder, completed, web,
                 runStatus, leftOut>>

(* add_task and the call of investigate; take_queries hands the web rung's  *)
(* queries over once                                                        *)
BeginTask ==
  /\ pc = "tasks" /\ LimitHit = None
  /\ \E r \in DOMAIN queue :
       /\ \A s \in DOMAIN queue : r <= s
       /\ role' = r
       /\ queue' = [s \in DOMAIN queue \ {r} |-> queue[s]]
       /\ asking' = queue[r]
       /\ handed' = queries \cap queue[r]
       /\ queries' = queries \ queue[r]
  /\ outcome' = NoAnswer /\ spent' = 0
  /\ pc' = "asking"
  /\ UNCHANGED <<round, budgets, late, ledger, ladder, completed, webRounds,
                 handled, fresh, saturated, webLimit, verdict, leftOut>>

(* A repeat starts where the last attempt ended: no platform tools, and the *)
(* corpus by the intents not yet run                                        *)
Again(q) == round > 0 /\ q \in worked

(* What a question's tools and write-up bring, all of it outside the loop:  *)
(* whether the contract is met before the corpus (met1), before the search  *)
(* (met2) and at the end (met3), whether a search was paid for, by a tool   *)
(* the plan asked for outright (bought) or by the last rung (paid), whether *)
(* anything new and citable came back, the gap written, and the answer      *)
Turns ==
  {t \in [platform : 0..PlatformCalls, bought : 0..1, first : 0..1, met1 : BOOLEAN,
          met2 : BOOLEAN, met3 : BOOLEAN, paid : 0..1,
          fetched : 0..(SearchCalls - 1), new : BOOLEAN,
          kinds : SUBSET GapKinds, answered : BOOLEAN] :
     /\ t.first <= Intents /\ t.bought <= t.platform
     /\ (t.met1 => t.met2) /\ (t.met2 => t.met3)
     /\ Cardinality(t.kinds) <= 1
     /\ ~t.new => ~t.answered /\ t.kinds \subseteq {"closable", "absence", "unprovable"}}

(* The ladder's calls for a question, of `budget` left: the platform's      *)
(* tools and the web rung's queries, a batch of the corpus intents, and     *)
(* whether one external search follows.  Every intent of a batch counts as  *)
(* run, even when the budget cut it.                                        *)
Climb(q, budget, t) ==
  LET reread == IF q \in handed THEN FollowupQueries ELSE 0
      used == Smaller(t.platform + reread, budget)
      start == IF Again(q) THEN corpus[q] ELSE t.first
      batch == IF t.met1 \/ used >= budget \/ start >= Intents THEN 0
               ELSE Smaller(CorpusBatch, Intents - start)
      spentBy == Smaller(used + batch, budget)
  IN [read |-> used > 0, batch |-> batch, calls |-> spentBy,
      search |-> /\ ~t.met2 /\ q \in External /\ searched[q] < SearchCap
                 /\ searches + t.bought < SearchBudget
                 /\ budget - spentBy > 1]

(* One question of the task: the acquisition ladder and the write-up.  A    *)
(* refused search is given back to the run's budget (paid = 0), not to the  *)
(* question's.                                                              *)
Asked(q, t) ==
  LET budget == MaxCalls - calls - spent
      climb == Climb(q, budget, t)
  IN
  /\ budget > 0
  /\ t.platform <= budget
  /\ t.bought > 0 => searches < SearchBudget
  /\ Again(q) => t.platform = 0 /\ t.first = 0
  /\ q \in met => t.met1
  /\ ~climb.read => (t.met1 => q \in met)
  /\ climb.batch = 0 => (t.met2 => t.met1)
  /\ ~climb.search => t.paid = 0 /\ t.fetched = 0 /\ (t.met3 => t.met2)
  /\ climb.search => climb.calls + 1 + t.fetched <= budget
  /\ t.met3 /\ q \notin met => t.new
  /\ ~t.new => Cardinality(t.kinds) = IF q \in worked THEN 0 ELSE 1
  /\ spent' = spent + climb.calls + (IF climb.search THEN 1 + t.fetched ELSE 0)
  /\ searches' = searches + t.bought + t.paid
  /\ outcome' = [p \in DOMAIN outcome \cup {q} |->
       IF p = q THEN [corpus |-> t.first + climb.batch,
                      searched |-> IF climb.search THEN 1 ELSE 0,
                      met |-> t.met3, kinds |-> t.kinds, answered |-> t.answered]
       ELSE outcome[p]]

\* Mutant: a question is asked again until it is answered.
StillToAskUnanswered(q) == IF outcome'[q].answered THEN asking \ {q} ELSE asking

StillToAsk(q) == asking \ {q}

Ask(q) ==
  /\ pc = "asking" /\ q \in asking
  /\ \E t \in Turns : Asked(q, t)
  /\ asking' = StillToAsk(q)
  /\ UNCHANGED <<pc, round, queue, role, handed, tasksRun, calls, late, ledger,
                 ladder, completed, web, verdict, leftOut>>

(* investigate returned, having asked everything or with no call left: the  *)
(* loop writes the gaps, the answers and the counters                       *)
FinishTask ==
  LET asked == DOMAIN outcome IN
  /\ pc = "asking" /\ (asking = {} \/ MaxCalls - calls - spent <= 0)
  /\ tasksRun' = tasksRun + 1
  /\ calls' = calls + spent
  /\ gaps' = gaps \cup UNION {{Gap(q, round, k) : k \in outcome[q].kinds} : q \in asked}
  /\ status' = [q \in Questions |->
       IF q \in asked /\ outcome[q].answered THEN "answered" ELSE status[q]]
  /\ worked' = worked \cup asked
  /\ met' = met \cup {q \in asked : outcome[q].met}
  /\ corpus' = [q \in Questions |->
       IF q \in asked THEN corpus[q] + outcome[q].corpus ELSE corpus[q]]
  /\ searched' = [q \in Questions |->
       IF q \in asked THEN searched[q] + outcome[q].searched ELSE searched[q]]
  /\ leftOut' = (leftOut \ asked) \cup asking
  /\ pc' = "tasks"
  /\ role' = NoRole /\ asking' = {} /\ outcome' = NoAnswer /\ spent' = 0
  /\ handed' = {}
  /\ UNCHANGED <<round, queue, searches, late, accepted,
                 completed, web, verdict>>

(* investigate raised: one role must not end the run.  What the task found  *)
(* is lost, and its calls are not charged.                                  *)
TaskRaises ==
  /\ pc = "asking"
  /\ tasksRun' = tasksRun + 1
  /\ pc' = "tasks"
  /\ role' = NoRole /\ asking' = {} /\ outcome' = NoAnswer /\ spent' = 0
  /\ handed' = {}
  /\ UNCHANGED <<round, queue, calls, searches, late, ledger,
                 ladder, completed, web, verdict, leftOut>>

(* Every task of the round ran: summarise, and the completion rules *)
EndRound ==
  /\ pc = "tasks" /\ DOMAIN queue = {}
  /\ round' = round + 1
  /\ completed' = (completed \/ RulesSatisfied)
  /\ pc' = IF WebRounds > 0 THEN "web" ELSE "followups"
  /\ UNCHANGED <<queue, task, budgets, late, ledger, ladder, web, verdict, leftOut>>

---------------------------------------------------------------------------
LastRound == round = MaxRounds
TasksLeft == MaxTasks - tasksRun

Candidates == {g \in ClosableGaps : WebAnswerable(g) /\ g \notin handled}

(* select_gaps: at most MaxWebGaps, blocking questions first, then          *)
(* contradictions                                                           *)
Priority(g) == <<IF g.question \in Blocking THEN 0 ELSE 1,
                 IF g.kind = "contradiction" THEN 0 ELSE 1>>

SelectGaps ==
  LET before(g, h) == \/ Priority(g)[1] < Priority(h)[1]
                      \/ /\ Priority(g)[1] = Priority(h)[1]
                         /\ Priority(g)[2] < Priority(h)[2]
  IN  {S \in SUBSET Candidates :
         /\ Cardinality(S) = Smaller(MaxWebGaps, Cardinality(Candidates))
         /\ \A g \in S, h \in Candidates \ S : ~before(h, g)}

\* Mutant: off by one.
WebSpentLate(exhausted) == webRounds > WebRounds \/ exhausted

\* rounds_exhausted and budget_refusal
WebSpent(exhausted) == webRounds >= WebRounds \/ exhausted

(* The web rung refuses a round that nothing could read or pay for.  Only   *)
(* the wall and the web budget overwrite an earlier reason.                 *)
RefusedBy(exhausted) ==
  IF LastRound THEN "max_rounds"
  ELSE IF TasksLeft <= 0 THEN "max_tasks"
  ELSE IF calls >= MaxCalls THEN "max_tool_calls"
  ELSE IF late THEN "max_wall_seconds"
  ELSE IF WebSpent(exhausted) THEN "web_budget"
  ELSE None

Sticky(limit) ==
  IF webLimit # None /\ limit \in {"max_rounds", "max_tasks", "max_tool_calls"}
    THEN webLimit ELSE limit

(* `exhausted`: one of the budgets the web follow-up shares is spent *)
WebRefused ==
  /\ pc = "web" /\ Candidates # {}
  /\ \E exhausted \in BOOLEAN :
       /\ RefusedBy(exhausted) # None
       /\ webLimit' = Sticky(RefusedBy(exhausted))
  /\ pc' = "followups"
  /\ UNCHANGED <<round, queue, task, budgets, late, ledger, ladder, completed,
                 webRounds, handled, fresh, queries, saturated, verdict,
                 leftOut>>

NothingForTheWeb ==
  /\ pc = "web" /\ Candidates = {}
  /\ pc' = "followups"
  /\ UNCHANGED <<round, queue, task, budgets, late, ledger, ladder, completed,
                 web, verdict, leftOut>>

(* run_round marks its gaps handled whatever happened.  Its queries may all *)
(* be refused by the shared ceiling, or bring nothing new and relevant, or  *)
(* feed the questions of its gaps.                                          *)
WebRound ==
  /\ pc = "web" /\ Candidates # {} /\ RefusedBy(FALSE) = None
  /\ \E chosen \in SelectGaps, result \in {"unasked", "saturated", "fed"} :
       /\ handled' = handled \cup chosen
       /\ IF result = "fed"
            THEN LET keys == {g.question : g \in chosen} IN
                 /\ fresh' = keys /\ queries' = queries \cup keys
                 /\ saturated' = FALSE /\ UNCHANGED webLimit
            ELSE IF result = "saturated"
              THEN saturated' = TRUE /\ UNCHANGED <<fresh, queries, webLimit>>
              ELSE webLimit' = "web_budget" /\ UNCHANGED <<fresh, queries, saturated>>
  /\ webRounds' = webRounds + 1
  /\ pc' = "followups"
  /\ UNCHANGED <<round, queue, task, budgets, late, ledger, ladder, completed,
                 verdict, leftOut>>

---------------------------------------------------------------------------
Stop(reason, unimproved) ==
  /\ stop' = reason /\ improvement' = unimproved
  /\ pc' = "settle"
  /\ UNCHANGED <<queue, leftOut>>

(* The follow-ups that fit are the next round's queue; the gaps whose task  *)
(* did not fit are left out                                                 *)
Queue(f) ==
  LET kept == IF Cardinality(DOMAIN f) > TasksLeft THEN Kept(f, TasksLeft)
              ELSE DOMAIN f
      dropped == UNION {f[r] : r \in DOMAIN f \ kept}
  IN
  /\ queue' = [r \in kept |-> f[r]]
  /\ leftOut' = leftOut \cup (dropped \cap GapKeys)
  /\ pc' = "next_round"
  /\ UNCHANGED stop

(* A run already complete may only improve, while rounds and tasks remain *)
ReviewCompleted ==
  LET f == FollowUps IN
  /\ pc = "followups" /\ completed
  /\ IF DOMAIN f = {} \/ LastRound \/ TasksLeft <= 0
       THEN Stop("completion_rules_satisfied",
              IF DOMAIN f = {} THEN improvement
              ELSE IF TasksLeft <= 0 THEN "max_tasks" ELSE "max_rounds")
       ELSE /\ Queue(f)
            /\ improvement' = IF Cardinality(DOMAIN f) > TasksLeft THEN "max_tasks"
                              ELSE improvement
  /\ UNCHANGED <<round, task, budgets, late, ledger, ladder, completed, web,
                 runStatus>>

\* Mutants: one reason for whatever the task budget left out.
NoTaskLeftIsNothing == "no_closable_gaps"
NoTaskLeftIsTheLimit == "max_tasks"

NoTaskLeft == IF GapKeys # {} THEN "max_tasks" ELSE "no_closable_gaps"

ReviewUnfinished ==
  LET f == FollowUps IN
  /\ pc = "followups" /\ ~completed
  /\ IF DOMAIN f = {} \/ (LastRound /\ GapKeys = {})
       THEN Stop("no_closable_gaps", improvement)
     ELSE IF TasksLeft <= 0
       THEN Stop(NoTaskLeft, improvement)
     ELSE Queue(f) /\ UNCHANGED improvement
  /\ UNCHANGED <<round, task, budgets, late, ledger, ladder, completed, web,
                 runStatus>>

---------------------------------------------------------------------------
(* _settle_web_stop: only a completion reason is rewritten.  `closed` are   *)
(* the targeted gaps the findings close, read from the ledger.              *)
SettleWebStop(closed) ==
  LET absence == {g \in handled : Absence(g)}
      provable == {g \in handled : g.kind = "absence"}
  IN
  IF stop \notin {"completion_rules_satisfied", "no_closable_gaps"}
    THEN UNCHANGED <<stop, improvement>>
  ELSE IF webLimit # None
    THEN IF completed
           THEN /\ stop' = "completion_rules_satisfied"
                /\ improvement' = IF improvement = None THEN webLimit ELSE improvement
           ELSE stop' = webLimit /\ UNCHANGED improvement
  ELSE /\ UNCHANGED improvement
       /\ stop' = IF provable # {} /\ absence \subseteq closed THEN "answered"
                  ELSE IF stop = "no_closable_gaps" /\ webRounds > 0 /\ saturated
                    THEN "saturation"
                  ELSE stop

(* The stop is settled, unclosable gaps are accepted, blocks whose hazard   *)
(* is proven absent are released, and the run row is closed                 *)
Close ==
  /\ pc = "settle"
  /\ \E closed \in SUBSET handled : SettleWebStop(closed)
  /\ accepted' = accepted \cup {g \in OpenGaps : ~Closable(g)}
  /\ \E absent \in BOOLEAN :
       LET released == {q \in Conditional : absent /\ status[q] = "open"} IN
       /\ status' = [q \in Questions |->
            IF q \in released THEN "unanswerable" ELSE status[q]]
       /\ gaps' = gaps \cup {Gap(q, round, "unclosable") : q \in released}
  /\ runStatus' = IF stop' \in Limits THEN "stopped" ELSE "reviewing"
  /\ pc' = "closed"
  /\ UNCHANGED <<round, queue, task, budgets, late, ladder, completed, web,
                 leftOut>>

---------------------------------------------------------------------------
Next ==
  \/ WallPasses \/ BeginRound \/ HitLimit \/ BeginTask
  \/ \E q \in Questions : Ask(q)
  \/ FinishTask \/ TaskRaises \/ EndRound
  \/ WebRefused \/ NothingForTheWeb \/ WebRound
  \/ ReviewCompleted \/ ReviewUnfinished \/ Close

Spec == Init /\ [][Next]_vars

\* The coroutine runs on: every await of the loop returns
FairSpec == Spec /\ WF_vars(Next)

---------------------------------------------------------------------------
Queued == UNION {queue[r] : r \in DOMAIN queue}

Outcomes ==
  [corpus : Nat, searched : 0..1, met : BOOLEAN, kinds : SUBSET GapKinds,
   answered : BOOLEAN]

GapRows ==
  [question : Questions, round : Nat, kind : GapKinds \cup {"unassigned", "unclosable"}]

\* Every variable keeps its range, through every round of the loop
TypeOK ==
  /\ pc \in {"next_round", "tasks", "asking", "web", "followups", "settle", "closed"}
  /\ round \in Nat /\ late \in BOOLEAN /\ completed \in BOOLEAN
  /\ DOMAIN queue \subseteq Roles
  /\ Queued \subseteq Questions
  /\ role \in Roles \cup {NoRole}
  /\ asking \subseteq Questions /\ handed \subseteq Questions
  /\ DOMAIN outcome \subseteq Questions
  /\ \A q \in DOMAIN outcome : outcome[q] \in Outcomes
  /\ {spent, tasksRun, calls, searches, webRounds} \subseteq Nat
  /\ status \in [Questions -> {"open", "answered", "unanswerable"}]
  /\ gaps \subseteq GapRows /\ accepted \subseteq gaps
  /\ worked \subseteq Questions
  /\ met \subseteq worked
  /\ corpus \in [Questions -> Nat] /\ searched \in [Questions -> Nat]
  /\ handled \subseteq gaps
  /\ fresh \subseteq Questions /\ queries \subseteq Questions
  /\ saturated \in BOOLEAN /\ webLimit \in Limits \cup {None}
  /\ stop \in Limits \cup Completions \cup {None}
  /\ improvement \in Limits \cup {None}
  /\ runStatus \in {"investigating", "stopped", "reviewing"}
  /\ leftOut \subseteq Questions

(* No budget is ever exceeded, by any sequence of rounds: the rounds, the   *)
(* tasks, the tool calls charged (the running task's included), the run's   *)
(* external searches, the web rounds, and each question's own searches and  *)
(* intents                                                                  *)
BudgetsHold ==
  /\ round <= MaxRounds
  /\ tasksRun <= MaxTasks
  /\ calls + spent <= MaxCalls
  /\ searches <= SearchBudget
  /\ webRounds <= WebRounds
  /\ \A q \in Questions : corpus[q] <= Intents /\ searched[q] <= SearchCap

(* "A web round is paid for to be READ": the questions it fed are in the    *)
(* next round's queue, unless the task budget left their task out           *)
FedQuestionsAreQueued ==
  fresh # {} /\ pc # "followups" =>
    /\ pc = "next_round" /\ round < MaxRounds
    /\ fresh \subseteq Queued \cup leftOut

(* A run that stops because nothing is left has tried, for the question of  *)
(* every closable gap it leaves open, every rung the ladder allowed it      *)
NothingLeftIsTrue ==
  pc = "closed" /\ stop \in {"no_closable_gaps", "saturation"} =>
    \A g \in ClosableGaps :
      g.question \in Answered \/ ~HasRungLeft(g.question, FALSE)

(* A run that stops on a limit had work left that the limit refused: tasks  *)
(* of its queue, a closable gap worth a task, or a gap the web could answer *)
ALimitLeftWorkUndone ==
  pc = "closed" /\ stop \in Limits =>
    \/ DOMAIN queue # {}
    \/ GapKeys # {}
    \/ webLimit = stop /\ \E g \in ClosableGaps : WebAnswerable(g)

(* Later rounds only improve a completed run and cannot un-complete it: the *)
(* rules it met still hold, and it never ends as stopped by a limit         *)
CompletionStands ==
  completed => /\ RulesSatisfied
               /\ stop \in Completions \cup {None}
               /\ runStatus # "stopped"

\* The loop is bounded: it closes the run, whatever its tasks and web rounds do
LoopTerminates == <>(pc = "closed")

=============================================================================
