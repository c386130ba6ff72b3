-------------------------- MODULE LLMCouncilProofs --------------------------
(***************************************************************************)
(* Proofs about LLMCouncil, for every number of councils, order, priority, *)
(* budget and pacing: what an agent is attempted, when a council is over,  *)
(* that the reserve keeps its promise, that the councils of a process do   *)
(* not burst the deployment and that answers stay.  The inductive          *)
(* invariant says of a council's record alone what its pass allows, and of *)
(* the window what its fitting entries hold; so the lemmas are about one   *)
(* record at one time, and about one window at one time.                   *)
(***************************************************************************)
EXTENDS LLMCouncil, FiniteSetTheorems, WellFoundedInduction, TLAPS

---------------------------------------------------------------------------
(* Tokens: sums over finite sets.  The library defines them by choice, and *)
(* induction over finite sets needs an operator as parameter, so every     *)
(* fact below is proved from a smallest set that would violate it          *)

\* The member the sum counts first
Pick(S) == CHOOSE x \in S : TRUE

\* The function on the subsets of U that adds up their tokens
IsSum(g, U) ==
  g = [s \in SUBSET U |-> IF s = {} THEN 0 ELSE Pick(s).tokens + g[s \ {Pick(s)}]]

\* A finite set whose members have tokens
Counted(S) == IsFiniteSet(S) /\ \A e \in S : e.tokens \in Nat

\* Pick chooses a member.
LEMMA PickIsIn ==
  ASSUME NEW S, S # {}
  PROVE  Pick(S) \in S
BY DEF Pick

\* Tokens is the value at its own set of a function that adds the members one by one.
LEMMA TokensIsASum ==
  ASSUME NEW S
  PROVE  Tokens(S) = (CHOOSE g : IsSum(g, S))[S]
BY DEF Tokens, MapThenSumSet, MapThenFoldSet, Pick, IsSum

\* A nonempty collection of subsets of a finite set has a smallest member.
LEMMA SmallestSubset ==
  ASSUME NEW U, IsFiniteSet(U), NEW Bad \in SUBSET SUBSET U, Bad # {}
  PROVE  \E T \in Bad : \A V \in Bad : V \subseteq T => V = T
<1>1. IsWellFoundedOn(StrictSubsetOrdering(U), FiniteSubsetsOf(U))
  BY FS_StrictSubsetOrderingWellFounded
<1>2. Bad \subseteq FiniteSubsetsOf(U)
  BY FS_FiniteSubsetsOfFinite
<1>3. PICK T \in Bad : \A V \in Bad : <<V, T>> \notin StrictSubsetOrdering(U)
  BY <1>1, <1>2, WFMin
<1>4. ASSUME NEW V \in Bad, V \subseteq T, V # T
      PROVE  FALSE
  <2>1. <<V, T>> \in (SUBSET U) \X (SUBSET U)
    OBVIOUS
  <2>2. <<V, T>> \in StrictSubsetOrdering(U)
    BY <2>1, <1>4 DEF StrictSubsetOrdering
  <2> QED BY <2>2, <1>3
<1> QED BY <1>4

\* Two such functions agree wherever both count.
LEMMA SumsAgree ==
  ASSUME NEW A, NEW B, NEW g, NEW h, IsFiniteSet(A),
         IsSum(g, A), IsSum(h, B)
  PROVE  \A t \in SUBSET (A \cap B) : g[t] = h[t]
<1> DEFINE Bad == {t \in SUBSET (A \cap B) : g[t] # h[t]}
<1>1. SUFFICES ASSUME Bad # {} PROVE FALSE
  OBVIOUS
<1>2. Bad \in SUBSET SUBSET A
  OBVIOUS
<1>3. PICK T \in Bad : \A V \in Bad : V \subseteq T => V = T
  <2> HIDE DEF Bad
  <2> QED BY <1>1, <1>2, SmallestSubset
<1>4. T # {}
  BY DEF IsSum
<1>5. Pick(T) \in T
  BY <1>4, PickIsIn
<1>6. T \ {Pick(T)} \notin Bad
  BY <1>3, <1>5
<1>7. g[T \ {Pick(T)}] = h[T \ {Pick(T)}]
  BY <1>6
<1>8. g[T] = Pick(T).tokens + g[T \ {Pick(T)}]
  <2>1. T \in SUBSET A
    BY <1>3
  <2> QED BY <2>1, <1>4 DEF IsSum
<1>9. h[T] = Pick(T).tokens + h[T \ {Pick(T)}]
  <2>1. T \in SUBSET B
    BY <1>3
  <2> QED BY <2>1, <1>4 DEF IsSum
<1> QED BY <1>3, <1>7, <1>8, <1>9

(* Once they exist, Tokens counts the picked member and then the rest *)
LEMMA TokensStep ==
  ASSUME NEW S, IsFiniteSet(S), \E g : IsSum(g, S)
  PROVE  /\ S = {} => Tokens(S) = 0
         /\ (S # {} /\ \E g : IsSum(g, S \ {Pick(S)})) =>
              Tokens(S) = Pick(S).tokens + Tokens(S \ {Pick(S)})
<1> DEFINE G == CHOOSE g : IsSum(g, S)
           R == S \ {Pick(S)}
           H == CHOOSE g : IsSum(g, R)
<1>1. IsSum(G, S) /\ Tokens(S) = G[S]
  BY TokensIsASum
<1>2. Tokens(R) = H[R]
  BY TokensIsASum
<1>3. CASE S = {}
  BY <1>1, <1>3 DEF IsSum
<1>4. CASE S # {} /\ \E g : IsSum(g, R)
  <2>1. IsSum(H, R)
    BY <1>4
  <2>2. G[R] = H[R]
    <3> R \in SUBSET (S \cap R) /\ S \cap R = R
      OBVIOUS
    <3> HIDE DEF G, H, R
    <3> QED BY <1>1, <2>1, SumsAgree
  <2>3. G[S] = Pick(S).tokens + G[R]
    <3> HIDE DEF G
    <3>1. S \in SUBSET S OBVIOUS
    <3> QED BY <1>1, <1>4, <3>1 DEF IsSum
  <2> QED BY <1>1, <1>2, <1>4, <2>2, <2>3
<1> QED BY <1>3, <1>4

\* They exist for every finite set: a smallest set without one would have one.
LEMMA SumsExist ==
  ASSUME NEW U, IsFiniteSet(U)
  PROVE  \A t \in SUBSET U : \E g : IsSum(g, t)
<1> DEFINE Bad == {t \in SUBSET U : ~\E g : IsSum(g, t)}
<1>1. SUFFICES ASSUME Bad # {} PROVE FALSE
  OBVIOUS
<1>2. PICK T \in Bad : \A V \in Bad : V \subseteq T => V = T
  <2>1. Bad \in SUBSET SUBSET U
    OBVIOUS
  <2> HIDE DEF Bad
  <2> QED BY <1>1, <2>1, SmallestSubset
<1>3. ASSUME NEW s \in SUBSET T, s # T
      PROVE  IsFiniteSet(s) /\ \E g : IsSum(g, s)
  <2>1. s \notin Bad
    BY <1>2, <1>3
  <2> QED BY <2>1, <1>2, FS_Subset
<1>4. T # {}
  <2>1. IsSum([s \in SUBSET {} |-> 0], {})
    BY DEF IsSum
  <2> QED BY <2>1, <1>2
<1> DEFINE g == [s \in SUBSET T |->
                   IF s = T THEN Pick(T).tokens + Tokens(T \ {Pick(T)})
                   ELSE Tokens(s)]
<1>5. ASSUME NEW s \in SUBSET T
      PROVE  g[s] = IF s = {} THEN 0 ELSE Pick(s).tokens + g[s \ {Pick(s)}]
  <2>1. CASE s = T
    <3>1. Pick(T) \in T
      BY <1>4, PickIsIn
    <3>2. T \ {Pick(T)} \in SUBSET T /\ T \ {Pick(T)} # T
      BY <3>1
    <3> QED BY <2>1, <3>2, <1>4
  <2>2. CASE s = {}
    BY <2>2, <1>4, <1>3, TokensStep
  <2>3. CASE s # T /\ s # {}
    <3>1. Pick(s) \in s
      BY <2>3, PickIsIn
    <3>2. s \ {Pick(s)} \in SUBSET T /\ s \ {Pick(s)} # T
      BY <3>1, <1>5
    <3>3. Tokens(s) = Pick(s).tokens + Tokens(s \ {Pick(s)})
      BY <2>3, <3>2, <1>3, TokensStep
    <3> QED BY <2>3, <3>2, <3>3
  <2> QED BY <2>1, <2>2, <2>3
<1>6. g = [s \in SUBSET T |-> IF s = {} THEN 0 ELSE Pick(s).tokens + g[s \ {Pick(s)}]]
  <2> HIDE DEF g
  <2>1. g = [s \in SUBSET T |-> g[s]]
    BY DEF g
  <2> QED BY <2>1, <1>5
<1>7. IsSum(g, T)
  <2> HIDE DEF g
  <2> QED BY <1>6 DEF IsSum
<1> QED BY <1>7, <1>2
\* An empty window holds no token.
LEMMA TokensOfNone == Tokens({}) = 0
<1>1. IsFiniteSet({}) BY FS_EmptySet
<1> QED BY <1>1, SumsExist, TokensStep

\* The recursion that Tokens stands for.
LEMMA TokensOfPick ==
  ASSUME NEW S, IsFiniteSet(S), S # {}
  PROVE  Tokens(S) = Pick(S).tokens + Tokens(S \ {Pick(S)})
<1>1. S \ {Pick(S)} \in SUBSET S /\ S \in SUBSET S
  OBVIOUS
<1> QED BY <1>1, SumsExist, TokensStep

\* The tokens of every part of a window are a natural number.
LEMMA TokensType ==
  ASSUME NEW U, Counted(U)
  PROVE  \A t \in SUBSET U : Tokens(t) \in Nat
<1> DEFINE Bad == {t \in SUBSET U : Tokens(t) \notin Nat}
<1>1. SUFFICES ASSUME Bad # {} PROVE FALSE
  OBVIOUS
<1>2. PICK T \in Bad : \A V \in Bad : V \subseteq T => V = T
  <2>1. Bad \in SUBSET SUBSET U
    OBVIOUS
  <2> HIDE DEF Bad
  <2> QED BY <1>1, <2>1, SmallestSubset DEF Counted
<1>3. T # {}
  BY <1>2, TokensOfNone
<1>4. Pick(T) \in T /\ T \in SUBSET U
  BY <1>3, PickIsIn
<1>5. T \ {Pick(T)} \notin Bad /\ T \ {Pick(T)} \in SUBSET U
  BY <1>2, <1>4
<1>6. Tokens(T) = Pick(T).tokens + Tokens(T \ {Pick(T)})
  BY <1>3, <1>4, FS_Subset, TokensOfPick DEF Counted
<1> QED BY <1>2, <1>4, <1>5, <1>6 DEF Counted

\* The members may be counted in any order.
LEMMA TokensWithout ==
  ASSUME NEW U, Counted(U)
  PROVE  \A t \in SUBSET U : \A x \in t : Tokens(t) = x.tokens + Tokens(t \ {x})
<1> DEFINE Bad == {t \in SUBSET U : \E x \in t : Tokens(t) # x.tokens + Tokens(t \ {x})}
<1>1. SUFFICES ASSUME Bad # {} PROVE FALSE
  OBVIOUS
<1>2. PICK T \in Bad : \A V \in Bad : V \subseteq T => V = T
  <2>1. Bad \in SUBSET SUBSET U
    OBVIOUS
  <2> HIDE DEF Bad
  <2> QED BY <1>1, <2>1, SmallestSubset DEF Counted
<1>3. PICK x \in T : Tokens(T) # x.tokens + Tokens(T \ {x})
  BY <1>2
<1> DEFINE p == Pick(T)
<1>4. p \in T /\ T \in SUBSET U
  BY <1>3, PickIsIn
<1>5. Tokens(T) = p.tokens + Tokens(T \ {p})
  BY <1>4, FS_Subset, TokensOfPick DEF Counted
<1>6. p # x
  BY <1>3, <1>5
<1> HIDE DEF p
<1>7. /\ T \ {p} \notin Bad /\ T \ {p} \in SUBSET U /\ x \in T \ {p}
      /\ T \ {x} \notin Bad /\ T \ {x} \in SUBSET U /\ p \in T \ {x}
  BY <1>2, <1>3, <1>4, <1>6
<1>8. /\ Tokens(T \ {p}) = x.tokens + Tokens((T \ {p}) \ {x})
      /\ Tokens(T \ {x}) = p.tokens + Tokens((T \ {x}) \ {p})
  BY <1>7
<1>9. (T \ {p}) \ {x} = (T \ {x}) \ {p} /\ (T \ {x}) \ {p} \in SUBSET U
  BY <1>4
<1>10. x.tokens \in Nat /\ p.tokens \in Nat /\ Tokens((T \ {x}) \ {p}) \in Nat
  BY <1>4, <1>3, <1>9, TokensType DEF Counted
<1>11. Tokens(T) = p.tokens + (x.tokens + Tokens((T \ {x}) \ {p}))
  BY <1>5, <1>8, <1>9
<1>12. Tokens(T) = x.tokens + Tokens(T \ {x})
  BY <1>8, <1>10, <1>11
<1> QED BY <1>3, <1>12

\* A part of a window holds no more than the window.
LEMMA TokensMonotone ==
  ASSUME NEW B, Counted(B), NEW A \in SUBSET B
  PROVE  Tokens(A) <= Tokens(B)
<1> DEFINE Bad == {t \in SUBSET B : A \subseteq t /\ ~(Tokens(A) <= Tokens(t))}
<1>1. SUFFICES ASSUME Bad # {} PROVE FALSE
  OBVIOUS
<1>2. PICK T \in Bad : \A V \in Bad : V \subseteq T => V = T
  <2>1. Bad \in SUBSET SUBSET B
    OBVIOUS
  <2> HIDE DEF Bad
  <2> QED BY <1>1, <2>1, SmallestSubset DEF Counted
<1>3. Tokens(A) \in Nat
  BY TokensType
<1>4. T # A
  BY <1>2, <1>3
<1>5. PICK x \in T : x \notin A
  BY <1>2, <1>4
<1>6. T \ {x} \in SUBSET B /\ T \ {x} \notin Bad /\ A \subseteq T \ {x}
  BY <1>2, <1>5
<1>7. Tokens(T) = x.tokens + Tokens(T \ {x})
  BY <1>2, TokensWithout
<1>8. x.tokens \in Nat /\ Tokens(T \ {x}) \in Nat
  BY <1>2, <1>6, TokensType DEF Counted
<1> QED BY <1>2, <1>3, <1>6, <1>7, <1>8

\* An entry adds at most its tokens.
LEMMA TokensWith ==
  ASSUME NEW S, NEW x, Counted(S), x.tokens \in Nat
  PROVE  Counted(S \cup {x}) /\ Tokens(S \cup {x}) <= Tokens(S) + x.tokens
<1>1. Counted(S \cup {x})
  BY FS_AddElement DEF Counted
<1>2. Tokens(S \cup {x}) = x.tokens + Tokens((S \cup {x}) \ {x})
  <2>1. S \cup {x} \in SUBSET (S \cup {x}) /\ x \in S \cup {x}
    OBVIOUS
  <2> QED BY <1>1, <2>1, TokensWithout
<1>3. Tokens((S \cup {x}) \ {x}) <= Tokens(S)
  <2>1. (S \cup {x}) \ {x} \in SUBSET S
    OBVIOUS
  <2> QED BY <2>1, TokensMonotone
<1>4. Tokens((S \cup {x}) \ {x}) \in Nat /\ Tokens(S) \in Nat
  BY TokensType
<1> QED BY <1>1, <1>2, <1>3, <1>4

(* Changing the entries one by one without raising the tokens of any, as   *)
(* settle does, does not raise their total                                   *)
LEMMA TokensOfImage ==
  ASSUME NEW S, Counted(S), NEW h,
         \A e \in S : h[e].tokens \in Nat /\ h[e].tokens <= e.tokens
  PROVE  LET image == {h[e] : e \in S}
         IN  Counted(image) /\ Tokens(image) <= Tokens(S)
<1> DEFINE Image(t) == {h[e] : e \in t}
<1>1. ASSUME NEW t \in SUBSET S
      PROVE  Counted(Image(t))
  <2>1. [e \in t |-> h[e]] \in Surjection(t, Image(t))
    BY DEF Surjection
  <2>2. IsFiniteSet(t)
    BY FS_Subset DEF Counted
  <2>3. IsFiniteSet(Image(t))
    <3> HIDE DEF Image
    <3> QED BY <2>1, <2>2, FS_Surjection
  <2> QED BY <2>3 DEF Counted
<1> DEFINE Bad == {t \in SUBSET S : ~(Tokens(Image(t)) <= Tokens(t))}
<1>2. ASSUME Bad # {} PROVE FALSE
  <2>1. PICK T \in Bad : \A V \in Bad : V \subseteq T => V = T
    <3>1. Bad \in SUBSET SUBSET S
      OBVIOUS
    <3> HIDE DEF Bad
    <3> QED BY <1>2, <3>1, SmallestSubset DEF Counted
  <2>2. T # {}
    <3>1. ASSUME T = {} PROVE Tokens(Image(T)) = 0 /\ Tokens(T) = 0
      <4>1. Image(T) = {}
        BY <3>1
      <4> QED BY <3>1, <4>1, TokensOfNone
    <3>2. ~(Tokens(Image(T)) <= Tokens(T))
      BY <2>1
    <3> HIDE DEF Image, Bad
    <3> QED BY <3>1, <3>2
  <2>3. PICK x \in T : TRUE
    BY <2>2
  <2> DEFINE R == T \ {x}
  <2>4. R \in SUBSET S /\ R \notin Bad /\ T \in SUBSET S
    BY <2>1, <2>3
  <2>5. Image(T) = Image(R) \cup {h[x]}
    BY <2>3
  <2>6. Counted(Image(R)) /\ Counted(Image(T))
    BY <1>1, <2>4
  <2>7. x.tokens \in Nat /\ h[x].tokens \in Nat /\ h[x].tokens <= x.tokens
    BY <2>3, <2>4 DEF Counted
  <2>8. Tokens(Image(T)) <= Tokens(Image(R)) + h[x].tokens
    <3> HIDE DEF Image, R
    <3> QED BY <2>5, <2>6, <2>7, TokensWith
  <2>9. Tokens(T) = x.tokens + Tokens(R)
    BY <2>3, <2>4, TokensWithout
  <2>10. Tokens(Image(R)) <= Tokens(R)
    BY <2>4
  <2>11. /\ Tokens(T) \in Nat /\ Tokens(R) \in Nat
         /\ Tokens(Image(R)) \in Nat /\ Tokens(Image(T)) \in Nat
    <3> HIDE DEF Image, R
    <3> QED BY <2>4, <2>6, TokensType
  <2>12. ~(Tokens(Image(T)) <= Tokens(T))
    BY <2>1
  <2> HIDE DEF Image, R
  <2> QED BY <2>7, <2>8, <2>9, <2>10, <2>11, <2>12
<1> QED BY <1>1, <1>2
---------------------------------------------------------------------------
(* The inductive invariant, of a council's record r at time n *)

\* The agents whose turn in the initial pass is still to come
Ahead(r) == {i \in DOMAIN Order : i > r.pos \/ (i = r.pos /\ r.pc \in {"idle", "turn"})}

(* The initial pass: one attempt each, and the agents ahead are untouched,  *)
(* the one being attempted has no output yet                                 *)
InitialPass(r) ==
  /\ r.pc \in {"idle", "turn", "acquire", "pacing", "call", "repair", "pause"}
  /\ r.pos <= Len(Order) + 1
  /\ r.pc \notin {"idle", "turn"} => r.pos <= Len(Order)
  /\ r.tries = 0
  /\ \A a \in Agents : r.attempts[a] <= 1
  /\ \A i \in Ahead(r) :
       /\ r.attempts[Order[i]] = 0
       /\ r.status[Order[i]] = "none" /\ r.failure[Order[i]] = "none"
  /\ r.pc \in {"acquire", "pacing", "call", "repair"} =>
       /\ r.status[Order[r.pos]] = "none" /\ r.failure[Order[r.pos]] = "none"
       /\ r.attempts[Order[r.pos]] > 0

(* The retry pass: the agents ahead had their first attempt only, the one   *)
(* at its turn has failed and had as many more as it was given               *)
RetryPass(r) ==
  /\ r.pc \in {"review", "backoff", "acquire", "pacing", "call", "repair", "done"}
  /\ r.pos <= Len(Priority) + 1
  /\ r.pc = "done" => r.pos > Len(Priority)
  /\ r.pc \notin {"review", "done"} => r.pos <= Len(Priority) /\ r.tries > 0
  /\ \A a \in Agents : r.attempts[a] <= 1 + MaxTries(a)
  /\ \A i \in DOMAIN Priority : i > r.pos => r.attempts[Priority[i]] <= 1
  /\ r.pos <= Len(Priority) =>
       /\ r.tries <= MaxTries(Priority[r.pos])
       /\ r.attempts[Priority[r.pos]] <= (IF r.pc = "backoff" THEN r.tries ELSE 1 + r.tries)
       /\ r.tries > 0 =>
            r.status[Priority[r.pos]] = "failed" /\ r.attempts[Priority[r.pos]] > 0

\* What is remembered as a transient failure is one, of an attempt
Failures(r) ==
  \A a \in Agents : r.failure[a] # "none" => r.status[a] = "failed" /\ r.attempts[a] > 0

(* Every wait is measured against a limit: an attempt begins before it, the *)
(* pacer adds what it waited, the call and its repair a request each         *)
Within(r, n, limit) ==
  /\ r.pc = "acquire" => n <= limit + r.waited
  /\ r.pc = "pacing" => n <= r.wake /\ r.wake <= limit + r.waited
  /\ r.pc = "call" => n <= r.wake /\ r.wake <= limit + MaxWait + MaxCall
  /\ r.pc = "repair" => n <= r.wake /\ r.wake <= limit + MaxWait + 2 * MaxCall
  /\ r.pc \in {"pause", "backoff"} => n <= r.wake /\ r.wake <= limit

Timely(r, n) ==
  /\ r.pc \in {"turn", "review"} => n <= r.deadline + MaxWait + 2 * MaxCall
  /\ Within(r, n, r.deadline)

Protected == {i \in DOMAIN Priority : Priority[i] \in Reserved}
Covered ==
  /\ Protected # {} /\ Priority[Min(Protected)] \in Critical
  /\ Reserve > MaxWait + 2 * MaxCall /\ CriticalRetries > 0

(* The reserve: those before the first protected agent are over before the  *)
(* deadline, so that its turn comes in time                                  *)
Kept(r, n) ==
  LET m == Min(Protected)
      first == Priority[m]
  IN
  Covered /\ r.pass = "retry" /\ r.passed < r.deadline =>
    /\ r.pos < m => Within(r, n, r.deadline - Reserve) /\ (r.pc = "review" => n < r.deadline)
    /\ r.pos = m /\ r.tries = 0 => r.pc = "review" /\ n < r.deadline
    /\ r.pos = m /\ r.tries > 0 =>
         r.attempts[first] > 1 \/ (r.pc = "backoff" /\ r.attempts[first] > 0)
    /\ r.pos > m /\ r.failure[first] = "server_error" => r.attempts[first] > 1

Sound(r, n) ==
  /\ r \in Runs
  /\ r.pass = "initial" => InitialPass(r)
  /\ r.pass = "retry" => RetryPass(r)
  /\ Failures(r) /\ Timely(r, n) /\ Kept(r, n)

\* What may be filled by the request of an agent, and by those of the others
Share(a) == Effective(a = Chair)
OthersShare == Effective(FALSE)

\* The entries that were let through fitting and spent no more
Fitting(entries) == {e \in entries : ~e.over}
Others(entries) == {e \in entries : e.by[2] # Chair}

(* The window: what fitted is within the capacity whatever else was let     *)
(* through, and without the chair within the slice of the others             *)
WindowOK(entries, n) ==
  /\ entries \subseteq Entries /\ IsFiniteSet(entries)
  /\ \A e \in entries : n - Window < e.at /\ e.at <= n
  /\ Tokens(Fitting(entries)) <= Capacity
  /\ Tokens(Others(Fitting(entries))) <= OthersShare

IInv ==
  /\ now \in Nat
  /\ run \in [Councils -> Runs]
  /\ \A c \in Councils : Sound(run[c], now)
  /\ WindowOK(window, now)
---------------------------------------------------------------------------
(* Facts about the constants *)

\* The order of the initial pass names each of its agents once.
LEMMA OrderFacts ==
  /\ Len(Order) \in Nat /\ DOMAIN Order = 1 .. Len(Order)
  /\ \A i \in DOMAIN Order : Order[i] \in Agents
  /\ \A i, j \in DOMAIN Order : Order[i] = Order[j] => i = j
<1>1. Order \in Seq(Agents) /\ IsInjective(Order)
  BY CouncilAssumption
<1> QED BY <1>1 DEF IsInjective

\* The priority order names agents, each at most once.
LEMMA PriorityFacts ==
  /\ Len(Priority) \in Nat /\ DOMAIN Priority = 1 .. Len(Priority)
  /\ \A i \in DOMAIN Priority : Priority[i] \in Agents
  /\ \A i, j \in DOMAIN Priority : Priority[i] = Priority[j] => i = j
<1>1. Priority \in Seq(Agents) /\ IsInjective(Priority)
  BY CouncilAssumption
<1> QED BY <1>1 DEF IsInjective

\* The numbers the councils are configured with are natural.
LEMMA NumberFacts ==
  /\ Reserve \in Nat /\ Retries \in Nat /\ CriticalRetries \in Nat /\ Pause \in Nat
  /\ Overrun \in Nat /\ Budget \in Nat /\ MaxBackoff \in Nat /\ MaxCall \in Nat
  /\ Capacity \in Nat /\ Window \in Nat /\ Window > 0 /\ ReserveTokens \in Nat
  /\ MaxWait \in Nat
  /\ \A a : MaxTries(a) \in Nat
BY CouncilAssumption, PacerAssumption DEF MaxTries

\* Every nonempty set of natural numbers has the minimum that Min chooses.
LEMMA MinOfNaturals ==
  ASSUME NEW S \in SUBSET Nat, S # {}
  PROVE  Min(S) \in S /\ \A x \in S : Min(S) <= x
<1> DEFINE R == OpToRel(<, Nat)
<1>1. IsWellFoundedOn(R, Nat)
  BY NatLessThanWellFounded
<1>2. \A x, y \in Nat : <<x, y>> \in R <=> x < y
  BY DEF OpToRel
<1> HIDE DEF R
<1>3. PICK m \in S : \A x \in S : ~(<<x, m>> \in R)
  BY <1>1, WFMin
<1>4. ASSUME NEW x \in S
      PROVE  m <= x
  <2>1. x \in Nat /\ m \in Nat
    OBVIOUS
  <2>2. ~(x < m)
    BY <1>2, <1>3, <2>1
  <2> QED BY <2>1, <2>2
<1> QED BY <1>4 DEF Min

\* The first protected agent is one, it may be retried, and none is before it.
LEMMA FirstProtected ==
  ASSUME Covered
  PROVE  /\ Min(Protected) \in DOMAIN Priority
         /\ Priority[Min(Protected)] \in Reserved /\ Priority[Min(Protected)] \in Agents
         /\ MaxTries(Priority[Min(Protected)]) > 0
         /\ \A i \in DOMAIN Priority : i < Min(Protected) => Priority[i] \notin Reserved
<1>1. Protected \in SUBSET Nat /\ Protected # {}
  BY PriorityFacts DEF Protected, Covered
<1>2. Min(Protected) \in Protected /\ \A x \in Protected : Min(Protected) <= x
  BY <1>1, MinOfNaturals
<1> DEFINE m == Min(Protected)
<1>3. ASSUME NEW i \in DOMAIN Priority, i < m
      PROVE  Priority[i] \notin Reserved
  <2>1. i \in Nat /\ m \in Nat
    <3>1. DOMAIN Priority \subseteq Nat
      BY PriorityFacts
    <3> HIDE DEF m
    <3>2. m \in Protected
      BY <1>2 DEF m
    <3> QED BY <1>1, <3>1, <3>2
  <2>2. i \in Protected => m <= i
    BY <1>2
  <2> HIDE DEF m
  <2>3. i \notin Protected
    BY <1>3, <2>1, <2>2
  <2> QED BY <2>3 DEF Protected
<1> QED BY <1>2, <1>3, PriorityFacts DEF Protected, Covered, MaxTries

---------------------------------------------------------------------------
(* Every step of a council keeps its record sound *)

\* A council is in the pass its program counter says.
LEMMA Passes ==
  ASSUME NEW n, NEW r, Sound(r, n)
  PROVE  /\ r \in Runs
         /\ r.pc \in {"idle", "turn", "pause"} => r.pass = "initial"
         /\ r.pc \in {"review", "backoff", "done"} => r.pass = "retry"
BY DEF Sound, InitialPass, RetryPass, Runs

\* The start of a council sets its deadline a budget away.
LEMMA BeginSound ==
  ASSUME NEW n \in Nat, NEW r, Sound(r, n), r.pc = "idle"
  PROVE  Sound([r EXCEPT !.pc = "turn", !.deadline = n + Budget], n)
<1> DEFINE end == n + Budget
           s == [r EXCEPT !.pc = "turn", !.deadline = end]
<1>1. r \in Runs /\ r.pass = "initial" /\ InitialPass(r) /\ Failures(r) /\ end \in Nat
  BY Passes, NumberFacts DEF Sound
<1> HIDE DEF end
<1>2. /\ s \in Runs /\ s.pc = "turn" /\ s.pass = "initial" /\ s.pos = r.pos
      /\ s.tries = r.tries /\ s.deadline = end /\ s.status = r.status
      /\ s.failure = r.failure /\ s.attempts = r.attempts
  BY <1>1 DEF Runs
<1> HIDE DEF s
<1>3. InitialPass(s)
  BY <1>1, <1>2 DEF InitialPass, Ahead
<1>4. Failures(s)
  BY <1>1, <1>2 DEF Failures
<1>5. Timely(s, n) /\ Kept(s, n)
  BY <1>2, NumberFacts DEF Timely, Within, Kept, Runs, end
<1> QED BY <1>2, <1>3, <1>4, <1>5 DEF Sound, s, end

\* An agent that is skipped gets its failed output and is not attempted.
LEMMA SkipSound ==
  ASSUME NEW n \in Nat, NEW r, Sound(r, n), r.pc = "turn", r.pos <= Len(Order)
  PROVE  Sound([r EXCEPT !.status[Order[r.pos]] = "failed", !.pos = @ + 1], n)
<1> DEFINE a == Order[r.pos]
           status == [r.status EXCEPT ![a] = "failed"]
           next == r.pos + 1
           s == [r EXCEPT !.status = status, !.pos = next]
<1>1. /\ r \in Runs /\ r.pass = "initial" /\ InitialPass(r) /\ Failures(r)
      /\ Timely(r, n) /\ a \in Agents /\ r.pos \in DOMAIN Order
      /\ next \in Nat \ {0}
      /\ status \in [Agents -> {"none", "failed", "completed"}]
  BY Passes, OrderFacts DEF Sound, Runs
<1> HIDE DEF status, next
<1>2. /\ s \in Runs /\ s.pc = "turn" /\ s.pass = "initial" /\ s.pos = next
      /\ s.tries = r.tries /\ s.deadline = r.deadline /\ s.status = status
      /\ s.failure = r.failure /\ s.attempts = r.attempts
  BY <1>1 DEF Runs
<1> HIDE DEF s
<1> USE DEF status, next
<1>3. InitialPass(s)
  BY <1>1, <1>2, OrderFacts DEF InitialPass, Ahead, Runs
<1>4. Failures(s)
  BY <1>1, <1>2 DEF Failures, Runs
<1>5. Timely(s, n) /\ Kept(s, n)
  BY <1>1, <1>2 DEF Timely, Within, Kept
<1> QED BY <1>2, <1>3, <1>4, <1>5 DEF Sound, s

\* What the beginning of an attempt changes
LEMMA AttemptingIs ==
  ASSUME NEW r \in Runs, NEW a \in Agents
  PROVE  LET s == Attempting(r, a)
         IN  /\ s \in Runs /\ s.pc = "acquire" /\ s.pass = r.pass /\ s.pos = r.pos
             /\ s.tries = r.tries /\ s.waited = 0 /\ s.wake = 0
             /\ s.deadline = r.deadline /\ s.passed = r.passed
             /\ s.status = r.status /\ s.failure = r.failure
             /\ s.attempts = [r.attempts EXCEPT ![a] = @ + 1]
<1> DEFINE attempts == [r.attempts EXCEPT ![a] = @ + 1]
           s == [r EXCEPT !.pc = "acquire", !.waited = 0, !.wake = 0, !.attempts = attempts]
<1>1. attempts \in [Agents -> Nat]
  BY DEF Runs
<1>2. Attempting(r, a) = s
  BY DEF Attempting
<1>3. 0 \in 0 .. MaxWait
  BY NumberFacts
<1> HIDE DEF attempts
<1>4. s \in Runs
  BY <1>1, <1>3 DEF Runs
<1>5. /\ s.pc = "acquire" /\ s.pass = r.pass /\ s.pos = r.pos
      /\ s.tries = r.tries /\ s.waited = 0 /\ s.wake = 0
      /\ s.deadline = r.deadline /\ s.passed = r.passed
      /\ s.status = r.status /\ s.failure = r.failure /\ s.attempts = attempts
  BY DEF Runs
<1> HIDE DEF s
<1> QED BY <1>2, <1>4, <1>5 DEF attempts

\* An attempt of the initial pass begins before the deadline.
LEMMA TurnSound ==
  ASSUME NEW n \in Nat, NEW r, Sound(r, n), r.pc = "turn", r.pos <= Len(Order),
         n < r.deadline
  PROVE  Sound(Attempting(r, Order[r.pos]), n)
<1> DEFINE a == Order[r.pos]
           s == Attempting(r, a)
<1>1. /\ r \in Runs /\ r.pass = "initial" /\ InitialPass(r) /\ Failures(r)
      /\ a \in Agents /\ r.pos \in DOMAIN Order /\ r.pos \in Ahead(r)
  BY Passes, OrderFacts DEF Sound, Runs, Ahead
<1>2. /\ s \in Runs /\ s.pc = "acquire" /\ s.pass = "initial" /\ s.pos = r.pos
      /\ s.tries = r.tries /\ s.deadline = r.deadline /\ s.waited = 0
      /\ s.status = r.status /\ s.failure = r.failure
      /\ s.attempts = [r.attempts EXCEPT ![a] = @ + 1]
  BY <1>1, AttemptingIs
<1> HIDE DEF s
<1>3. InitialPass(s)
  BY <1>1, <1>2, OrderFacts DEF InitialPass, Ahead, Runs
<1>4. Failures(s)
  BY <1>1, <1>2 DEF Failures, Runs
<1>5. Timely(s, n) /\ Kept(s, n)
  BY <1>1, <1>2 DEF Timely, Within, Kept, Runs
<1> QED BY <1>2, <1>3, <1>4, <1>5 DEF Sound, s

\* The end of the initial pass leaves every agent at most one attempt.
LEMMA EndSound ==
  ASSUME NEW n \in Nat, NEW r, Sound(r, n), r.pc = "turn", r.pos > Len(Order)
  PROVE  Sound([r EXCEPT !.pc = "review", !.pass = "retry", !.pos = 1, !.passed = n], n)
<1> DEFINE s == [r EXCEPT !.pc = "review", !.pass = "retry", !.pos = 1, !.passed = n]
<1>1. /\ r \in Runs /\ r.pass = "initial" /\ InitialPass(r) /\ Failures(r)
      /\ Timely(r, n)
  BY Passes DEF Sound
<1>2. /\ s \in Runs /\ s.pc = "review" /\ s.pass = "retry" /\ s.pos = 1
      /\ s.tries = 0 /\ s.deadline = r.deadline /\ s.passed = n
      /\ s.status = r.status /\ s.failure = r.failure /\ s.attempts = r.attempts
  <2>1. r.tries = 0
    BY <1>1 DEF InitialPass
  <2> DEFINE first == 1
  <2>2. s \in Runs
    <3>1. first \in Nat \ {0}
      OBVIOUS
    <3> DEFINE t == [r EXCEPT !.pc = "review", !.pass = "retry", !.pos = first,
                              !.passed = n]
    <3>2. t = s
      OBVIOUS
    <3> HIDE DEF first
    <3>3. t \in Runs
      BY <1>1, <3>1 DEF Runs
    <3> QED BY <3>2, <3>3
  <2>3. s.tries = r.tries
    BY <1>1 DEF Runs
  <2> QED BY <1>1, <2>1, <2>2, <2>3 DEF Runs
<1> HIDE DEF s
<1>3. RetryPass(s)
  <2>1. \A a \in Agents : s.attempts[a] <= 1 /\ s.attempts[a] \in Nat
    BY <1>1, <1>2 DEF InitialPass, Runs
  <2> QED BY <1>2, <2>1, PriorityFacts, NumberFacts DEF RetryPass
<1>4. Failures(s)
  BY <1>1, <1>2 DEF Failures
<1>5. Timely(s, n)
  BY <1>1, <1>2 DEF Timely, Within
<1>6. Kept(s, n)
  BY <1>2, FirstProtected, PriorityFacts DEF Kept, Within, Runs
<1> QED BY <1>2, <1>3, <1>4, <1>5, <1>6 DEF Sound, s

\* What the end of an agent's turn changes
LEMMA AdvanceIs ==
  ASSUME NEW r \in Runs
  PROVE  LET s == Advance(r)
         IN  /\ s \in Runs /\ s.pass = r.pass /\ s.pos = r.pos + 1
             /\ s.pc = IF r.pass = "initial" THEN "turn" ELSE "review"
             /\ s.tries = 0 /\ s.waited = 0 /\ s.wake = 0
             /\ s.deadline = r.deadline /\ s.passed = r.passed
             /\ s.status = r.status /\ s.failure = r.failure
             /\ s.attempts = r.attempts
<1> DEFINE next == r.pos + 1
           pc == IF r.pass = "initial" THEN "turn" ELSE "review"
           s == [r EXCEPT !.pc = pc, !.pos = next, !.tries = 0, !.waited = 0, !.wake = 0]
<1>1. next \in Nat \ {0} /\ pc \in {"turn", "review"}
  BY DEF Runs
<1>2. Advance(r) = s
  BY DEF Advance
<1>3. 0 \in 0 .. MaxWait
  BY NumberFacts
<1> HIDE DEF next, pc
<1>4. s \in Runs
  BY <1>1, <1>3 DEF Runs
<1>5. /\ s.pc = pc /\ s.pass = r.pass /\ s.pos = next
      /\ s.tries = 0 /\ s.waited = 0 /\ s.wake = 0
      /\ s.deadline = r.deadline /\ s.passed = r.passed
      /\ s.status = r.status /\ s.failure = r.failure /\ s.attempts = r.attempts
  BY DEF Runs
<1> HIDE DEF s
<1> QED BY <1>2, <1>4, <1>5 DEF next, pc

\* An agent's turn in the initial pass ends soundly when the agents ahead are untouched.
LEMMA AdvanceFirst ==
  ASSUME NEW n \in Nat, NEW r \in Runs, r.pass = "initial", r.pos <= Len(Order),
         \A a \in Agents : r.attempts[a] <= 1,
         \A i \in DOMAIN Order : i > r.pos =>
           /\ r.attempts[Order[i]] = 0
           /\ r.status[Order[i]] = "none" /\ r.failure[Order[i]] = "none",
         Failures(r), n <= r.deadline + MaxWait + 2 * MaxCall
  PROVE  Sound(Advance(r), n)
<1> DEFINE s == Advance(r)
<1>1. /\ s \in Runs /\ s.pass = "initial" /\ s.pos = r.pos + 1 /\ s.pc = "turn"
      /\ s.tries = 0 /\ s.deadline = r.deadline
      /\ s.status = r.status /\ s.failure = r.failure /\ s.attempts = r.attempts
  BY AdvanceIs
<1>2. r.pos \in Nat /\ Len(Order) \in Nat /\ DOMAIN Order = 1 .. Len(Order)
  BY OrderFacts DEF Runs
<1> HIDE DEF s
<1>3. \A i \in Ahead(s) : i \in DOMAIN Order /\ i > r.pos
  BY <1>1, <1>2 DEF Ahead
<1>4. InitialPass(s)
  BY <1>1, <1>2, <1>3 DEF InitialPass
<1>5. Failures(s)
  BY <1>1 DEF Failures
<1>6. Timely(s, n) /\ Kept(s, n)
  BY <1>1 DEF Timely, Within, Kept
<1> QED BY <1>1, <1>4, <1>5, <1>6 DEF Sound, s

\* Of the reserve, what is left to say when an agent's turn is over
Passed(r, n) ==
  Covered /\ r.passed < r.deadline =>
    /\ r.pos < Min(Protected) => n < r.deadline
    /\ r.pos >= Min(Protected) =>
         LET first == Priority[Min(Protected)]
         IN  r.failure[first] = "server_error" => r.attempts[first] > 1

\* An agent's turn in the retry pass ends soundly when the reserve was kept.
LEMMA AdvanceRetry ==
  ASSUME NEW n \in Nat, NEW r \in Runs, r.pass = "retry", r.pos <= Len(Priority),
         \A a \in Agents : r.attempts[a] <= 1 + MaxTries(a),
         \A i \in DOMAIN Priority : i > r.pos => r.attempts[Priority[i]] <= 1,
         Failures(r), n <= r.deadline + MaxWait + 2 * MaxCall, Passed(r, n)
  PROVE  Sound(Advance(r), n)
<1> DEFINE s == Advance(r)
<1>1. /\ s \in Runs /\ s.pass = "retry" /\ s.pos = r.pos + 1 /\ s.pc = "review"
      /\ s.tries = 0 /\ s.deadline = r.deadline /\ s.passed = r.passed
      /\ s.status = r.status /\ s.failure = r.failure /\ s.attempts = r.attempts
  BY AdvanceIs
<1>2. r.pos \in Nat /\ Len(Priority) \in Nat /\ DOMAIN Priority = 1 .. Len(Priority)
  BY PriorityFacts DEF Runs
<1> HIDE DEF s
<1>3. \A i \in DOMAIN Priority : i >= s.pos => s.attempts[Priority[i]] <= 1
  BY <1>1, <1>2
<1>4. RetryPass(s)
  <2>1. s.pos <= Len(Priority) => s.pos \in DOMAIN Priority
    BY <1>1, <1>2
  <2>2. s.pos <= Len(Priority) => s.attempts[Priority[s.pos]] <= 1 + s.tries
    BY <1>1, <1>2, <1>3, <2>1
  <2>3. MaxTries(Priority[s.pos]) \in Nat
    BY NumberFacts
  <2> QED BY <1>1, <1>2, <1>3, <2>2, <2>3 DEF RetryPass
<1>5. Failures(s)
  BY <1>1 DEF Failures
<1>6. Timely(s, n)
  BY <1>1 DEF Timely, Within
<1>7. Kept(s, n)
  <2>1. SUFFICES ASSUME Covered, r.passed < r.deadline
                 PROVE  Kept(s, n)
    BY <1>1 DEF Kept
  <2>2. Min(Protected) \in Nat
    BY <2>1, <1>2, FirstProtected
  <2>3. s.pos <= Min(Protected) => r.pos < Min(Protected)
    BY <1>1, <1>2, <2>2
  <2>4. s.pos > Min(Protected) => r.pos >= Min(Protected)
    BY <1>1, <1>2, <2>2
  <2>5. Within(s, n, r.deadline - Reserve)
    BY <1>1 DEF Within
  <2>6. /\ s.pos <= Min(Protected) => n < r.deadline
        /\ s.pos > Min(Protected) /\ s.failure[Priority[Min(Protected)]] = "server_error"
             => s.attempts[Priority[Min(Protected)]] > 1
    BY <1>1, <2>1, <2>3, <2>4 DEF Passed
  <2>7. s.pos < Min(Protected) \/ s.pos = Min(Protected) => s.pos <= Min(Protected)
    BY <1>1, <1>2, <2>2
  <2> QED BY <1>1, <2>5, <2>6, <2>7 DEF Kept
<1> QED BY <1>1, <1>4, <1>5, <1>6, <1>7 DEF Sound, s

---------------------------------------------------------------------------
(* Within an attempt: the pacer's wait and the call *)

(* A step within an attempt is sound when it stays within whatever limit    *)
(* the attempt began within                                                  *)
LEMMA WithinAttempt ==
  ASSUME NEW n \in Nat, NEW r, Sound(r, n),
         r.pc \in {"acquire", "pacing", "call", "repair"},
         NEW s \in Runs, s.pc \in {"acquire", "pacing", "call", "repair"},
         s.pass = r.pass, s.pos = r.pos, s.tries = r.tries, s.deadline = r.deadline,
         s.passed = r.passed, s.status = r.status, s.failure = r.failure,
         s.attempts = r.attempts,
         \A limit \in Int : Within(r, n, limit) => Within(s, n, limit)
  PROVE  Sound(s, n)
<1>1. r \in Runs /\ Failures(r) /\ Timely(r, n) /\ Kept(r, n)
  BY DEF Sound
<1>2. r.deadline \in Int /\ r.deadline - Reserve \in Int
  BY <1>1, NumberFacts DEF Runs
<1>3. s.pass = "initial" => InitialPass(s)
  <2>1. s.pass = "initial" => InitialPass(r)
    BY DEF Sound
  <2>2. Ahead(s) = Ahead(r)
    BY DEF Ahead
  <2> QED BY <2>1, <2>2 DEF InitialPass
<1>4. s.pass = "retry" => RetryPass(s) /\ r.tries > 0
  BY DEF Sound, RetryPass
<1>5. Failures(s)
  BY <1>1 DEF Failures
<1>6. Timely(s, n)
  BY <1>1, <1>2 DEF Timely
<1>7. Kept(s, n)
  <2>1. SUFFICES ASSUME Covered, s.pass = "retry", r.passed < r.deadline
                 PROVE  Kept(s, n)
    BY DEF Kept
  <2>2. s.pos < Min(Protected) => Within(s, n, r.deadline - Reserve)
    BY <1>1, <1>2, <2>1 DEF Kept
  <2>3. /\ s.pos = Min(Protected) => r.attempts[Priority[Min(Protected)]] > 1
        /\ s.pos > Min(Protected) /\ r.failure[Priority[Min(Protected)]] = "server_error"
             => r.attempts[Priority[Min(Protected)]] > 1
    BY <1>1, <1>4, <2>1 DEF Kept
  <2>4. s.tries # 0 /\ s.pc # "review"
    BY <1>1, <1>4, <2>1 DEF Runs
  <2> QED BY <2>2, <2>3, <2>4 DEF Kept
<1> QED BY <1>3, <1>4, <1>5, <1>6, <1>7 DEF Sound

\* The pacer adds to the wait what it sleeps, up to the longest wait.
LEMMA WaitSound ==
  ASSUME NEW n \in Nat, NEW r, Sound(r, n), r.pc = "acquire",
         NEW k \in Nat, r.waited + k <= MaxWait
  PROVE  Sound([r EXCEPT !.pc = "pacing", !.wake = n + k, !.waited = @ + k], n)
<1> DEFINE wake == n + k
           waited == r.waited + k
           s == [r EXCEPT !.pc = "pacing", !.wake = wake, !.waited = waited]
<1>1. r \in Runs /\ wake \in Nat /\ waited \in 0 .. MaxWait /\ r.waited \in Nat
  BY NumberFacts DEF Sound, Runs
<1> HIDE DEF wake, waited
<1>2. s \in Runs
  BY <1>1 DEF Runs
<1>3. /\ s.pc = "pacing" /\ s.wake = wake /\ s.waited = waited
      /\ s.pass = r.pass /\ s.pos = r.pos /\ s.tries = r.tries
      /\ s.deadline = r.deadline /\ s.passed = r.passed /\ s.status = r.status
      /\ s.failure = r.failure /\ s.attempts = r.attempts
  BY <1>1 DEF Runs
<1> HIDE DEF s
<1>4. ASSUME NEW limit \in Int, Within(r, n, limit)
      PROVE  Within(s, n, limit)
  BY <1>1, <1>3, <1>4 DEF Within, wake, waited
<1>5. Sound(s, n)
  BY <1>2, <1>3, <1>4, WithinAttempt
<1> QED BY <1>5 DEF s, wake, waited

\* The call begins at most the longest wait after the attempt.
LEMMA LeaseSound ==
  ASSUME NEW n \in Nat, NEW r, Sound(r, n), r.pc = "acquire"
  PROVE  Sound([r EXCEPT !.pc = "call", !.wake = n + MaxCall], n)
<1> DEFINE wake == n + MaxCall
           s == [r EXCEPT !.pc = "call", !.wake = wake]
<1>1. r \in Runs /\ wake \in Nat /\ r.waited \in Nat /\ r.waited <= MaxWait
  BY NumberFacts DEF Sound, Runs
<1> HIDE DEF wake
<1>2. s \in Runs
  BY <1>1 DEF Runs
<1>3. /\ s.pc = "call" /\ s.wake = wake
      /\ s.pass = r.pass /\ s.pos = r.pos /\ s.tries = r.tries
      /\ s.deadline = r.deadline /\ s.passed = r.passed /\ s.status = r.status
      /\ s.failure = r.failure /\ s.attempts = r.attempts
  BY <1>1 DEF Runs
<1> HIDE DEF s
<1>4. ASSUME NEW limit \in Int, Within(r, n, limit)
      PROVE  Within(s, n, limit)
  BY <1>1, <1>3, <1>4, NumberFacts DEF Within, wake
<1>5. Sound(s, n)
  BY <1>2, <1>3, <1>4, WithinAttempt
<1> QED BY <1>5 DEF s, wake

\* A repair is one more request of the attempt.
LEMMA RepairSound ==
  ASSUME NEW n \in Nat, NEW r, Sound(r, n), r.pc = "call"
  PROVE  Sound([r EXCEPT !.pc = "repair", !.wake = n + MaxCall], n)
<1> DEFINE wake == n + MaxCall
           s == [r EXCEPT !.pc = "repair", !.wake = wake]
<1>1. r \in Runs /\ wake \in Nat /\ r.wake \in Nat
  BY NumberFacts DEF Sound, Runs
<1> HIDE DEF wake
<1>2. s \in Runs
  BY <1>1 DEF Runs
<1>3. /\ s.pc = "repair" /\ s.wake = wake
      /\ s.pass = r.pass /\ s.pos = r.pos /\ s.tries = r.tries
      /\ s.deadline = r.deadline /\ s.passed = r.passed /\ s.status = r.status
      /\ s.failure = r.failure /\ s.attempts = r.attempts
  BY <1>1 DEF Runs
<1> HIDE DEF s
<1>4. ASSUME NEW limit \in Int, Within(r, n, limit)
      PROVE  Within(s, n, limit)
  BY <1>1, <1>3, <1>4, NumberFacts DEF Within, wake
<1>5. Sound(s, n)
  BY <1>2, <1>3, <1>4, WithinAttempt
<1> QED BY <1>5 DEF s, wake

\* After a sleep of the pacer the request looks again.
LEMMA PacedSound ==
  ASSUME NEW n \in Nat, NEW r, Sound(r, n), r.pc = "pacing", n = r.wake
  PROVE  Sound([r EXCEPT !.pc = "acquire", !.wake = 0], n)
<1> DEFINE s == [r EXCEPT !.pc = "acquire", !.wake = 0]
<1>1. r \in Runs
  BY DEF Sound
<1>2. s \in Runs
  BY <1>1 DEF Runs
<1>3. /\ s.pc = "acquire" /\ s.waited = r.waited
      /\ s.pass = r.pass /\ s.pos = r.pos /\ s.tries = r.tries
      /\ s.deadline = r.deadline /\ s.passed = r.passed /\ s.status = r.status
      /\ s.failure = r.failure /\ s.attempts = r.attempts
  BY <1>1 DEF Runs
<1> HIDE DEF s
<1>4. ASSUME NEW limit \in Int, Within(r, n, limit)
      PROVE  Within(s, n, limit)
  BY <1>3, <1>4 DEF Within
<1>5. Sound(s, n)
  BY <1>2, <1>3, <1>4, WithinAttempt
<1> QED BY <1>5 DEF s

---------------------------------------------------------------------------
(* The end of a sleep *)

\* The pause ends the agent's turn.
LEMMA PauseSound ==
  ASSUME NEW n \in Nat, NEW r, Sound(r, n), r.pc = "pause", n = r.wake
  PROVE  Sound(Advance(r), n)
<1>1. r \in Runs /\ r.pass = "initial" /\ InitialPass(r) /\ Failures(r) /\ Timely(r, n)
  BY Passes DEF Sound
<1>2. n <= r.deadline + MaxWait + 2 * MaxCall
  BY <1>1, NumberFacts DEF Timely, Within, Runs
<1>3. \A i \in DOMAIN Order : i > r.pos => i \in Ahead(r)
  BY DEF Ahead
<1> QED BY <1>1, <1>2, <1>3, AdvanceFirst DEF InitialPass

\* A retry begins when its backoff is over, before its deadline.
LEMMA RetrySound ==
  ASSUME NEW n \in Nat, NEW r, Sound(r, n), r.pc = "backoff", n = r.wake
  PROVE  Sound(Attempting(r, Priority[r.pos]), n)
<1> DEFINE a == Priority[r.pos]
           s == Attempting(r, a)
<1>1. /\ r \in Runs /\ r.pass = "retry" /\ RetryPass(r) /\ Failures(r)
      /\ Timely(r, n) /\ Kept(r, n)
  BY Passes DEF Sound
<1>2. r.pos \in DOMAIN Priority /\ a \in Agents /\ r.tries > 0 /\ r.tries \in Nat
  BY <1>1, PriorityFacts DEF RetryPass, Runs
<1>3. /\ s \in Runs /\ s.pc = "acquire" /\ s.pass = "retry" /\ s.pos = r.pos
      /\ s.tries = r.tries /\ s.waited = 0 /\ s.deadline = r.deadline
      /\ s.passed = r.passed /\ s.status = r.status /\ s.failure = r.failure
      /\ s.attempts = [r.attempts EXCEPT ![a] = @ + 1]
  BY <1>1, <1>2, AttemptingIs
<1>4. /\ \A b \in Agents : b # a => s.attempts[b] = r.attempts[b]
      /\ s.attempts[a] = r.attempts[a] + 1 /\ r.attempts[a] \in Nat
  BY <1>1, <1>2, <1>3 DEF Runs
<1>5. /\ r.attempts[a] <= r.tries /\ r.tries <= MaxTries(a) /\ MaxTries(a) \in Nat
      /\ r.status[a] = "failed" /\ r.attempts[a] > 0
  BY <1>1, <1>2, NumberFacts, PriorityFacts DEF RetryPass
<1>6. \A i \in DOMAIN Priority : i > r.pos => Priority[i] # a /\ Priority[i] \in Agents
  BY <1>2, PriorityFacts
<1> HIDE DEF s
<1>7. RetryPass(s)
  <2>1. \A b \in Agents : s.attempts[b] <= 1 + MaxTries(b)
    BY <1>1, <1>2, <1>4, <1>5 DEF RetryPass
  <2>2. \A i \in DOMAIN Priority : i > s.pos => s.attempts[Priority[i]] <= 1
    BY <1>1, <1>3, <1>4, <1>6 DEF RetryPass
  <2>3. s.attempts[a] <= 1 + r.tries /\ s.attempts[a] > 0
    BY <1>2, <1>4, <1>5
  <2> HIDE DEF a
  <2>4. s.pos <= Len(Priority)
    BY <1>1, <1>3 DEF RetryPass
  <2> QED BY <1>2, <1>3, <1>5, <2>1, <2>2, <2>3, <2>4 DEF RetryPass, a
<1>8. Failures(s)
  BY <1>1, <1>2, <1>3, <1>4 DEF Failures
<1>9. Timely(s, n)
  BY <1>1, <1>3 DEF Timely, Within, Runs
<1>10. Kept(s, n)
  <2>1. SUFFICES ASSUME Covered, r.passed < r.deadline
                 PROVE  Kept(s, n)
    BY <1>3 DEF Kept
  <2> DEFINE m == Min(Protected)
             first == Priority[m]
  <2>2. first \in Agents /\ m \in Nat
    BY <2>1, FirstProtected, PriorityFacts
  <2>3. s.attempts[first] >= r.attempts[first] /\ r.attempts[first] \in Nat
    BY <1>1, <1>4, <2>2 DEF Runs
  <2>4. s.pos < m => Within(s, n, r.deadline - Reserve)
    <3>1. r.pos < m => Within(r, n, r.deadline - Reserve)
      BY <1>1, <2>1 DEF Kept
    <3>2. r.deadline - Reserve \in Int
      BY <1>1, NumberFacts DEF Runs
    <3> QED BY <1>3, <3>1, <3>2 DEF Within
  <2>5. s.pos = m => s.attempts[first] > 1
    BY <1>3, <1>4, <1>5
  <2>6. s.pos > m /\ s.failure[first] = "server_error" => s.attempts[first] > 1
    BY <1>1, <1>3, <2>1, <2>3 DEF Kept
  <2>7. s.tries # 0 /\ s.pc # "review"
    BY <1>2, <1>3
  <2> QED BY <1>3, <2>4, <2>5, <2>6, <2>7 DEF Kept
<1> QED BY <1>3, <1>7, <1>8, <1>9, <1>10 DEF Sound, s

---------------------------------------------------------------------------
(* The head of the retry loop *)

\* A council is done when every agent's turn in the retry pass is over.
LEMMA DoneSound ==
  ASSUME NEW n \in Nat, NEW r, Sound(r, n), r.pc = "review", r.pos > Len(Priority)
  PROVE  Sound([r EXCEPT !.pc = "done"], n)
<1> DEFINE s == [r EXCEPT !.pc = "done"]
<1>1. /\ r \in Runs /\ r.pass = "retry" /\ RetryPass(r) /\ Failures(r) /\ Kept(r, n)
  BY Passes DEF Sound
<1>2. s \in Runs
  BY <1>1 DEF Runs
<1>3. /\ s.pc = "done" /\ s.pass = "retry" /\ s.pos = r.pos /\ s.tries = r.tries
      /\ s.deadline = r.deadline /\ s.passed = r.passed /\ s.status = r.status
      /\ s.failure = r.failure /\ s.attempts = r.attempts
  BY <1>1 DEF Runs
<1> HIDE DEF s
<1>4. r.pos \in Nat /\ Len(Priority) \in Nat /\ DOMAIN Priority = 1 .. Len(Priority)
  BY <1>1, PriorityFacts DEF Runs
<1>5. RetryPass(s)
  BY <1>1, <1>3, <1>4 DEF RetryPass
<1>6. Failures(s) /\ Timely(s, n)
  BY <1>1, <1>3 DEF Failures, Timely, Within
<1>7. Kept(s, n)
  <2>1. SUFFICES ASSUME Covered, r.passed < r.deadline
                 PROVE  Kept(s, n)
    BY <1>3 DEF Kept
  <2>2. Min(Protected) \in Nat /\ Min(Protected) <= Len(Priority)
    BY <2>1, <1>4, FirstProtected
  <2>3. ~(s.pos < Min(Protected)) /\ s.pos # Min(Protected) /\ r.pos > Min(Protected)
    BY <1>3, <1>4, <2>2
  <2> QED BY <1>1, <1>3, <2>1, <2>3 DEF Kept
<1> QED BY <1>2, <1>3, <1>5, <1>6, <1>7 DEF Sound, s

\* The deadline of the retries of an agent
Until(r, a) == IF a \in Reserved THEN r.deadline ELSE r.deadline - Reserve

(* An agent's turn in the retry pass ends without another attempt: it has   *)
(* no failure to retry, its retries or the time for them are used up, or    *)
(* the provider asked for no wait                                            *)
LEMMA NoRetrySound ==
  ASSUME NEW n \in Nat, NEW r, Sound(r, n), r.pc = "review", r.pos <= Len(Priority),
         LET a == Priority[r.pos]
         IN  \/ r.tries = 0 /\ ~(r.failure[a] # "none" /\ r.status[a] = "failed")
             \/ r.tries >= MaxTries(a)
             \/ Until(r, a) - n <= 0
             \/ r.failure[a] = "rate_limited"
  PROVE  Sound(Advance(r), n)
<1> DEFINE a == Priority[r.pos]
<1>1. /\ r \in Runs /\ r.pass = "retry" /\ RetryPass(r) /\ Failures(r)
      /\ Timely(r, n) /\ Kept(r, n)
  BY Passes DEF Sound
<1>2. n <= r.deadline + MaxWait + 2 * MaxCall
  BY <1>1 DEF Timely
<1>3. a \in Agents /\ r.tries \in Nat /\ r.pos \in Nat /\ r.deadline \in Nat
  BY <1>1, PriorityFacts DEF Runs
<1>4. Passed(r, n)
  <2>1. SUFFICES ASSUME Covered, r.passed < r.deadline
                 PROVE  Passed(r, n)
    BY DEF Passed
  <2> DEFINE m == Min(Protected)
             first == Priority[m]
  <2>2. first \in Reserved /\ MaxTries(first) > 0 /\ m \in Nat
    BY <2>1, FirstProtected, PriorityFacts
  <2>3. r.pos < m => n < r.deadline
    BY <1>1, <2>1 DEF Kept
  <2>4. r.pos > m /\ r.failure[first] = "server_error" => r.attempts[first] > 1
    BY <1>1, <2>1 DEF Kept
  <2>5. r.pos = m /\ r.tries > 0 => r.attempts[first] > 1
    BY <1>1, <2>1 DEF Kept
  <2>6. r.pos = m /\ r.tries = 0 => r.failure[first] # "server_error"
    <3>1. SUFFICES ASSUME r.pos = m, r.tries = 0
                   PROVE  r.failure[first] # "server_error"
      OBVIOUS
    <3>2. a = first /\ n < r.deadline /\ MaxTries(first) \in Nat
      BY <1>1, <2>1, <3>1, NumberFacts DEF Kept
    <3>3. CASE ~(r.failure[a] # "none" /\ r.status[a] = "failed")
      BY <1>1, <1>3, <3>2, <3>3 DEF Failures
    <3>4. CASE r.tries >= MaxTries(a)
      BY <2>2, <3>1, <3>2, <3>4
    <3>5. CASE Until(r, a) - n <= 0
      BY <1>3, <2>2, <3>2, <3>5 DEF Until
    <3>6. CASE r.failure[a] = "rate_limited"
      BY <3>2, <3>6
    <3> QED BY <3>3, <3>4, <3>5, <3>6
  <2>7. r.pos >= m /\ r.failure[first] = "server_error" => r.attempts[first] > 1
    BY <1>3, <2>2, <2>4, <2>5, <2>6
  <2> QED BY <2>3, <2>7 DEF Passed
<1> QED BY <1>1, <1>2, <1>4, AdvanceRetry DEF RetryPass

\* A backoff is cut to the time the agent has left.
LEMMA BackoffSound ==
  ASSUME NEW n \in Nat, NEW r, Sound(r, n), r.pc = "review", r.pos <= Len(Priority),
         r.tries = 0 => r.failure[Priority[r.pos]] # "none",
         r.tries < MaxTries(Priority[r.pos]),
         NEW k \in Nat, k <= Until(r, Priority[r.pos]) - n
  PROVE  Sound([r EXCEPT !.pc = "backoff", !.tries = @ + 1, !.wake = n + k], n)
<1> DEFINE a == Priority[r.pos]
           tries == r.tries + 1
           wake == n + k
           s == [r EXCEPT !.pc = "backoff", !.tries = tries, !.wake = wake]
<1>1. /\ r \in Runs /\ r.pass = "retry" /\ RetryPass(r) /\ Failures(r)
      /\ Timely(r, n) /\ Kept(r, n)
  BY Passes DEF Sound
<1>2. /\ a \in Agents /\ r.tries \in Nat /\ r.pos \in DOMAIN Priority
      /\ tries \in Nat /\ wake \in Nat /\ r.deadline \in Nat
      /\ r.attempts[a] \in Nat /\ MaxTries(a) \in Nat
  BY <1>1, PriorityFacts, NumberFacts DEF Runs
<1>3. /\ tries <= MaxTries(a) /\ tries > 0 /\ wake <= Until(r, a)
      /\ r.attempts[a] <= tries
  BY <1>1, <1>2, NumberFacts DEF RetryPass, Until
<1>4. r.status[a] = "failed" /\ r.attempts[a] > 0
  BY <1>1, <1>2, PriorityFacts DEF RetryPass, Failures
<1>5. n <= wake
  BY <1>2
<1> HIDE DEF tries, wake
<1>6. s \in Runs
  BY <1>1, <1>2 DEF Runs
<1>7. /\ s.pc = "backoff" /\ s.pass = "retry" /\ s.pos = r.pos /\ s.tries = tries
      /\ s.wake = wake /\ s.deadline = r.deadline /\ s.passed = r.passed
      /\ s.status = r.status /\ s.failure = r.failure /\ s.attempts = r.attempts
  BY <1>1 DEF Runs
<1> HIDE DEF s
<1>8. RetryPass(s)
  BY <1>1, <1>3, <1>4, <1>7 DEF RetryPass
<1>9. Failures(s)
  BY <1>1, <1>7 DEF Failures
<1>10. Timely(s, n)
  BY <1>2, <1>3, <1>5, <1>7, NumberFacts DEF Timely, Within, Until
<1>11. Kept(s, n)
  <2>1. SUFFICES ASSUME Covered, r.passed < r.deadline
                 PROVE  Kept(s, n)
    BY <1>7 DEF Kept
  <2> DEFINE m == Min(Protected)
             first == Priority[m]
  <2>2. r.pos < m => Within(s, n, r.deadline - Reserve)
    <3>1. r.pos < m => a \notin Reserved
      BY <2>1, <1>2, FirstProtected
    <3> QED BY <1>3, <1>5, <1>7, <3>1 DEF Within, Until
  <2>3. r.pos = m => s.attempts[first] > 0
    BY <1>4, <1>7
  <2>4. r.pos > m /\ r.failure[first] = "server_error" => r.attempts[first] > 1
    BY <1>1, <2>1 DEF Kept
  <2>5. s.tries # 0 /\ s.pc # "review"
    BY <1>2, <1>3, <1>7
  <2> QED BY <1>7, <2>2, <2>3, <2>4, <2>5 DEF Kept
<1> QED BY <1>6, <1>7, <1>8, <1>9, <1>10, <1>11 DEF Sound, s, tries, wake

---------------------------------------------------------------------------
(* The answer of the provider *)

Outcomes == Transient \cup {"completed", "quarantined", "permanent"}
Verdict(outcome) == IF outcome = "completed" THEN "completed" ELSE "failed"

Statuses == {"none", "failed", "completed"}
Causes == Transient \cup {"none"}
Output(r, a, x, y) == [r EXCEPT !.status[a] = x, !.failure[a] = y]

\* What an output changes
LEMMA OutputIs ==
  ASSUME NEW r \in Runs, NEW a \in Agents,
         NEW x \in Statuses, NEW y \in Causes
  PROVE  LET s == Output(r, a, x, y)
         IN  /\ s \in Runs /\ s.pc = r.pc /\ s.pass = r.pass /\ s.pos = r.pos
             /\ s.tries = r.tries /\ s.waited = r.waited /\ s.wake = r.wake
             /\ s.deadline = r.deadline /\ s.passed = r.passed /\ s.attempts = r.attempts
             /\ s.status = [r.status EXCEPT ![a] = x]
             /\ s.failure = [r.failure EXCEPT ![a] = y]
<1> DEFINE status == [r.status EXCEPT ![a] = x]
           failure == [r.failure EXCEPT ![a] = y]
           s == [r EXCEPT !.status = status, !.failure = failure]
<1>1. status \in [Agents -> Statuses] /\ failure \in [Agents -> Causes]
  BY DEF Runs, Statuses, Causes
<1>2. Output(r, a, x, y) = s
  BY DEF Output
<1> HIDE DEF status, failure
<1>3. s \in Runs
  BY <1>1 DEF Runs, Statuses, Causes
<1>4. /\ s.pc = r.pc /\ s.pass = r.pass /\ s.pos = r.pos
      /\ s.tries = r.tries /\ s.waited = r.waited /\ s.wake = r.wake
      /\ s.deadline = r.deadline /\ s.passed = r.passed /\ s.attempts = r.attempts
      /\ s.status = status /\ s.failure = failure
  BY DEF Runs
<1> HIDE DEF s
<1> QED BY <1>2, <1>3, <1>4 DEF status, failure

\* Whatever the provider answers in the initial pass, the next turn is in order.
LEMMA FirstAnswerSound ==
  ASSUME now \in Nat, NEW r, Sound(r, now), r.pc \in {"call", "repair"}, r.pass = "initial",
         NEW outcome \in Outcomes
  PROVE  Sound(AfterFirst(r, Order[r.pos], outcome), now)
<1> DEFINE a == Order[r.pos]
           x == Verdict(outcome)
           y == IF outcome \in Transient THEN outcome ELSE "none"
           d == Output(r, a, x, y)
<1>1. r \in Runs /\ InitialPass(r) /\ Failures(r) /\ Timely(r, now)
  BY DEF Sound
<1>2. a \in Agents /\ r.pos \in DOMAIN Order /\ r.pos <= Len(Order) /\ r.attempts[a] > 0
  BY <1>1, OrderFacts DEF InitialPass, Runs
<1>3. x \in Statuses /\ y \in Causes /\ (y # "none" => x = "failed")
  BY DEF Verdict, Transient, Statuses, Causes
<1>4. AfterFirst(r, a, outcome) =
        IF Pause > 0 /\ r.pos < Len(Order) /\ now + Pause < r.deadline
          THEN [d EXCEPT !.pc = "pause", !.wake = now + Pause]
          ELSE Advance(d)
  BY DEF AfterFirst, Verdict, Output
<1> HIDE DEF x, y
<1>5. /\ d \in Runs /\ d.pass = "initial" /\ d.pos = r.pos /\ d.tries = r.tries
      /\ d.deadline = r.deadline /\ d.passed = r.passed /\ d.attempts = r.attempts
      /\ d.status = [r.status EXCEPT ![a] = x]
      /\ d.failure = [r.failure EXCEPT ![a] = y]
  BY <1>1, <1>2, <1>3, OutputIs
<1> HIDE DEF d
<1>6. Failures(d)
  BY <1>1, <1>2, <1>3, <1>5 DEF Failures, Runs
<1>7. ASSUME NEW i \in DOMAIN Order, i > r.pos
      PROVE  /\ d.attempts[Order[i]] = 0
             /\ d.status[Order[i]] = "none" /\ d.failure[Order[i]] = "none"
  <2>1. Order[i] # a /\ Order[i] \in Agents /\ i \in Ahead(r)
    BY <1>2, <1>7, OrderFacts DEF Ahead
  <2> QED BY <1>1, <1>5, <2>1 DEF InitialPass, Runs
<1>8. \A b \in Agents : d.attempts[b] <= 1
  BY <1>1, <1>5 DEF InitialPass
<1>9. now <= r.deadline + MaxWait + 2 * MaxCall
  BY <1>1, NumberFacts DEF Timely, Within, Runs
<1>10. Sound(Advance(d), now)
  BY <1>2, <1>5, <1>6, <1>7, <1>8, <1>9, AdvanceFirst
<1>11. ASSUME now + Pause < r.deadline, r.pos < Len(Order)
       PROVE  Sound([d EXCEPT !.pc = "pause", !.wake = now + Pause], now)
  <2> DEFINE wake == now + Pause
             s == [d EXCEPT !.pc = "pause", !.wake = wake]
  <2>1. wake \in Nat /\ now <= wake /\ wake <= r.deadline
    BY <1>1, <1>11, NumberFacts DEF Runs
  <2> HIDE DEF wake
  <2>2. s \in Runs
    BY <1>5, <2>1 DEF Runs
  <2>3. /\ s.pc = "pause" /\ s.wake = wake /\ s.pass = "initial" /\ s.pos = r.pos
        /\ s.tries = r.tries /\ s.deadline = r.deadline /\ s.attempts = d.attempts
        /\ s.status = d.status /\ s.failure = d.failure
    BY <1>5 DEF Runs
  <2> HIDE DEF s
  <2>4. \A i \in Ahead(s) : i \in DOMAIN Order /\ i > r.pos
    BY <2>3 DEF Ahead
  <2>5. InitialPass(s)
    BY <1>1, <1>2, <1>7, <1>8, <2>3, <2>4 DEF InitialPass
  <2>6. Failures(s)
    BY <1>6, <2>3 DEF Failures
  <2>7. Timely(s, now) /\ Kept(s, now)
    BY <2>1, <2>3 DEF Timely, Within, Kept
  <2> QED BY <2>2, <2>3, <2>5, <2>6, <2>7 DEF Sound, s, wake
<1> QED BY <1>4, <1>10, <1>11

\* Whatever it answers a retry, the agent is done with or goes round again.
LEMMA RetryAnswerSound ==
  ASSUME now \in Nat, NEW r, Sound(r, now), r.pc \in {"call", "repair"}, r.pass = "retry",
         NEW outcome \in Outcomes
  PROVE  Sound(AfterRetry(r, Priority[r.pos], outcome), now)
<1> DEFINE a == Priority[r.pos]
<1>1. r \in Runs /\ RetryPass(r) /\ Failures(r) /\ Timely(r, now) /\ Kept(r, now)
  BY DEF Sound
<1>2. /\ a \in Agents /\ r.pos \in DOMAIN Priority /\ r.pos <= Len(Priority)
      /\ r.tries > 0 /\ r.tries \in Nat /\ r.attempts[a] > 0 /\ r.status[a] = "failed"
  BY <1>1, PriorityFacts DEF RetryPass, Runs
<1>3. now <= r.deadline + MaxWait + 2 * MaxCall
  BY <1>1, NumberFacts DEF Timely, Within, Runs
<1> DEFINE first == Priority[Min(Protected)]
<1>4. ASSUME Covered, r.passed < r.deadline
      PROVE  /\ r.pos < Min(Protected) => now < r.deadline
             /\ r.pos = Min(Protected) => r.attempts[first] > 1
             /\ r.pos > Min(Protected) /\ r.failure[first] = "server_error"
                  => r.attempts[first] > 1
             /\ r.pos > Min(Protected) => first # a
             /\ Min(Protected) \in Nat /\ first \in Agents
  <2>1. r.pos < Min(Protected) => Within(r, now, r.deadline - Reserve)
    BY <1>1, <1>4 DEF Kept
  <2>2. r.pos < Min(Protected) => now < r.deadline
    BY <1>1, <1>4, <2>1, NumberFacts DEF Within, Runs, Covered
  <2>3. Min(Protected) \in DOMAIN Priority /\ Min(Protected) \in Nat /\ first \in Agents
    BY <1>4, FirstProtected, PriorityFacts
  <2>4. r.pos > Min(Protected) => first # a
    BY <1>2, <2>3, PriorityFacts
  <2> QED BY <1>1, <1>2, <1>4, <2>2, <2>3, <2>4 DEF Kept
<1>5. CASE outcome \in {"completed", "quarantined"}
  <2> DEFINE x == Verdict(outcome)
             none == "none"
             d == Output(r, a, x, none)
  <2>1. AfterRetry(r, a, outcome) = Advance(d)
    BY <1>5 DEF AfterRetry, Verdict, Output
  <2>2. x \in Statuses /\ none \in Causes
    BY DEF Verdict, Statuses, Causes
  <2> HIDE DEF x
  <2>3. /\ d \in Runs /\ d.pass = "retry" /\ d.pos = r.pos
        /\ d.deadline = r.deadline /\ d.passed = r.passed /\ d.attempts = r.attempts
        /\ d.status = [r.status EXCEPT ![a] = x]
        /\ d.failure = [r.failure EXCEPT ![a] = "none"]
    BY <1>1, <1>2, <2>2, OutputIs
  <2> HIDE DEF d
  <2>4. Failures(d)
    BY <1>1, <1>2, <2>3 DEF Failures, Runs
  <2>5. Passed(d, now)
    <3>1. SUFFICES ASSUME Covered, r.passed < r.deadline
                   PROVE  Passed(d, now)
      BY <2>3 DEF Passed
    <3>2. d.failure[first] = "server_error" => r.failure[first] = "server_error" /\ first # a
      BY <1>1, <1>2, <1>4, <2>3, <3>1 DEF Runs
    <3>3. r.pos \in Nat
      BY <1>1 DEF Runs
    <3> QED BY <1>4, <2>3, <3>1, <3>2, <3>3 DEF Passed
  <2>6. Sound(Advance(d), now)
    BY <1>1, <1>2, <1>3, <2>3, <2>4, <2>5, AdvanceRetry DEF RetryPass
  <2> QED BY <2>1, <2>6
<1>6. CASE outcome = "permanent"
  <2>1. AfterRetry(r, a, outcome) = Advance(r)
    BY <1>6 DEF AfterRetry
  <2>2. r.pos \in Nat
    BY <1>1 DEF Runs
  <2>3. Passed(r, now)
    BY <1>4, <2>2 DEF Passed
  <2> QED BY <1>1, <1>2, <1>3, <2>1, <2>3, AdvanceRetry DEF RetryPass
<1>7. CASE outcome \in Transient
  <2> DEFINE failure == [r.failure EXCEPT ![a] = outcome]
             s == [r EXCEPT !.pc = "review", !.failure = failure, !.waited = 0, !.wake = 0]
  <2>1. AfterRetry(r, a, outcome) = s
    BY <1>7 DEF AfterRetry, Transient
  <2>2. failure \in [Agents -> Causes] /\ 0 \in 0 .. MaxWait
    <3>1. r.failure \in [Agents -> Causes]
      BY <1>1 DEF Runs, Causes
    <3>2. outcome \in Causes
      BY <1>7 DEF Causes
    <3>3. 0 \in 0 .. MaxWait
      BY NumberFacts
    <3> QED BY <3>1, <3>2, <3>3
  <2> HIDE DEF failure
  <2>3. s \in Runs
    BY <1>1, <2>2 DEF Runs, Causes
  <2>4. /\ s.pc = "review" /\ s.pass = "retry" /\ s.pos = r.pos /\ s.tries = r.tries
        /\ s.deadline = r.deadline /\ s.passed = r.passed /\ s.status = r.status
        /\ s.failure = failure /\ s.attempts = r.attempts
    BY <1>1 DEF Runs
  <2> HIDE DEF s
  <2>5. RetryPass(s)
    BY <1>1, <1>2, <2>4 DEF RetryPass
  <2>6. Failures(s)
    BY <1>1, <1>2, <2>4 DEF Failures, failure, Runs
  <2>7. Timely(s, now)
    BY <1>3, <2>4 DEF Timely, Within
  <2>8. Kept(s, now)
    <3>1. SUFFICES ASSUME Covered, r.passed < r.deadline
                   PROVE  Kept(s, now)
      BY <2>4 DEF Kept
    <3>2. Within(s, now, r.deadline - Reserve)
      BY <2>4 DEF Within
    <3>3. r.pos > Min(Protected) => s.failure[first] = r.failure[first]
      BY <1>1, <1>2, <1>4, <2>4, <3>1 DEF failure, Runs
    <3>4. s.tries # 0
      BY <1>2, <2>4
    <3> QED BY <1>4, <2>4, <3>1, <3>2, <3>3, <3>4 DEF Kept
  <2> QED BY <2>1, <2>3, <2>4, <2>5, <2>6, <2>7, <2>8 DEF Sound
<1> QED BY <1>5, <1>6, <1>7 DEF Outcomes

---------------------------------------------------------------------------
(* The pacer *)

\* The others' share is a part of the capacity, which is the chair's share.
LEMMA ShareFacts ==
  /\ OthersShare \in Nat /\ OthersShare <= Capacity
  /\ \A a \in Agents :
       /\ Share(a) \in Nat /\ Share(a) <= Capacity
       /\ a # Chair => Share(a) = OthersShare
<1> DEFINE slice == Lesser(ReserveTokens, Capacity \div 2)
<1>1. Capacity \in Nat /\ Capacity \div 2 \in Nat /\ Capacity \div 2 <= Capacity
  BY NumberFacts
<1>2. slice \in Nat /\ slice <= Capacity
  BY <1>1, NumberFacts DEF Lesser
<1>3. OthersShare = Capacity - slice
  BY DEF OthersShare, Effective
<1>4. \A a \in Agents : Share(a) = IF a = Chair THEN Capacity ELSE Capacity - slice
  BY DEF Share, Effective
<1> HIDE DEF slice
<1>5. Capacity - slice \in Nat /\ Capacity - slice <= Capacity
  BY <1>1, <1>2
<1> QED BY <1>1, <1>3, <1>4, <1>5

\* The entries of a window count as tokens do.
LEMMA WindowCounted ==
  ASSUME NEW W, NEW n, WindowOK(W, n)
  PROVE  Counted(W) /\ \A S \in SUBSET W : Counted(S) /\ Tokens(S) \in Nat
<1>1. Counted(W)
  BY DEF WindowOK, Entries, Counted
<1>2. \A S \in SUBSET W : Counted(S)
  BY <1>1, FS_Subset DEF Counted
<1> QED BY <1>1, <1>2, TokensType

(* One turn of the pacer's loop asks for no more waiting than is left of    *)
(* the longest wait                                                          *)
LEMMA SleepFacts ==
  ASSUME NEW W, NEW n \in Nat, WindowOK(W, n), NEW est, NEW b \in BOOLEAN,
         NEW waited \in 0 .. MaxWait
  PROVE  LET sleep == Sleep(W, est, b, waited, n)
         IN  sleep \in Nat /\ waited + sleep <= MaxWait
<1> DEFINE enough == {e \in W : Fits({f \in W : f.at > e.at}, est, b)}
           waits == {e.at + Window - n : e \in enough} \cup {Window}
<1>1. waits \in SUBSET Nat /\ waits # {}
  <2>1. ASSUME NEW e \in W
        PROVE  e.at + Window - n \in Nat
    <3>1. e.at \in Nat /\ n - Window < e.at
      BY <2>1 DEF WindowOK, Entries
    <3> QED BY <3>1, NumberFacts
  <2> QED BY <2>1, NumberFacts
<1>2. UntilFits(W, est, b, n) = Min(waits)
  BY DEF UntilFits
<1> HIDE DEF waits
<1>3. UntilFits(W, est, b, n) \in Nat
  BY <1>1, <1>2, MinOfNaturals
<1>4. waited \in Nat /\ MaxWait \in Nat /\ waited <= MaxWait
  BY NumberFacts
<1> QED BY <1>3, <1>4 DEF Sleep, Lesser

\* A lease joins the window fitting its share, or marked as not fitting.
LEMMA LeaseOK ==
  ASSUME NEW W, NEW n \in Nat, WindowOK(W, n), NEW c \in Councils, NEW a \in Agents,
         NEW k \in Nat
  PROVE  WindowOK(W \cup
           {[by |-> <<c, a, k>>, at |-> n, tokens |-> Estimate[a],
             over |-> ~Fits(W, Estimate[a], a = Chair)
                      \/ Estimate[a] > Effective(a = Chair)]}, n)
<1> DEFINE over == ~Fits(W, Estimate[a], a = Chair) \/ Estimate[a] > Effective(a = Chair)
           by == <<c, a, k>>
           est == Estimate[a]
           x == [by |-> by, at |-> n, tokens |-> est, over |-> over]
           V == W \cup {x}
<1>1. est \in Nat /\ over \in BOOLEAN /\ by \in Councils \X Agents \X Nat /\ by[2] = a
  BY CouncilAssumption
<1>2. ~over => Tokens(W) + est <= Share(a)
  <2>1. Share(a) \in Nat
    BY ShareFacts
  <2>2. ~over => Tokens(W) + Lesser(est, Share(a)) <= Share(a) /\ ~(est > Share(a))
    BY DEF Fits, Needed, Share
  <2> HIDE DEF over, est
  <2> QED BY <1>1, <2>1, <2>2 DEF Lesser
<1> HIDE DEF over, by, est
<1>3. /\ x \in Entries /\ x.tokens = est /\ x.at = n /\ x.over = over /\ x.by[2] = a
  BY <1>1 DEF Entries
<1> HIDE DEF x
<1>4. V \subseteq Entries /\ IsFiniteSet(V)
  BY <1>3, FS_AddElement DEF WindowOK
<1>5. \A e \in V : n - Window < e.at /\ e.at <= n
  BY <1>3, NumberFacts DEF WindowOK
<1>6. /\ Counted(Fitting(W)) /\ Counted(Others(Fitting(W)))
      /\ Tokens(Fitting(W)) <= Tokens(W) /\ Tokens(Others(Fitting(W))) <= Tokens(W)
      /\ Tokens(W) \in Nat /\ Tokens(Fitting(W)) \in Nat
      /\ Tokens(Others(Fitting(W))) \in Nat
  <2>1. Fitting(W) \in SUBSET W /\ Others(Fitting(W)) \in SUBSET W /\ W \in SUBSET W
    BY DEF Fitting, Others
  <2> QED BY <2>1, WindowCounted, TokensMonotone
<1>7. Tokens(Fitting(V)) <= Capacity
  <2>1. CASE over
    <3>1. Fitting(V) = Fitting(W)
      BY <1>3, <2>1 DEF Fitting
    <3> QED BY <3>1 DEF WindowOK
  <2>2. CASE ~over
    <3>1. Fitting(V) = Fitting(W) \cup {x}
      BY <1>3, <2>2 DEF Fitting
    <3>2. /\ Counted(Fitting(W) \cup {x})
          /\ Tokens(Fitting(W) \cup {x}) <= Tokens(Fitting(W)) + est
      BY <1>1, <1>3, <1>6, TokensWith
    <3>3. Tokens(Fitting(W) \cup {x}) \in Nat
      BY <3>2, TokensType
    <3>4. Share(a) \in Nat /\ Share(a) <= Capacity
      BY ShareFacts
    <3> QED BY <1>1, <1>2, <1>6, <2>2, <3>1, <3>2, <3>3, <3>4, NumberFacts
  <2> QED BY <2>1, <2>2
<1>8. Tokens(Others(Fitting(V))) <= OthersShare
  <2>1. CASE over \/ a = Chair
    <3>1. Others(Fitting(V)) = Others(Fitting(W))
      BY <1>3, <2>1 DEF Fitting, Others
    <3> QED BY <3>1 DEF WindowOK
  <2>2. CASE ~over /\ a # Chair
    <3> DEFINE U == Others(Fitting(W)) \cup {x}
    <3>1. Others(Fitting(V)) = U
      BY <1>3, <2>2 DEF Fitting, Others
    <3>2. Counted(U) /\ Tokens(U) <= Tokens(Others(Fitting(W))) + est
      BY <1>1, <1>3, <1>6, TokensWith
    <3> HIDE DEF U
    <3>3. Tokens(U) \in Nat
      BY <3>2, TokensType
    <3>4. Share(a) = OthersShare /\ OthersShare \in Nat
      BY <2>2, ShareFacts
    <3>5. Tokens(W) + est <= OthersShare
      BY <1>2, <2>2, <3>4
    <3>6. Tokens(U) <= OthersShare
      BY <1>1, <1>6, <3>2, <3>3, <3>4, <3>5
    <3> QED BY <3>1, <3>6
  <2> QED BY <2>1, <2>2
<1>9. WindowOK(V, n)
  BY <1>4, <1>5, <1>7, <1>8 DEF WindowOK
<1> QED BY <1>9 DEF x, over, by, est

\* The window after an answer
Settled(W, key, tokens) ==
  {IF e.by = key THEN [e EXCEPT !.tokens = tokens, !.over = @ \/ tokens > e.tokens]
   ELSE e : e \in W}

\* An answer replaces an estimate by no more, or marks the entry.
LEMMA SettleOK ==
  ASSUME NEW W, NEW n \in Nat, WindowOK(W, n), NEW key, NEW tokens \in Nat
  PROVE  WindowOK(Settled(W, key, tokens), n)
<1> DEFINE settled(e) == [e EXCEPT !.tokens = tokens, !.over = @ \/ tokens > e.tokens]
           h == [e \in W |-> IF e.by = key THEN settled(e) ELSE e]
           V == {h[e] : e \in W}
           S == {e \in W : ~h[e].over}
           O == {e \in S : e.by[2] # Chair}
<1>1. V = Settled(W, key, tokens)
  BY DEF Settled
<1>2. ASSUME NEW e \in W
      PROVE  /\ h[e] \in Entries /\ h[e].by = e.by /\ h[e].at = e.at
             /\ h[e].tokens \in Nat
             /\ ~h[e].over => ~e.over /\ h[e].tokens <= e.tokens
  <2> DEFINE over == e.over \/ tokens > e.tokens
             s == [e EXCEPT !.tokens = tokens, !.over = over]
  <2>1. e \in Entries /\ e.over \in BOOLEAN /\ e.tokens \in Nat
    BY <1>2 DEF WindowOK, Entries
  <2>2. settled(e) = s /\ over \in BOOLEAN
    BY <2>1
  <2>3. ~over => ~e.over /\ tokens <= e.tokens
    BY <2>1
  <2> HIDE DEF over
  <2>4. s \in Entries /\ s.by = e.by /\ s.at = e.at /\ s.tokens = tokens /\ s.over = over
    BY <2>1, <2>2 DEF Entries
  <2> HIDE DEF s
  <2>5. h[e] = s \/ h[e] = e
    BY <2>2
  <2> HIDE DEF h
  <2>6. e.tokens <= e.tokens
    BY <2>1
  <2> QED BY <2>1, <2>3, <2>4, <2>5, <2>6
<1> HIDE DEF h
<1>3. V \subseteq Entries /\ IsFiniteSet(V)
  <2>1. [e \in W |-> h[e]] \in Surjection(W, V)
    BY DEF Surjection
  <2>2. V \subseteq Entries
    BY <1>2
  <2> HIDE DEF V
  <2> QED BY <2>1, <2>2, FS_Surjection DEF WindowOK
<1>4. \A e \in V : n - Window < e.at /\ e.at <= n
  BY <1>2 DEF WindowOK
<1>5. Fitting(V) = {h[e] : e \in S} /\ Others(Fitting(V)) = {h[e] : e \in O}
  BY <1>2 DEF Fitting, Others
<1>6. /\ S \in SUBSET Fitting(W) /\ O \in SUBSET Others(Fitting(W))
      /\ Fitting(W) \in SUBSET W /\ Others(Fitting(W)) \in SUBSET W
      /\ S \in SUBSET W /\ O \in SUBSET W
  BY <1>2 DEF Fitting, Others
<1>7. ASSUME NEW T \in SUBSET S
      PROVE  /\ Tokens({h[e] : e \in T}) \in Nat
             /\ Tokens({h[e] : e \in T}) <= Tokens(T)
  <2>1. Counted(T)
    BY <1>6, WindowCounted
  <2>2. \A e \in T : h[e].tokens \in Nat /\ h[e].tokens <= e.tokens
    BY <1>2
  <2>3. Counted({h[e] : e \in T}) /\ Tokens({h[e] : e \in T}) <= Tokens(T)
    BY <2>1, <2>2, TokensOfImage
  <2> QED BY <2>3, TokensType
<1>8. ASSUME NEW T \in SUBSET S, NEW B \in SUBSET W, T \in SUBSET B,
             NEW m \in Nat, Tokens(B) <= m
      PROVE  Tokens({h[e] : e \in T}) <= m
  <2>1. Counted(B) /\ Tokens(B) \in Nat /\ Tokens(T) \in Nat
    BY <1>6, <1>8, WindowCounted
  <2>2. Tokens(T) <= Tokens(B)
    BY <1>8, <2>1, TokensMonotone
  <2>3. Tokens({h[e] : e \in T}) \in Nat /\ Tokens({h[e] : e \in T}) <= Tokens(T)
    BY <1>7
  <2> QED BY <1>8, <2>1, <2>2, <2>3
<1>9. Tokens(Fitting(V)) <= Capacity
  BY <1>5, <1>6, <1>8, NumberFacts DEF WindowOK
<1>10. Tokens(Others(Fitting(V))) <= OthersShare
  <2>1. O \in SUBSET S
    OBVIOUS
  <2> QED BY <1>5, <1>6, <1>8, <2>1, ShareFacts DEF WindowOK
<1>11. WindowOK(V, n)
  BY <1>3, <1>4, <1>9, <1>10 DEF WindowOK
<1> HIDE DEF V
<1> QED BY <1>1, <1>11

\* The window forgets what is a window old.
LEMMA LiveOK ==
  ASSUME NEW W, NEW n \in Nat, WindowOK(W, n)
  PROVE  WindowOK(Live(W, n + 1), n + 1)
<1> DEFINE V == Live(W, n + 1)
<1>1. V \in SUBSET W /\ \A e \in V : e.at > (n + 1) - Window
  BY DEF Live
<1>2. V \subseteq Entries /\ IsFiniteSet(V)
  BY <1>1, FS_Subset DEF WindowOK
<1>3. \A e \in V : (n + 1) - Window < e.at /\ e.at <= n + 1
  <2>1. ASSUME NEW e \in V
        PROVE  (n + 1) - Window < e.at /\ e.at <= n + 1
    <3>1. e.at \in Nat /\ e.at <= n /\ e.at > (n + 1) - Window
      BY <1>1, <2>1 DEF WindowOK, Entries
    <3> QED BY <3>1, NumberFacts
  <2> QED BY <2>1
<1> HIDE DEF V
<1>4. /\ Fitting(V) \in SUBSET Fitting(W) /\ Fitting(W) \in SUBSET W
      /\ Others(Fitting(V)) \in SUBSET Others(Fitting(W))
      /\ Others(Fitting(W)) \in SUBSET W
      /\ Fitting(V) \in SUBSET W /\ Others(Fitting(V)) \in SUBSET W
  BY <1>1 DEF Fitting, Others
<1>5. /\ Tokens(Fitting(V)) \in Nat /\ Tokens(Fitting(W)) \in Nat
      /\ Tokens(Others(Fitting(V))) \in Nat /\ Tokens(Others(Fitting(W))) \in Nat
      /\ Counted(Fitting(W)) /\ Counted(Others(Fitting(W)))
  BY <1>4, WindowCounted
<1>6. /\ Tokens(Fitting(V)) <= Tokens(Fitting(W))
      /\ Tokens(Others(Fitting(V))) <= Tokens(Others(Fitting(W)))
  BY <1>4, <1>5, TokensMonotone
<1>7. Tokens(Fitting(V)) <= Capacity /\ Tokens(Others(Fitting(V))) <= OthersShare
  BY <1>5, <1>6, NumberFacts, ShareFacts DEF WindowOK
<1>8. WindowOK(V, n + 1)
  BY <1>2, <1>3, <1>7 DEF WindowOK
<1> QED BY <1>8 DEF V

---------------------------------------------------------------------------
(* The invariant is inductive *)

\* A council that waits stays sound when time passes.
LEMMA TickSound ==
  ASSUME NEW n \in Nat, NEW r, Sound(r, n),
         \/ r.pc \in {"done", "idle"}
         \/ r.pc \in {"pacing", "pause", "backoff", "call", "repair"} /\ n < r.wake
  PROVE  Sound(r, n + 1)
<1>1. /\ r \in Runs /\ r.wake \in Nat /\ r.pos \in Nat
      /\ r.pc \notin {"turn", "review", "acquire"}
  BY DEF Sound, Runs
<1>2. \A limit \in Int : Within(r, n, limit) => Within(r, n + 1, limit)
  BY <1>1 DEF Within
<1>3. r.deadline \in Int /\ r.deadline - Reserve \in Int
  BY <1>1, NumberFacts DEF Runs
<1>4. Timely(r, n + 1)
  BY <1>1, <1>2, <1>3 DEF Sound, Timely
<1>5. Kept(r, n + 1)
  <2>1. SUFFICES ASSUME Covered, r.pass = "retry", r.passed < r.deadline
                 PROVE  Kept(r, n + 1)
    BY DEF Kept
  <2>2. Kept(r, n)
    BY DEF Sound
  <2>3. Min(Protected) \in Nat
    BY <2>1, FirstProtected, PriorityFacts
  <2> QED BY <1>1, <1>2, <1>3, <2>1, <2>2, <2>3 DEF Kept
<1> QED BY <1>4, <1>5 DEF Sound

\* Initially no council has begun and the window is empty.
LEMMA InitSound == Init => IInv
<1> SUFFICES ASSUME Init PROVE IInv
  OBVIOUS
<1> DEFINE status == [a \in Agents |-> "none"]
           attempts == [a \in Agents |-> 0]
           none == 0
           one == 1
           r == [pc |-> "idle", pass |-> "initial", pos |-> one, tries |-> none,
                 waited |-> none, wake |-> none, deadline |-> none, passed |-> none,
                 status |-> status, failure |-> status, attempts |-> attempts]
<1>1. now = 0 /\ window = {} /\ run = [c \in Councils |-> r]
  BY DEF Init
<1>2. /\ status \in [Agents -> {"none", "failed", "completed"}]
      /\ status \in [Agents -> Transient \cup {"none"}]
      /\ attempts \in [Agents -> Nat]
      /\ none \in Nat /\ none \in 0 .. MaxWait /\ one \in Nat \ {0}
  BY NumberFacts
<1>3. \A a \in Agents : status[a] = "none" /\ attempts[a] = 0
  OBVIOUS
<1> HIDE DEF status, attempts, none, one
<1>4. r \in Runs
  BY <1>2 DEF Runs
<1>5. /\ r.pc = "idle" /\ r.pass = "initial" /\ r.pos = one /\ r.tries = none
      /\ r.status = status /\ r.failure = status /\ r.attempts = attempts
  OBVIOUS
<1> HIDE DEF r
<1>6. InitialPass(r)
  BY <1>3, <1>5, OrderFacts DEF InitialPass, Ahead, none, one
<1>7. Failures(r) /\ Timely(r, 0) /\ Kept(r, 0)
  BY <1>3, <1>5 DEF Failures, Timely, Within, Kept
<1>8. Sound(r, 0)
  BY <1>4, <1>5, <1>6, <1>7 DEF Sound
<1>9. WindowOK({}, 0)
  <2>1. Fitting({}) = {} /\ Others(Fitting({})) = {}
    BY DEF Fitting, Others
  <2>2. IsFiniteSet({})
    BY FS_EmptySet
  <2> QED BY <2>1, <2>2, TokensOfNone, ShareFacts, NumberFacts DEF WindowOK
<1> QED BY <1>1, <1>4, <1>8, <1>9 DEF IInv

\* A step of one council that keeps its record sound keeps those of the others.
LEMMA OneCouncil ==
  ASSUME IInv, NEW c \in Councils, NEW s, Sound(s, now), Set(c, s), UNCHANGED now,
         WindowOK(window', now)
  PROVE  IInv'
<1>1. /\ now \in Nat /\ run \in [Councils -> Runs]
      /\ \A d \in Councils : Sound(run[d], now)
  BY DEF IInv
<1>2. s \in Runs
  BY DEF Sound
<1>3. run' = [run EXCEPT ![c] = s]
  BY DEF Set
<1>4. run' \in [Councils -> Runs]
  BY <1>1, <1>2, <1>3
<1>5. \A d \in Councils : run'[d] = IF d = c THEN s ELSE run[d]
  BY <1>1, <1>3
<1>6. \A d \in Councils : Sound(run'[d], now)
  BY <1>1, <1>5
<1>7. now' = now
  OBVIOUS
<1>8. \A d \in Councils : Sound(run'[d], now')
  BY <1>6, <1>7
<1>9. WindowOK(window', now')
  BY <1>7
<1> QED BY <1>1, <1>4, <1>7, <1>8, <1>9 DEF IInv

\* What the invariant says of one council: its agent is that of its pass.
LEMMA CouncilFacts ==
  ASSUME IInv, NEW c \in Councils
  PROVE  /\ now \in Nat /\ Sound(run[c], now) /\ run[c] \in Runs /\ WindowOK(window, now)
         /\ run[c].pass = "initial" => Agent(c) = Order[run[c].pos]
         /\ run[c].pass = "retry" => Agent(c) = Priority[run[c].pos]
BY DEF IInv, Sound, Agent

\* One lemma per action of a council.
LEMMA BeginStep ==
  ASSUME IInv, NEW c \in Councils, Begin(c)
  PROVE  IInv'
<1>1. Sound([run[c] EXCEPT !.pc = "turn", !.deadline = now + Budget], now)
  BY CouncilFacts, BeginSound DEF Begin
<1>2. WindowOK(window', now)
  BY CouncilFacts DEF Begin
<1> QED BY <1>1, <1>2, OneCouncil DEF Begin

\* The agent skipped is the one at its turn in the initial pass.
LEMMA SkipStep ==
  ASSUME IInv, NEW c \in Councils, Skip(c)
  PROVE  IInv'
<1>1. run[c].pass = "initial"
  BY CouncilFacts, Passes DEF Skip, InTurn
<1>2. Agent(c) = Order[run[c].pos]
  BY <1>1, CouncilFacts
<1>3. Sound([run[c] EXCEPT !.status[Agent(c)] = "failed", !.pos = @ + 1], now)
  BY <1>2, CouncilFacts, SkipSound DEF Skip, InTurn
<1>4. WindowOK(window', now)
  BY CouncilFacts DEF Skip
<1> QED BY <1>3, <1>4, OneCouncil DEF Skip

\* So is the agent attempted.
LEMMA TurnStep ==
  ASSUME IInv, NEW c \in Councils, Turn(c)
  PROVE  IInv'
<1>1. run[c].pass = "initial"
  BY CouncilFacts, Passes DEF Turn, InTurn
<1>2. Agent(c) = Order[run[c].pos]
  BY <1>1, CouncilFacts
<1>3. Sound(Attempting(run[c], Agent(c)), now)
  BY <1>2, CouncilFacts, TurnSound DEF Turn, InTurn
<1>4. WindowOK(window', now)
  BY CouncilFacts DEF Turn
<1> QED BY <1>3, <1>4, OneCouncil DEF Turn

\* The retry pass begins where the initial pass ends.
LEMMA EndStep ==
  ASSUME IInv, NEW c \in Councils, EndInitialPass(c)
  PROVE  IInv'
<1>1. Sound([run[c] EXCEPT !.pc = "review", !.pass = "retry", !.pos = 1,
                           !.passed = now], now)
  BY CouncilFacts, EndSound DEF EndInitialPass
<1>2. WindowOK(window', now)
  BY CouncilFacts DEF EndInitialPass
<1> QED BY <1>1, <1>2, OneCouncil DEF EndInitialPass

\* The agent of a council within an attempt is one.
LEMMA AgentFacts ==
  ASSUME IInv, NEW c \in Councils, run[c].pc \in {"acquire", "call", "repair", "backoff"}
  PROVE  Agent(c) \in Agents /\ run[c].attempts[Agent(c)] \in Nat
<1>1. Sound(run[c], now) /\ run[c] \in Runs
  BY CouncilFacts
<1>2. Agent(c) \in Agents
  <2>1. CASE run[c].pass = "initial"
    BY <1>1, <2>1, CouncilFacts, OrderFacts DEF Sound, InitialPass, Runs
  <2>2. CASE run[c].pass = "retry"
    BY <1>1, <2>2, CouncilFacts, PriorityFacts DEF Sound, RetryPass, Runs
  <2> QED BY <1>1, <2>1, <2>2 DEF Runs
<1> QED BY <1>1, <1>2 DEF Runs

\* The pacer puts the request to sleep or leases it its tokens.
LEMMA AcquireStep ==
  ASSUME IInv, NEW c \in Councils, Acquire(c)
  PROVE  IInv'
<1> DEFINE a == Agent(c)
           b == (a = Chair)
           sleep == Sleep(window, Estimate[a], b, run[c].waited, now)
           waits == [run[c] EXCEPT !.pc = "pacing", !.wake = now + sleep,
                                   !.waited = @ + sleep]
           leases == [run[c] EXCEPT !.pc = "call", !.wake = now + MaxCall]
<1>1. /\ now \in Nat /\ Sound(run[c], now) /\ WindowOK(window, now)
      /\ run[c].pc = "acquire" /\ run[c].waited \in 0 .. MaxWait
      /\ a \in Agents /\ run[c].attempts[a] \in Nat
  BY CouncilFacts, AgentFacts DEF Acquire, Runs
<1>2. sleep \in Nat /\ run[c].waited + sleep <= MaxWait
  BY <1>1, SleepFacts
<1>3. CASE sleep > 0
  <2>1. Set(c, waits) /\ window' = window /\ now' = now
    BY <1>3 DEF Acquire, SharedWindow
  <2> HIDE DEF sleep
  <2>2. Sound(waits, now)
    BY <1>1, <1>2, WaitSound
  <2> HIDE DEF waits
  <2> QED BY <1>1, <2>1, <2>2, OneCouncil
<1>4. CASE ~(sleep > 0)
  <2> DEFINE x == [by |-> <<c, a, run[c].attempts[a]>>, at |-> now,
                   tokens |-> Estimate[a],
                   over |-> ~Fits(window, Estimate[a], b) \/ Estimate[a] > Effective(b)]
  <2>1. Set(c, leases) /\ window' = window \cup {x} /\ now' = now
    BY <1>4 DEF Acquire, SharedWindow
  <2>2. Sound(leases, now)
    BY <1>1, LeaseSound
  <2>3. WindowOK(window \cup {x}, now)
    <3> HIDE DEF a
    <3> QED BY <1>1, LeaseOK
  <2> HIDE DEF x, leases
  <2> QED BY <2>1, <2>2, <2>3, OneCouncil
<1> QED BY <1>3, <1>4

\* The repair keeps the lease.
LEMMA RepairStep ==
  ASSUME IInv, NEW c \in Councils, Repair(c)
  PROVE  IInv'
<1>1. Sound([run[c] EXCEPT !.pc = "repair", !.wake = now + MaxCall], now)
  BY CouncilFacts, RepairSound DEF Repair
<1>2. WindowOK(window', now)
  BY CouncilFacts DEF Repair
<1> QED BY <1>1, <1>2, OneCouncil DEF Repair

\* What is settled is a number of tokens.
LEMMA SpentFacts ==
  ASSUME NEW place, NEW outcome, NEW a \in Agents, NEW tokens \in Spent(place, outcome, a)
  PROVE  tokens \in Nat
<1>1. Estimate[a] \in Nat
  BY CouncilAssumption
<1>2. Usage(a) \subseteq Nat
  BY <1>1, NumberFacts DEF Usage
<1>3. Twice(a) \subseteq Nat
  BY <1>2 DEF Twice
<1> QED BY <1>1, <1>2, <1>3 DEF Spent

\* The answer settles the lease and ends the attempt.
LEMMA ReturnStep ==
  ASSUME IInv, NEW c \in Councils, Return(c)
  PROVE  IInv'
<1> DEFINE a == Agent(c)
<1>1. /\ now \in Nat /\ Sound(run[c], now) /\ WindowOK(window, now) /\ run[c] \in Runs
      /\ run[c].pc \in {"call", "repair"} /\ a \in Agents
  BY CouncilFacts, AgentFacts DEF Return
<1>2. PICK outcome \in Outcomes :
        /\ \E tokens \in Spent(run[c].pc, outcome, a) : Settle(c, tokens)
        /\ Set(c, IF run[c].pass = "initial" THEN AfterFirst(run[c], a, outcome)
                  ELSE AfterRetry(run[c], a, outcome))
  BY DEF Return, Outcomes, Failed
<1>3. PICK tokens \in Spent(run[c].pc, outcome, a) : Settle(c, tokens)
  BY <1>2
<1>4. tokens \in Nat
  BY <1>1, <1>3, SpentFacts
<1>5. WindowOK(window', now)
  <2> DEFINE key == <<c, a, run[c].attempts[a]>>
  <2>1. window' = Settled(window, key, tokens)
    BY <1>3 DEF Settle, Settled
  <2> HIDE DEF key
  <2>2. WindowOK(Settled(window, key, tokens), now)
    BY <1>1, <1>4, SettleOK
  <2> QED BY <2>1, <2>2
<1>6. UNCHANGED now
  BY DEF Return
<1>7. CASE run[c].pass = "initial"
  <2>1. Sound(AfterFirst(run[c], a, outcome), now)
    BY <1>1, <1>7, CouncilFacts, FirstAnswerSound
  <2>2. Set(c, AfterFirst(run[c], a, outcome))
    BY <1>2, <1>7
  <2> QED BY <1>5, <1>6, <2>1, <2>2, OneCouncil
<1>8. CASE run[c].pass = "retry"
  <2>1. Sound(AfterRetry(run[c], a, outcome), now)
    BY <1>1, <1>8, CouncilFacts, RetryAnswerSound
  <2>2. Set(c, AfterRetry(run[c], a, outcome))
    BY <1>2, <1>8
  <2> QED BY <1>5, <1>6, <2>1, <2>2, OneCouncil
<1> QED BY <1>1, <1>7, <1>8 DEF Runs

\* The head of the retry loop moves on, or backs off before a retry.
LEMMA ReviewStep ==
  ASSUME IInv, NEW c \in Councils, Review(c)
  PROVE  IInv'
<1> DEFINE r == run[c]
           a == Agent(c)
           remaining == RetryDeadline(c, a) - now
<1>1. /\ now \in Nat /\ Sound(r, now) /\ r \in Runs /\ r.pc = "review" /\ r.pos \in Nat
      /\ r.pass = "retry" /\ a = Priority[r.pos] /\ WindowOK(window, now)
  <2>1. now \in Nat /\ Sound(r, now) /\ r \in Runs /\ WindowOK(window, now)
    BY CouncilFacts
  <2>2. r.pc = "review"
    BY DEF Review
  <2>3. r.pass = "retry" /\ r.pos \in Nat
    BY <2>1, <2>2, Passes DEF Runs
  <2> QED BY <2>1, <2>2, <2>3, CouncilFacts
<1>2. UNCHANGED <<now, window>>
  BY DEF Review
<1>3. CASE r.pos > Len(Priority)
  <2>1. Set(c, [r EXCEPT !.pc = "done"])
    BY <1>3 DEF Review
  <2>2. Sound([r EXCEPT !.pc = "done"], now)
    BY <1>1, <1>3, DoneSound
  <2> QED BY <1>1, <1>2, <2>1, <2>2, OneCouncil
<1>4. CASE ~(r.pos > Len(Priority))
  <2>1. r.pos <= Len(Priority) /\ a \in Agents
    BY <1>1, <1>4, PriorityFacts DEF Runs
  <2>2. RetryDeadline(c, a) = Until(r, a)
    BY DEF RetryDeadline, Until
  <2>3. Until(r, a) \in Int /\ r.tries \in Nat /\ MaxTries(a) \in Nat
    BY <1>1, NumberFacts DEF Until, Runs
  <2>4. CASE (r.tries = 0 /\ ~NeedsRetry(c, a)) \/ TriedOut(c, a) \/ remaining <= 0
    <3>1. Set(c, Advance(r))
      BY <1>4, <2>4 DEF Review
    <3>2. Sound(Advance(r), now)
      BY <1>1, <2>1, <2>2, <2>4, NoRetrySound DEF NeedsRetry, TriedOut
    <3> QED BY <1>1, <1>2, <3>1, <3>2, OneCouncil
  <2>5. CASE ~((r.tries = 0 /\ ~NeedsRetry(c, a)) \/ TriedOut(c, a) \/ remaining <= 0)
    <3>1. PICK wait \in (IF r.failure[a] = "rate_limited" THEN 0 ELSE 1) .. MaxBackoff :
            LET sleep == RetryWait(wait, remaining) IN
            Set(c, IF sleep = 0 THEN Advance(r)
                   ELSE [r EXCEPT !.pc = "backoff", !.tries = @ + 1,
                                  !.wake = now + sleep])
      BY <1>4, <2>5 DEF Review
    <3> DEFINE sleep == RetryWait(wait, remaining)
    <3>2. /\ wait \in Nat /\ (wait = 0 => r.failure[a] = "rate_limited")
      BY <3>1, NumberFacts
    <3>3. remaining \in Nat /\ remaining > 0 /\ remaining = Until(r, a) - now
      BY <1>1, <2>2, <2>3, <2>5
    <3> HIDE DEF remaining
    <3>4. /\ sleep \in Nat /\ sleep <= remaining
          /\ sleep = 0 => r.failure[a] = "rate_limited"
      BY <3>2, <3>3 DEF RetryWait, Lesser
    <3>5. CASE sleep = 0
      <4>1. Set(c, Advance(r))
        BY <3>1, <3>5
      <4>2. Sound(Advance(r), now)
        BY <1>1, <2>1, <3>4, <3>5, NoRetrySound
      <4> QED BY <1>1, <1>2, <4>1, <4>2, OneCouncil
    <3>6. CASE sleep # 0
      <4> DEFINE s == [r EXCEPT !.pc = "backoff", !.tries = @ + 1, !.wake = now + sleep]
      <4>1. Set(c, s)
        BY <3>1, <3>6
      <4>2. /\ r.tries = 0 => r.failure[Priority[r.pos]] # "none"
            /\ r.tries < MaxTries(Priority[r.pos])
        BY <1>1, <2>3, <2>5 DEF NeedsRetry, TriedOut
      <4> HIDE DEF sleep
      <4>3. sleep <= Until(r, Priority[r.pos]) - now
        BY <1>1, <3>3, <3>4
      <4>4. Sound(s, now)
        BY <1>1, <2>1, <3>4, <4>2, <4>3, BackoffSound
      <4> HIDE DEF s
      <4> QED BY <1>1, <1>2, <4>1, <4>4, OneCouncil
    <3> QED BY <3>5, <3>6
  <2> QED BY <2>4, <2>5
<1> QED BY <1>3, <1>4

\* A sleep that is over.
LEMMA WakeStep ==
  ASSUME IInv, NEW c \in Councils, Wake(c)
  PROVE  IInv'
<1> DEFINE r == run[c]
<1>1. /\ now \in Nat /\ Sound(r, now) /\ WindowOK(window, now)
      /\ r.pc \in {"pacing", "pause", "backoff"} /\ now = r.wake
  BY CouncilFacts DEF Wake
<1>2. UNCHANGED <<now, window>>
  BY DEF Wake
<1>3. CASE r.pc = "pacing"
  <2>1. Set(c, [r EXCEPT !.pc = "acquire", !.wake = 0])
    BY <1>3 DEF Wake
  <2>2. Sound([r EXCEPT !.pc = "acquire", !.wake = 0], now)
    BY <1>1, <1>3, PacedSound
  <2> QED BY <1>1, <1>2, <2>1, <2>2, OneCouncil
<1>4. CASE r.pc = "pause"
  <2>1. Set(c, Advance(r))
    BY <1>4 DEF Wake
  <2>2. Sound(Advance(r), now)
    BY <1>1, <1>4, PauseSound
  <2> QED BY <1>1, <1>2, <2>1, <2>2, OneCouncil
<1>5. CASE r.pc = "backoff"
  <2>1. Set(c, Attempting(r, Agent(c)))
    BY <1>5 DEF Wake
  <2>2. Agent(c) = Priority[r.pos]
    BY <1>1, <1>5, Passes, CouncilFacts
  <2>3. Sound(Attempting(r, Agent(c)), now)
    BY <1>1, <1>5, <2>2, RetrySound
  <2> QED BY <1>1, <1>2, <2>1, <2>3, OneCouncil
<1> QED BY <1>1, <1>3, <1>4, <1>5

\* Time passes only when every council waits for it.
LEMMA TickStep ==
  ASSUME IInv, Tick
  PROVE  IInv'
<1>1. /\ now \in Nat /\ run \in [Councils -> Runs] /\ WindowOK(window, now)
      /\ \A c \in Councils : Sound(run[c], now)
  BY DEF IInv
<1>2. /\ now' = now + 1 /\ window' = Live(window, now + 1) /\ run' = run
      /\ \A c \in Councils : MayWait(c)
  BY DEF Tick
<1>3. \A c \in Councils : Sound(run[c], now + 1)
  BY <1>1, <1>2, TickSound DEF MayWait
<1>4. WindowOK(Live(window, now + 1), now + 1)
  BY <1>1, LiveOK
<1>5. now + 1 \in Nat
  BY <1>1
<1> QED BY <1>1, <1>2, <1>3, <1>4, <1>5 DEF IInv

\* Every step of the system preserves the invariant.
LEMMA Inductive == IInv /\ [Next]_vars => IInv'
<1> SUFFICES ASSUME IInv, [Next]_vars PROVE IInv'
  OBVIOUS
<1>1. ASSUME NEW c \in Councils,
             \/ Begin(c) \/ Skip(c) \/ Turn(c) \/ EndInitialPass(c) \/ Acquire(c)
             \/ Repair(c) \/ Return(c) \/ Review(c) \/ Wake(c)
      PROVE  IInv'
  BY <1>1, BeginStep, SkipStep, TurnStep, EndStep, AcquireStep, RepairStep, ReturnStep,
     ReviewStep, WakeStep
<1>2. ASSUME Tick PROVE IInv'
  BY <1>2, TickStep
<1>3. ASSUME UNCHANGED vars PROVE IInv'
  <2>1. now' = now /\ window' = window /\ run' = run
    BY <1>3 DEF vars
  <2> QED BY <2>1 DEF IInv
<1>4. ASSUME Finished PROVE UNCHANGED vars
  BY <1>4 DEF Finished
<1> QED BY <1>1, <1>2, <1>3, <1>4 DEF Next

(* Every reachable state satisfies the invariant. *)
THEOREM CouncilInvariant == Spec => []IInv
BY InitSound, Inductive, PTL DEF Spec

---------------------------------------------------------------------------
(* What the invariant gives *)

\* The failures of a behaviour are bounded
Bounded ==
  faults \in [Councils -> Nat] /\ \A c \in Councils : faults[c] <= MaxFaults[c]

\* Every failed attempt and every repair is counted.
LEMMA FaultsBounded == Spec => []Bounded
<1>1. Init => Bounded
  BY CouncilAssumption DEF Init, Bounded
<1>2. Bounded /\ [Next]_vars => Bounded'
  <2> SUFFICES ASSUME Bounded, [Next]_vars PROVE Bounded'
    OBVIOUS
  <2>1. faults' = faults \/ \E c \in Councils : Fault(c)
    BY DEF Next, Begin, Skip, Turn, EndInitialPass, Acquire, Repair, Return, Review, Wake,
           Tick, Finished, vars
  <2>2. MaxFaults \in [Councils -> Nat]
    BY CouncilAssumption
  <2> QED BY <2>1, <2>2 DEF Fault, Bounded
<1> QED BY <1>1, <1>2, PTL DEF Spec

(* TypeOK: what a council holds stays well formed, and no agent is          *)
(* attempted more than once and its retries, whatever fails and however the *)
(* waits fall                                                                *)
THEOREM CouncilTypes == Spec => []TypeOK
<1>1. IInv /\ Bounded => TypeOK
  <2> SUFFICES ASSUME IInv, Bounded PROVE TypeOK
    OBVIOUS
  <2>1. now \in Nat /\ window \subseteq Entries /\ run \in [Councils -> Runs]
    BY DEF IInv, WindowOK
  <2>2. ASSUME NEW c \in Councils, NEW a \in Agents
        PROVE  run[c].attempts[a] <= 1 + MaxTries(a)
    <3>1. Sound(run[c], now) /\ run[c] \in Runs
      BY CouncilFacts
    <3>2. CASE run[c].pass = "initial"
      <4>1. run[c].attempts[a] <= 1 /\ run[c].attempts[a] \in Nat /\ MaxTries(a) \in Nat
        BY <3>1, <3>2, NumberFacts DEF Sound, InitialPass, Runs
      <4> QED BY <4>1
    <3>3. CASE run[c].pass = "retry"
      BY <3>1, <3>3 DEF Sound, RetryPass
    <3> QED BY <3>1, <3>2, <3>3 DEF Runs
  <2> QED BY <2>1, <2>2 DEF TypeOK, Bounded
<1> QED BY <1>1, CouncilInvariant, FaultsBounded, PTL

(* WithinTheWorstCase: a council that has begun is over, at the latest, one *)
(* full pacing wait and two requests after its deadline                      *)
THEOREM CouncilInTime == Spec => []WithinTheWorstCase
<1>1. IInv => WithinTheWorstCase
  <2> SUFFICES ASSUME IInv, NEW c \in Councils, run[c].pc \notin {"idle", "done"}
               PROVE  now <= run[c].deadline + MaxWait + 2 * MaxCall
    BY DEF WithinTheWorstCase
  <2>1. Sound(run[c], now) /\ run[c] \in Runs /\ now \in Nat
    BY CouncilFacts
  <2>2. Timely(run[c], now)
    BY <2>1 DEF Sound
  <2> QED BY <2>1, <2>2, NumberFacts DEF Timely, Within, Runs
<1> QED BY <1>1, CouncilInvariant, PTL

(* ReserveKeepsARetry: a reserve longer than a full pacing wait and the two *)
(* requests of an attempt buys the first protected agent its retry           *)
THEOREM CouncilReserve == Spec => []ReserveKeepsARetry
<1>1. IInv => ReserveKeepsARetry
  <2> SUFFICES ASSUME IInv, Covered, NEW c \in Councils, run[c].pc = "done",
                      run[c].passed < run[c].deadline,
                      run[c].failure[Priority[Min(Protected)]] = "server_error"
               PROVE  run[c].attempts[Priority[Min(Protected)]] > 1
    BY DEF ReserveKeepsARetry, Covered, Protected
  <2>1. Sound(run[c], now) /\ run[c] \in Runs /\ run[c].pass = "retry"
    BY CouncilFacts, Passes
  <2>2. run[c].pos > Len(Priority) /\ run[c].pos \in Nat
    BY <2>1 DEF Sound, RetryPass, Runs
  <2>3. run[c].pos > Min(Protected)
    BY <2>2, FirstProtected, PriorityFacts
  <2> QED BY <2>1, <2>3 DEF Sound, Kept
<1> QED BY <1>1, CouncilInvariant, PTL

(* NoBurst: whatever the councils of the process do at once, a window whose *)
(* entries all fitted holds the deployment's capacity                        *)
THEOREM CouncilsDoNotBurst == Spec => []NoBurst
<1>1. IInv => NoBurst
  <2> SUFFICES ASSUME IInv, \A e \in window : ~e.over
               PROVE  /\ Tokens(window) <= Capacity
                      /\ Tokens({e \in window : e.by[2] # Chair}) <= Effective(FALSE)
    BY DEF NoBurst
  <2>1. Fitting(window) = window /\ Others(window) = {e \in window : e.by[2] # Chair}
    BY DEF Fitting, Others
  <2>2. WindowOK(window, now)
    BY DEF IInv
  <2> QED BY <2>1, <2>2 DEF WindowOK, OthersShare
<1> QED BY <1>1, CouncilInvariant, PTL

\* What a completed output is owed by a step from r to s
Keeps(r, s) ==
  \A a \in Agents :
    r.status[a] = "completed" => s.status[a] = "completed" /\ s.attempts[a] = r.attempts[a]

\* The end of an agent's turn takes no output away.
LEMMA AdvanceKeeps ==
  ASSUME NEW r \in Runs
  PROVE  Keeps(r, Advance(r))
BY AdvanceIs DEF Keeps

\* Nor does an attempt of an agent without one.
LEMMA AttemptKeeps ==
  ASSUME NEW r \in Runs, NEW a \in Agents, r.status[a] # "completed"
  PROVE  Keeps(r, Attempting(r, a))
<1>1. /\ Attempting(r, a).status = r.status
      /\ Attempting(r, a).attempts = [r.attempts EXCEPT ![a] = @ + 1]
  BY AttemptingIs
<1> QED BY <1>1 DEF Keeps, Runs

\* Neither the output of an agent without one nor the end of its turn loses another.
LEMMA OutputKeeps ==
  ASSUME NEW r \in Runs, NEW a \in Agents, r.status[a] # "completed",
         NEW x \in Statuses, NEW y \in Causes
  PROVE  Keeps(r, Output(r, a, x, y)) /\ Keeps(r, Advance(Output(r, a, x, y)))
<1> DEFINE status == [r.status EXCEPT ![a] = x]
           failure == [r.failure EXCEPT ![a] = y]
           d == [r EXCEPT !.status = status, !.failure = failure]
<1>1. Output(r, a, x, y) = d /\ Output(r, a, x, y) \in Runs
  BY OutputIs DEF Output
<1>2. \A b \in Agents : r.status[b] = "completed" => status[b] = "completed"
  BY DEF Runs
<1> HIDE DEF status, failure
<1>3. d.status = status /\ d.attempts = r.attempts
  BY DEF Runs
<1> HIDE DEF d
<1>4. Keeps(r, d)
  BY <1>2, <1>3 DEF Keeps
<1>5. Advance(d).status = d.status /\ Advance(d).attempts = d.attempts
  BY <1>1, AdvanceIs
<1>6. Keeps(r, Advance(d))
  BY <1>2, <1>3, <1>5 DEF Keeps
<1> QED BY <1>1, <1>4, <1>6

\* Nor does an answer in the initial pass.
LEMMA FirstAnswerKeeps ==
  ASSUME NEW r \in Runs, NEW a \in Agents, r.status[a] # "completed",
         NEW outcome \in Outcomes
  PROVE  Keeps(r, AfterFirst(r, a, outcome))
<1> DEFINE x == Verdict(outcome)
           y == IF outcome \in Transient THEN outcome ELSE "none"
           d == Output(r, a, x, y)
           wake == now + Pause
           s == [d EXCEPT !.pc = "pause", !.wake = wake]
<1>1. x \in Statuses /\ y \in Causes
  BY DEF Verdict, Statuses, Causes
<1>2. AfterFirst(r, a, outcome) = s \/ AfterFirst(r, a, outcome) = Advance(d)
  BY DEF AfterFirst, Verdict, Output
<1> HIDE DEF x, y, wake
<1>3. d \in Runs /\ Keeps(r, d) /\ Keeps(r, Advance(d))
  BY <1>1, OutputIs, OutputKeeps
<1> HIDE DEF d
<1>4. s.status = d.status /\ s.attempts = d.attempts
  BY <1>3 DEF Runs
<1>5. Keeps(r, s)
  BY <1>3, <1>4 DEF Keeps
<1> HIDE DEF s
<1> QED BY <1>2, <1>3, <1>5

\* Nor does an answer to a retry.
LEMMA RetryAnswerKeeps ==
  ASSUME NEW r \in Runs, NEW a \in Agents, r.status[a] # "completed",
         NEW outcome \in Outcomes
  PROVE  Keeps(r, AfterRetry(r, a, outcome))
<1>1. CASE outcome \in {"completed", "quarantined"}
  <2> DEFINE x == Verdict(outcome)
             none == "none"
  <2>1. AfterRetry(r, a, outcome) = Advance(Output(r, a, x, none))
    BY <1>1 DEF AfterRetry, Verdict, Output
  <2>2. x \in Statuses /\ none \in Causes
    BY DEF Verdict, Statuses, Causes
  <2> HIDE DEF x, none
  <2> QED BY <2>1, <2>2, OutputKeeps
<1>2. CASE outcome = "permanent"
  <2>1. AfterRetry(r, a, outcome) = Advance(r)
    BY <1>2 DEF AfterRetry
  <2> QED BY <2>1, AdvanceKeeps
<1>3. CASE outcome \in Transient
  <2> DEFINE failure == [r.failure EXCEPT ![a] = outcome]
             s == [r EXCEPT !.pc = "review", !.failure = failure, !.waited = 0, !.wake = 0]
  <2>1. AfterRetry(r, a, outcome) = s
    BY <1>3 DEF AfterRetry, Transient
  <2> HIDE DEF failure
  <2>2. s.status = r.status /\ s.attempts = r.attempts
    BY DEF Runs
  <2> HIDE DEF s
  <2> QED BY <2>1, <2>2 DEF Keeps
<1> QED BY <1>1, <1>2, <1>3 DEF Outcomes

\* Within an attempt, the agent has no completed output.
LEMMA Unfinished ==
  ASSUME NEW n, NEW r, Sound(r, n)
  PROVE  /\ r.pass = "initial" /\ r.pc \in {"turn", "acquire", "pacing", "call", "repair"}
            /\ r.pos <= Len(Order) => r.status[Order[r.pos]] # "completed"
         /\ r.pass = "retry" /\ r.pc \in {"acquire", "pacing", "call", "repair", "backoff"} =>
              r.status[Priority[r.pos]] # "completed"
<1>1. r \in Runs
  BY DEF Sound
<1>2. r.pc = "turn" /\ r.pos <= Len(Order) => r.pos \in Ahead(r)
  BY <1>1, OrderFacts DEF Ahead, Runs
<1> QED BY <1>1, <1>2 DEF Sound, InitialPass, RetryPass

(* CompletedStays: an agent that has answered is never attempted again, and *)
(* no retry, failure or deadline takes its output away                       *)
THEOREM CouncilKeepsAnswers == Spec => CompletedStays
<1>1. ASSUME NEW c \in Councils, NEW s, Set(c, s), Keeps(run[c], s), IInv
      PROVE  \A d \in Councils : Keeps(run[d], run'[d])
  <2>1. run' = [run EXCEPT ![c] = s] /\ run \in [Councils -> Runs]
    BY <1>1 DEF Set, IInv
  <2>2. \A d \in Councils : run'[d] = IF d = c THEN s ELSE run[d]
    BY <2>1
  <2>3. \A d \in Councils : Keeps(run[d], run[d])
    BY DEF Keeps
  <2> QED BY <1>1, <2>2, <2>3
<1>2. ASSUME IInv, NEW c \in Councils,
             \/ Begin(c) \/ Skip(c) \/ Turn(c) \/ EndInitialPass(c) \/ Acquire(c)
             \/ Repair(c) \/ Return(c) \/ Review(c) \/ Wake(c)
      PROVE  \A d \in Councils : Keeps(run[d], run'[d])
  <2> DEFINE r == run[c]
             a == Agent(c)
  <2>1. Sound(r, now) /\ r \in Runs /\ now \in Nat
    BY <1>2, CouncilFacts
  <2>2. ASSUME NEW s, Set(c, s), s.status = r.status, s.attempts = r.attempts
        PROVE  \A d \in Councils : Keeps(run[d], run'[d])
    <3>1. Keeps(r, s)
      BY <2>2 DEF Keeps
    <3> QED BY <1>1, <1>2, <2>2, <3>1
  <2>3. CASE Begin(c)
    <3> DEFINE s == [r EXCEPT !.pc = "turn", !.deadline = now + Budget]
    <3>1. Set(c, s)
      BY <2>3 DEF Begin
    <3>2. s.status = r.status /\ s.attempts = r.attempts
      BY <2>1 DEF Runs
    <3> HIDE DEF s
    <3> QED BY <2>2, <3>1, <3>2
  <2>4. CASE Skip(c)
    <3>1. r.pc = "turn" /\ r.pos <= Len(Order) /\ r.pass = "initial"
      BY <2>1, <2>4, Passes DEF Skip, InTurn
    <3>2. a = Order[r.pos] /\ a \in Agents /\ r.status[a] # "completed"
      <4>1. a = Order[r.pos]
        BY <1>2, <3>1, CouncilFacts
      <4>2. r.pos \in DOMAIN Order
        BY <2>1, <3>1, OrderFacts DEF Runs
      <4> QED BY <2>1, <3>1, <4>1, <4>2, OrderFacts, Unfinished
    <3> DEFINE status == [r.status EXCEPT ![a] = "failed"]
               next == r.pos + 1
               s == [r EXCEPT !.status = status, !.pos = next]
    <3>3. Set(c, s)
      BY <2>4 DEF Skip
    <3>4. \A b \in Agents : r.status[b] = "completed" => status[b] = "completed"
      BY <2>1, <3>2 DEF Runs
    <3> HIDE DEF status, next
    <3>5. s.status = status /\ s.attempts = r.attempts
      BY <2>1 DEF Runs
    <3> HIDE DEF s
    <3>6. Keeps(r, s)
      BY <3>4, <3>5 DEF Keeps
    <3> QED BY <1>1, <1>2, <3>3, <3>6
  <2>5. CASE Turn(c)
    <3>1. r.pc = "turn" /\ r.pos <= Len(Order) /\ r.pass = "initial"
      BY <2>1, <2>5, Passes DEF Turn, InTurn
    <3>2. a \in Agents /\ r.status[a] # "completed"
      <4>1. a = Order[r.pos]
        BY <1>2, <3>1, CouncilFacts
      <4>2. r.pos \in DOMAIN Order
        BY <2>1, <3>1, OrderFacts DEF Runs
      <4> QED BY <2>1, <3>1, <4>1, <4>2, OrderFacts, Unfinished
    <3>3. Keeps(r, Attempting(r, a))
      BY <2>1, <3>2, AttemptKeeps
    <3>4. Set(c, Attempting(r, a))
      BY <2>5 DEF Turn
    <3> QED BY <1>1, <1>2, <3>3, <3>4
  <2>6. CASE EndInitialPass(c)
    <3> DEFINE one == 1
               s == [r EXCEPT !.pc = "review", !.pass = "retry", !.pos = one,
                              !.passed = now]
    <3>1. Set(c, s)
      BY <2>6 DEF EndInitialPass
    <3>2. s.status = r.status /\ s.attempts = r.attempts
      BY <2>1 DEF Runs
    <3> HIDE DEF s
    <3> QED BY <2>2, <3>1, <3>2
  <2>7. CASE Acquire(c)
    <3> DEFINE sleep == Sleep(SharedWindow(c), Estimate[a], a = Chair, r.waited, now)
               wake == now + sleep
               waited == r.waited + sleep
               later == now + MaxCall
               s == [r EXCEPT !.pc = "pacing", !.wake = wake, !.waited = waited]
               t == [r EXCEPT !.pc = "call", !.wake = later]
    <3>1. Set(c, s) \/ Set(c, t)
      BY <2>7 DEF Acquire
    <3> HIDE DEF wake, waited, later
    <3>2. s.status = r.status /\ s.attempts = r.attempts
      BY <2>1 DEF Runs
    <3>3. t.status = r.status /\ t.attempts = r.attempts
      BY <2>1 DEF Runs
    <3> HIDE DEF s, t
    <3> QED BY <2>2, <3>1, <3>2, <3>3
  <2>8. CASE Return(c)
    <3>1. r.pc \in {"call", "repair"} /\ a \in Agents
      BY <1>2, <2>8, AgentFacts DEF Return
    <3>2. PICK outcome \in Outcomes :
            Set(c, IF r.pass = "initial" THEN AfterFirst(r, a, outcome)
                   ELSE AfterRetry(r, a, outcome))
      BY <2>8 DEF Return, Outcomes, Failed
    <3>3. r.pass = "initial" \/ r.pass = "retry"
      BY <2>1 DEF Runs
    <3>4. r.status[a] # "completed"
      <4>1. r.pass = "initial" => r.pos <= Len(Order)
        BY <2>1, <3>1 DEF Sound, InitialPass
      <4> QED BY <1>2, <2>1, <3>1, <3>3, <4>1, CouncilFacts, Unfinished
    <3>5. Keeps(r, AfterFirst(r, a, outcome)) /\ Keeps(r, AfterRetry(r, a, outcome))
      BY <2>1, <3>1, <3>4, FirstAnswerKeeps, RetryAnswerKeeps
    <3>6. Set(c, AfterFirst(r, a, outcome)) \/ Set(c, AfterRetry(r, a, outcome))
      BY <3>2
    <3> QED BY <1>1, <1>2, <3>5, <3>6
  <2>9. CASE Review(c)
    <3>1. \/ Set(c, [r EXCEPT !.pc = "done"])
          \/ Set(c, Advance(r))
          \/ \E sleep : Set(c, [r EXCEPT !.pc = "backoff", !.tries = @ + 1,
                                         !.wake = now + sleep])
      BY <2>9 DEF Review
    <3>2. CASE Set(c, [r EXCEPT !.pc = "done"])
      <4> DEFINE s == [r EXCEPT !.pc = "done"]
      <4>1. s.status = r.status /\ s.attempts = r.attempts
        BY <2>1 DEF Runs
      <4> HIDE DEF s
      <4>2. Set(c, s)
        BY <3>2 DEF s
      <4> QED BY <2>2, <4>1, <4>2
    <3>3. CASE Set(c, Advance(r))
      BY <1>1, <1>2, <2>1, <3>3, AdvanceKeeps
    <3>4. CASE \E sleep : Set(c, [r EXCEPT !.pc = "backoff", !.tries = @ + 1,
                                           !.wake = now + sleep])
      <4>1. PICK sleep : Set(c, [r EXCEPT !.pc = "backoff", !.tries = @ + 1,
                                          !.wake = now + sleep])
        BY <3>4
      <4> DEFINE tries == r.tries + 1
                 wake == now + sleep
                 s == [r EXCEPT !.pc = "backoff", !.tries = tries, !.wake = wake]
      <4>2. Set(c, s)
        BY <4>1
      <4> HIDE DEF tries, wake
      <4>3. s.status = r.status /\ s.attempts = r.attempts
        BY <2>1 DEF Runs
      <4> HIDE DEF s
      <4> QED BY <2>2, <4>2, <4>3
    <3> QED BY <3>1, <3>2, <3>3, <3>4
  <2>10. CASE Wake(c)
    <3>1. CASE r.pc = "pacing"
      <4> DEFINE s == [r EXCEPT !.pc = "acquire", !.wake = 0]
      <4>1. Set(c, s)
        BY <2>10, <3>1 DEF Wake
      <4>2. s.status = r.status /\ s.attempts = r.attempts
        BY <2>1 DEF Runs
      <4> HIDE DEF s
      <4> QED BY <2>2, <4>1, <4>2
    <3>2. CASE r.pc = "pause"
      <4>1. Set(c, Advance(r))
        BY <2>10, <3>2 DEF Wake
      <4> QED BY <1>1, <1>2, <2>1, <4>1, AdvanceKeeps
    <3>3. CASE r.pc = "backoff"
      <4>1. Set(c, Attempting(r, a))
        BY <2>10, <3>3 DEF Wake
      <4>2. r.pass = "retry" /\ a = Priority[r.pos] /\ a \in Agents
        BY <1>2, <2>1, <3>3, Passes, CouncilFacts, AgentFacts
      <4>3. Keeps(r, Attempting(r, a))
        BY <2>1, <3>3, <4>2, Unfinished, AttemptKeeps
      <4> QED BY <1>1, <1>2, <4>1, <4>3
    <3> QED BY <2>10, <3>1, <3>2, <3>3 DEF Wake
  <2>11. CASE Repair(c)
    <3> DEFINE wake == now + MaxCall
               s == [r EXCEPT !.pc = "repair", !.wake = wake]
    <3>1. Set(c, s)
      BY <2>11 DEF Repair
    <3> HIDE DEF wake
    <3>2. s.status = r.status /\ s.attempts = r.attempts
      BY <2>1 DEF Runs
    <3> HIDE DEF s
    <3> QED BY <2>2, <3>1, <3>2
  <2> QED BY <1>2, <2>3, <2>4, <2>5, <2>6, <2>7, <2>8, <2>9, <2>10, <2>11
<1>3. ASSUME run' = run
      PROVE  \A d \in Councils : Keeps(run[d], run'[d])
  BY <1>3 DEF Keeps
<1>4. IInv /\ [Next]_vars =>
        [\A c \in Councils, a \in Agents :
           run[c].status[a] = "completed" =>
             run'[c].status[a] = "completed" /\ run'[c].attempts[a] = run[c].attempts[a]]_vars
  <2>1. ASSUME IInv, [Next]_vars
        PROVE  \A d \in Councils : Keeps(run[d], run'[d])
    BY <1>2, <1>3, <2>1 DEF Next, Tick, Finished, vars
  <2> QED BY <2>1 DEF Keeps
<1> QED BY <1>4, CouncilInvariant, PTL DEF Spec, CompletedStays
=============================================================================
