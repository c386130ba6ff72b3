--------------------------- MODULE WebFetchProofs ---------------------------
(***************************************************************************)
(* For every set of fetches and calls and every size of the limiter and of *)
(* the pool: permits are never leaked, requests keep the pace of their     *)
(* domain and no parse outlives its call.  With one extraction worker, the *)
(* default, no call is cut short by another and every parse runs on a      *)
(* warmed executor within its quota.                                       *)
(***************************************************************************)
EXTENDS WebFetch, FiniteSetTheorems, TLAPS

---------------------------------------------------------------------------
(* The pool *)

PoolPlaces == {"new", "gate", "warming", "running", "reaping", "over"}

PoolTypeOK ==
  /\ free \in Int /\ executors \in Nat /\ current \in Nat /\ runs \in Nat
  /\ parsing \subseteq Calls /\ deaths \in Nat
  /\ place \in [Calls -> PoolPlaces]
  /\ uses \in [Calls -> Nat]

PoolInv == PoolTypeOK /\ GateAccounted /\ NoParseOutlivesItsCall

InsidePlaces == {"warming", "running", "reaping"}

\* A move of one call takes it in, out, or neither.
LEMMA InsideAfterAMove ==
  ASSUME PoolTypeOK, NEW c \in Calls, NEW p \in PoolPlaces, Move(c, p)
  PROVE  /\ Cardinality(Inside) \in Nat
         /\ Cardinality(Inside)' =
              IF c \in Inside /\ p \notin InsidePlaces THEN Cardinality(Inside) - 1
              ELSE IF c \notin Inside /\ p \in InsidePlaces THEN Cardinality(Inside) + 1
              ELSE Cardinality(Inside)
<1>1. IsFiniteSet(Inside)
  BY PoolAssumption, FS_Subset DEF Inside
<1>2. Cardinality(Inside) \in Nat
  BY <1>1, FS_CardinalityType
<1>3. Inside' = IF p \in InsidePlaces THEN Inside \cup {c} ELSE Inside \ {c}
  BY DEF Inside, InsidePlaces, PoolTypeOK, Move
<1>4. CASE p \in InsidePlaces
  BY <1>1, <1>2, <1>3, <1>4, FS_AddElement
<1>5. CASE p \notin InsidePlaces
  BY <1>1, <1>2, <1>3, <1>5, FS_RemoveElement
<1>. QED
  BY <1>2, <1>4, <1>5

LEMMA CallKeepsType ==
  ASSUME PoolInv, NEW c \in Calls, CallStep(c) \/ CancelCall(c)
  PROVE  PoolTypeOK'
  BY DEF PoolInv, PoolTypeOK, PoolPlaces, CallStep, Call, TakeInstalled, TakeFresh, Warmed,
         WarmUpFails, Parsed, Timeout, Broken, Reaped, CancelCall, GivesBack, Drop, Kill, Move, On

\* What a step does to the gate is what its call does to it.
LEMMA CallKeepsTheGate ==
  ASSUME PoolInv, NEW c \in Calls, CallStep(c) \/ CancelCall(c)
  PROVE  GateAccounted'
<1>. USE DEF PoolInv, PoolPlaces, InsidePlaces
<1>1. \A p \in PoolPlaces : Move(c, p) =>
        /\ Cardinality(Inside) \in Nat
        /\ Cardinality(Inside)' =
             IF place[c] \in InsidePlaces /\ p \notin InsidePlaces
             THEN Cardinality(Inside) - 1
             ELSE IF place[c] \notin InsidePlaces /\ p \in InsidePlaces
             THEN Cardinality(Inside) + 1
             ELSE Cardinality(Inside)
  BY InsideAfterAMove DEF Inside
<1>2. free \in Int /\ Workers \in Nat \ {0}
  BY PoolAssumption DEF PoolTypeOK
<1>3. CASE Call(c)
  BY <1>1, <1>2, <1>3 DEF Call, GateAccounted
<1>4. CASE TakeInstalled(c)
  BY <1>1, <1>2, <1>4 DEF TakeInstalled, GateAccounted
<1>5. CASE TakeFresh(c)
  BY <1>1, <1>2, <1>5 DEF TakeFresh, GateAccounted
<1>6. CASE Warmed(c)
  BY <1>1, <1>2, <1>6 DEF Warmed, GateAccounted
<1>7. CASE WarmUpFails(c) \/ Timeout(c) \/ Broken(c)
  BY <1>1, <1>2, <1>7 DEF WarmUpFails, Timeout, Broken, Drop, GateAccounted
<1>8. CASE Parsed(c) \/ Reaped(c)
  BY <1>1, <1>2, <1>8 DEF Parsed, Reaped, GateAccounted
<1>9. CASE CancelCall(c)
  <2>1. Move(c, "over") /\ place[c] \in {"gate", "warming", "running", "reaping"}
    BY <1>9 DEF CancelCall, Drop
  <2>2. free' = IF place[c] # "gate" THEN free + 1 ELSE free
    BY <1>9 DEF CancelCall, GivesBack
  <2>. QED
    BY <1>1, <1>2, <2>1, <2>2 DEF GateAccounted
<1>. QED
  BY <1>3, <1>4, <1>5, <1>6, <1>7, <1>8, <1>9 DEF CallStep

LEMMA CallKeepsParses ==
  ASSUME PoolInv, NEW c \in Calls, CallStep(c) \/ CancelCall(c)
  PROVE  NoParseOutlivesItsCall'
<1>. USE DEF PoolInv, PoolTypeOK, NoParseOutlivesItsCall, Move, On
<1>1. CASE Call(c)
  BY <1>1 DEF Call
<1>2. CASE TakeInstalled(c) \/ TakeFresh(c) \/ Warmed(c)
  BY <1>2 DEF TakeInstalled, TakeFresh, Warmed
<1>3. CASE WarmUpFails(c) \/ Timeout(c) \/ Broken(c)
  BY <1>3 DEF WarmUpFails, Timeout, Broken, Drop, Kill
<1>4. CASE Parsed(c) \/ Reaped(c)
  BY <1>4 DEF Parsed, Reaped
<1>5. CASE CancelCall(c)
  BY <1>5 DEF CancelCall, Drop, Kill
<1>. QED
  BY <1>1, <1>2, <1>3, <1>4, <1>5 DEF CallStep

LEMMA DeathKeepsThePool ==
  ASSUME PoolInv, Deaths PROVE PoolInv'
  BY DEF PoolInv, PoolTypeOK, GateAccounted, NoParseOutlivesItsCall, Inside, Deaths,
         WorkerDies, On

LEMMA PoolUnchanged ==
  ASSUME PoolInv, UNCHANGED poolVars PROVE PoolInv'
  BY DEF PoolInv, PoolTypeOK, GateAccounted, NoParseOutlivesItsCall, Inside, poolVars

\* The gate is accounted for and no parse outlives its call.
THEOREM PoolInvariant == Spec => []PoolInv
<1>1. Init => PoolInv
  <2>1. Init => Inside = {}
    BY DEF Init, PoolInit, Inside
  <2>. QED
    BY <2>1, FS_EmptySet, PoolAssumption
       DEF Init, PoolInit, PoolInv, PoolTypeOK, PoolPlaces, GateAccounted,
           NoParseOutlivesItsCall
<1>2. ASSUME PoolInv, [Next]_vars PROVE PoolInv'
  <2>1. ASSUME NEW c \in Calls, CallStep(c) \/ CancelCall(c) PROVE PoolInv'
    BY <1>2, <2>1, CallKeepsType, CallKeepsTheGate, CallKeepsParses DEF PoolInv
  <2>2. ASSUME NEW f \in Fetches, Fetch(f) \/ Extract(f) \/ Abandon(f) PROVE PoolInv'
    BY <1>2, <2>1, <2>2, PoolUnchanged, FetchAssumption DEF Fetch, Extract, Abandon
  <2>. QED
    BY <1>2, <2>2, DeathKeepsThePool, PoolUnchanged DEF Next, Finished, vars
<1>. QED
  BY <1>1, <1>2, PTL DEF Spec

\* Whatever ends a call, its permit comes back, once.
THEOREM GateIsNeverLeaked == Spec => []GateAccounted
<1>1. PoolInv => GateAccounted
  BY DEF PoolInv
<1>. QED
  BY <1>1, PoolInvariant, PTL

\* A worker never goes on with a document whose caller is gone.
THEOREM ParsesEndWithTheirCall == Spec => []NoParseOutlivesItsCall
<1>1. PoolInv => NoParseOutlivesItsCall
  BY DEF PoolInv
<1>. QED
  BY <1>1, PoolInvariant, PTL

---------------------------------------------------------------------------
(* One worker: the gate lets one call in at a time, so the executor a call  *)
(* finds installed is warm, and what a call kills is its own.               *)

OneInside == \A c, e \in Inside : c = e

WarmWhenIdle ==
  /\ \A c \in Inside : place[c] = "warming" => runs = 0
  /\ current # 0 => current \in warm
                    \/ \E c \in Inside : place[c] = "warming" /\ uses[c] = current

SoloInv == ParsedWarmAndInQuota /\ WarmWhenIdle

LEMMA OneWorkerOneInside ==
  ASSUME Workers = 1, PoolInv PROVE OneInside /\ (free > 0 => Inside = {})
<1>1. IsFiniteSet(Inside)
  BY PoolAssumption, FS_Subset DEF Inside
<1>2. free \in Int /\ free >= 0 /\ free + Cardinality(Inside) = 1
  BY DEF PoolInv, PoolTypeOK, GateAccounted
<1>3. Cardinality(Inside) \in Nat
  BY <1>1, FS_CardinalityType
<1>4. free > 0 => Inside = {}
  BY <1>1, <1>2, <1>3, FS_EmptySet
<1>5. ASSUME NEW c \in Inside, NEW e \in Inside, c # e PROVE FALSE
  <2>1. IsFiniteSet({c}) /\ Cardinality({c}) = 1
    BY FS_Singleton
  <2>2. {c} \subseteq Inside /\ {c} # Inside
    BY <1>5
  <2>3. Cardinality({c}) # Cardinality(Inside)
    BY <1>1, <2>2, FS_Subset
  <2>4. Cardinality({c}) <= Cardinality(Inside)
    BY <1>1, <2>2, FS_Subset
  <2>. QED
    BY <1>2, <1>3, <2>1, <2>3, <2>4
<1>. QED
  BY <1>4, <1>5 DEF OneInside

LEMMA CallKeepsSolo ==
  ASSUME Workers = 1, PoolInv, SoloInv, NEW c \in Calls, CallStep(c) \/ CancelCall(c)
  PROVE  SoloInv'
<1>. USE PoolAssumption
     DEF PoolInv, PoolTypeOK, SoloInv, ParsedWarmAndInQuota, WarmWhenIdle, Inside,
         NoParseOutlivesItsCall, Move, On
<1>1. OneInside /\ (free > 0 => Inside = {})
  BY OneWorkerOneInside
<1>2. \A d \in parsing : place[d] = "running" /\ d \in Inside
  OBVIOUS
<1>3. CASE Call(c)
  BY <1>3 DEF Call
<1>4. CASE TakeInstalled(c)
  BY <1>1, <1>2, <1>4 DEF TakeInstalled, Worn
<1>5. CASE TakeFresh(c)
  BY <1>1, <1>2, <1>5 DEF TakeFresh
<1>6. CASE Warmed(c)
  BY <1>1, <1>2, <1>6 DEF Warmed, OneInside
<1>7. CASE WarmUpFails(c) \/ Timeout(c) \/ Broken(c)
  BY <1>1, <1>2, <1>7 DEF WarmUpFails, Timeout, Broken, Drop, Kill, OneInside
<1>8. CASE Parsed(c) \/ Reaped(c)
  BY <1>1, <1>2, <1>8 DEF Parsed, Reaped, OneInside
<1>9. CASE CancelCall(c)
  BY <1>1, <1>2, <1>9 DEF CancelCall, Drop, Kill, OneInside
<1>. QED
  BY <1>3, <1>4, <1>5, <1>6, <1>7, <1>8, <1>9 DEF CallStep

\* What a call with the gate to itself ends is its own parse.
LEMMA CallCutsNobodyShort ==
  ASSUME Workers = 1, PoolInv, NEW c \in Calls, CallStep(c) \/ CancelCall(c)
  PROVE  \A d \in parsing \ parsing' : place'[d] # "running"
<1>. USE DEF PoolInv, PoolTypeOK, Inside, NoParseOutlivesItsCall, Move, On
<1>1. OneInside /\ (free > 0 => Inside = {})
  BY OneWorkerOneInside
<1>2. \A d \in parsing : place[d] = "running" /\ d \in Inside
  OBVIOUS
<1>3. CASE Call(c) \/ TakeInstalled(c) \/ TakeFresh(c) \/ Warmed(c)
  BY <1>1, <1>2, <1>3 DEF Call, TakeInstalled, TakeFresh, Warmed, OneInside
<1>4. CASE WarmUpFails(c) \/ Timeout(c) \/ Broken(c)
  BY <1>1, <1>2, <1>4 DEF WarmUpFails, Timeout, Broken, Drop, Kill, OneInside
<1>5. CASE Parsed(c) \/ Reaped(c) \/ CancelCall(c)
  BY <1>1, <1>2, <1>5 DEF Parsed, Reaped, CancelCall, Drop, Kill, OneInside
<1>. QED
  BY <1>3, <1>4, <1>5 DEF CallStep

\* With one worker a document is only ever parsed by a warmed worker, and an
\* executor serves no more than its quota.
THEOREM ParsesAreWarm ==
  ASSUME Workers = 1 PROVE Spec => []ParsedWarmAndInQuota
<1>1. Init => SoloInv
  BY PoolAssumption DEF Init, PoolInit, SoloInv, ParsedWarmAndInQuota, WarmWhenIdle, Inside
<1>2. ASSUME PoolInv, SoloInv, [Next]_vars PROVE SoloInv'
  <2>1. ASSUME UNCHANGED poolVars PROVE SoloInv'
    BY <1>2, <2>1 DEF SoloInv, ParsedWarmAndInQuota, WarmWhenIdle, Inside, poolVars
  <2>2. ASSUME Deaths PROVE SoloInv'
    BY <1>2, <2>2 DEF SoloInv, ParsedWarmAndInQuota, WarmWhenIdle, Inside, Deaths,
                      WorkerDies, On
  <2>3. ASSUME NEW f \in Fetches, Fetch(f) \/ Extract(f) \/ Abandon(f) PROVE SoloInv'
    BY <1>2, <2>1, <2>3, CallKeepsSolo, FetchAssumption DEF Fetch, Extract, Abandon
  <2>. QED
    BY <1>2, <2>1, <2>2, <2>3 DEF Next, Finished, vars
<1>3. SoloInv => ParsedWarmAndInQuota
  BY DEF SoloInv
<1>. QED
  BY <1>1, <1>2, <1>3, PoolInvariant, PTL DEF Spec

\* With one worker nothing but a worker's death ends a parse its caller still
\* waits for: not a recycled executor, nor the end of another call.
THEOREM NobodyIsCutShort ==
  ASSUME Workers = 1 PROVE Spec => NobodyElseCutsACallShort
<1>1. ASSUME PoolInv, [Next]_vars
      PROVE  [deaths' = deaths =>
                \A c \in parsing \ parsing' : place'[c] # "running"]_poolVars
  <2>1. ASSUME UNCHANGED poolVars
        PROVE  \A c \in parsing \ parsing' : place'[c] # "running"
    BY <2>1 DEF poolVars
  <2>2. ASSUME Deaths PROVE deaths' # deaths
    BY <1>1, <2>2 DEF Deaths, WorkerDies, PoolInv, PoolTypeOK
  <2>3. ASSUME NEW f \in Fetches, Fetch(f) \/ Extract(f) \/ Abandon(f)
        PROVE  \A c \in parsing \ parsing' : place'[c] # "running"
    BY <1>1, <2>1, <2>3, CallCutsNobodyShort, FetchAssumption DEF Fetch, Extract, Abandon
  <2>. QED
    BY <1>1, <2>1, <2>2, <2>3 DEF Next, Finished, vars
<1>. QED
  BY <1>1, PoolInvariant, PTL DEF Spec, NobodyElseCutsACallShort

---------------------------------------------------------------------------
(* The limiter's permits.  A fetch in a slot keeps the state of its domain  *)
(* alive, since in_flight counts it.                                        *)

FetchPlaces ==
  {"idle", "ready", "enter", "pace", "sleep", "global", "request", "ended", "gone"}

InSlot == Holding \cup {"enter"}

SlotTypeOK ==
  /\ at \in [Fetches -> FetchPlaces]
  /\ globalFree \in Int
  /\ hostFree \in [Domains -> Int] /\ inFlight \in [Domains -> Int]

InFlightIsKnown == \A f \in Fetches : at[f] \in InSlot => DomainOf[f] \in known

SlotInv == SlotTypeOK /\ SlotsAccounted /\ InFlightIsKnown

Requesting == {f \in Fetches : at[f] = "request"}

Moves(f, p) == at' = [at EXCEPT ![f] = p]

LEMMA DomainsOfFetches == \A f \in Fetches : DomainOf[f] \in Domains
  BY LimiterAssumption

\* What a move of one fetch does to a count of its domain, and of the others.
LEMMA CountAfterAMove ==
  ASSUME SlotTypeOK, NEW f \in Fetches, NEW p \in FetchPlaces, Moves(f, p),
         NEW places, NEW d \in Domains
  PROVE  /\ Cardinality(At(places, d)) \in Nat
         /\ Cardinality(At(places, d))' =
              IF d = DomainOf[f] /\ at[f] \in places /\ p \notin places
              THEN Cardinality(At(places, d)) - 1
              ELSE IF d = DomainOf[f] /\ at[f] \notin places /\ p \in places
              THEN Cardinality(At(places, d)) + 1
              ELSE Cardinality(At(places, d))
<1>1. IsFiniteSet(At(places, d))
  BY LimiterAssumption, FS_Subset DEF At
<1>2. Cardinality(At(places, d)) \in Nat
  BY <1>1, FS_CardinalityType
<1>3. f \in At(places, d) <=> d = DomainOf[f] /\ at[f] \in places
  BY DEF At
<1>4. At(places, d)' = IF d = DomainOf[f]
                       THEN IF p \in places THEN At(places, d) \cup {f}
                                            ELSE At(places, d) \ {f}
                       ELSE At(places, d)
  BY DEF At, SlotTypeOK, Moves
<1>5. CASE d # DomainOf[f]
  BY <1>2, <1>4, <1>5
<1>6. CASE d = DomainOf[f] /\ p \in places
  BY <1>1, <1>2, <1>3, <1>4, <1>6, FS_AddElement
<1>7. CASE d = DomainOf[f] /\ p \notin places
  <2>1. At(places, d)' = At(places, d) \ {f}
    BY <1>4, <1>7
  <2>2. Cardinality(At(places, d) \ {f}) =
          IF f \in At(places, d) THEN Cardinality(At(places, d)) - 1
                               ELSE Cardinality(At(places, d))
    BY <1>1, FS_RemoveElement
  <2>. QED
    BY <1>2, <1>3, <1>7, <2>1, <2>2
<1>. QED
  BY <1>5, <1>6, <1>7, <1>2

LEMMA RequestsAfterAMove ==
  ASSUME SlotTypeOK, NEW f \in Fetches, NEW p \in FetchPlaces, Moves(f, p)
  PROVE  /\ Cardinality(Requesting) \in Nat
         /\ Cardinality(Requesting)' =
              IF at[f] = "request" /\ p # "request" THEN Cardinality(Requesting) - 1
              ELSE IF at[f] # "request" /\ p = "request" THEN Cardinality(Requesting) + 1
              ELSE Cardinality(Requesting)
<1>1. IsFiniteSet(Requesting)
  BY LimiterAssumption, FS_Subset DEF Requesting
<1>2. Cardinality(Requesting) \in Nat
  BY <1>1, FS_CardinalityType
<1>3. Requesting' = IF p = "request" THEN Requesting \cup {f} ELSE Requesting \ {f}
  BY DEF Requesting, SlotTypeOK, Moves
<1>4. CASE p = "request"
  BY <1>1, <1>2, <1>3, <1>4, FS_AddElement DEF Requesting
<1>5. CASE p # "request"
  BY <1>1, <1>2, <1>3, <1>5, FS_RemoveElement DEF Requesting
<1>. QED
  BY <1>2, <1>4, <1>5

\* The permits move with the fetch.
Balanced(f, p) ==
  LET d == DomainOf[f] IN
  /\ globalFree' = globalFree + (IF at[f] = "request" THEN 1 ELSE 0)
                              - (IF p = "request" THEN 1 ELSE 0)
  /\ hostFree'[d] = hostFree[d] + (IF at[f] \in Holding THEN 1 ELSE 0)
                                - (IF p \in Holding THEN 1 ELSE 0)
  /\ inFlight'[d] = inFlight[d] - (IF at[f] \in InSlot THEN 1 ELSE 0)
                                + (IF p \in InSlot THEN 1 ELSE 0)
  /\ \A e \in Domains \ {d} : hostFree'[e] = hostFree[e] /\ inFlight'[e] = inFlight[e]
  /\ globalFree' >= 0 /\ hostFree'[d] >= 0

LEMMA MoveKeepsAccounts ==
  ASSUME SlotInv, NEW f \in Fetches, NEW p \in FetchPlaces, Moves(f, p), SlotTypeOK',
         Balanced(f, p)
  PROVE  SlotsAccounted'
<1>. USE LimiterAssumption DEF Balanced
<1>1. globalFree' = Global - Cardinality(Requesting)'
  <2>1. globalFree = Global - Cardinality(Requesting)
    BY DEF SlotInv, SlotsAccounted, Requesting
  <2>. QED
    BY <2>1, RequestsAfterAMove DEF SlotInv, SlotTypeOK
<1>2. ASSUME NEW d \in Domains
      PROVE  /\ hostFree'[d] = PerHost - Cardinality(At(Holding, d))'
             /\ inFlight'[d] = Cardinality(At(InSlot, d))'
             /\ hostFree'[d] >= 0
  <2>1. /\ hostFree[d] = PerHost - Cardinality(At(Holding, d))
        /\ inFlight[d] = Cardinality(At(InSlot, d))
        /\ hostFree[d] >= 0
    BY DEF SlotInv, SlotsAccounted, InSlot
  <2>2. hostFree[d] \in Int /\ inFlight[d] \in Int /\ hostFree'[d] \in Int /\ inFlight'[d] \in Int
    BY DEF SlotInv, SlotTypeOK
  <2>3. hostFree'[d] = PerHost - Cardinality(At(Holding, d))'
    BY <2>1, <2>2, CountAfterAMove DEF SlotInv
  <2>4. inFlight'[d] = Cardinality(At(InSlot, d))'
    BY <2>1, <2>2, CountAfterAMove DEF SlotInv
  <2>. QED
    BY <2>1, <2>3, <2>4
<1>. QED
  BY <1>1, <1>2 DEF SlotsAccounted, Requesting, InSlot

LEMMA StepKeepsSlotType ==
  ASSUME SlotInv, NEW f \in Fetches, FetchStep(f) \/ CancelFetch(f) PROVE SlotTypeOK'
<1>. USE DomainsOfFetches DEF SlotInv, SlotTypeOK, FetchPlaces
<1>1. CASE Learn(f) \/ Awake(f) \/ Pace(f)
  BY <1>1 DEF Learn, Awake, Pace, domainState
<1>4. CASE Arrive(f)
  BY <1>4 DEF Arrive
<1>5. CASE Enter(f)
  BY <1>5 DEF Enter
<1>2. CASE Start(f)
  BY <1>2 DEF Start
<1>3. CASE Answer(f) \/ CancelFetch(f)
  <2>1. PICK p \in {"ready", "ended", "gone"} : Leave(f, p)
    BY <1>3 DEF Answer, CancelFetch
  <2>2. at' \in [Fetches -> FetchPlaces] /\ globalFree' \in Int
    BY <2>1 DEF Leave
  <2>3. inFlight' \in [Domains -> Int]
    BY <2>1 DEF Leave
  <2>4. hostFree' \in [Domains -> Int]
    BY <2>1 DEF Leave
  <2>. QED
    BY <2>2, <2>3, <2>4
<1>. QED
  BY <1>1, <1>2, <1>3, <1>4, <1>5 DEF FetchStep

LEMMA StepKeepsSlots ==
  ASSUME SlotInv, NEW f \in Fetches, FetchStep(f) \/ CancelFetch(f) PROVE SlotsAccounted'
<1>. DEFINE d == DomainOf[f]
<1>1. SUFFICES \E p \in FetchPlaces : Moves(f, p) /\ Balanced(f, p)
  BY StepKeepsSlotType, MoveKeepsAccounts
<1>2. /\ d \in Domains /\ globalFree \in Int /\ globalFree >= 0
      /\ hostFree[d] \in Int /\ hostFree[d] >= 0 /\ inFlight[d] \in Int
  BY DomainsOfFetches DEF SlotInv, SlotsAccounted, SlotTypeOK
<1>3. /\ inFlight \in [Domains -> Int] /\ hostFree \in [Domains -> Int]
  BY DEF SlotInv, SlotTypeOK
<1>. USE DEF Balanced, FetchPlaces, Holding, InSlot
<1>4. CASE Learn(f)
  <2>1. Moves(f, "ready") /\ Balanced(f, "ready")
    BY <1>2, <1>4 DEF Learn, Moves
  <2>. QED
    BY <2>1
<1>5. CASE Awake(f)
  <2>1. Moves(f, "pace") /\ Balanced(f, "pace")
    BY <1>2, <1>5 DEF Awake, Moves, domainState
  <2>. QED
    BY <2>1
<1>6. CASE Arrive(f)
  <2>1. Moves(f, "enter") /\ Balanced(f, "enter")
    BY <1>2, <1>3, <1>6 DEF Arrive, Moves
  <2>. QED
    BY <2>1
<1>7. CASE Enter(f)
  <2>1. Moves(f, "pace") /\ Balanced(f, "pace")
    BY <1>2, <1>3, <1>7 DEF Enter, Moves
  <2>. QED
    BY <2>1
<1>8. CASE Pace(f)
  <2>1. PICK p \in {"global", "sleep"} : Moves(f, p)
    BY <1>8 DEF Pace, Moves
  <2>2. Balanced(f, p)
    BY <1>2, <1>8, <2>1 DEF Pace
  <2>. QED
    BY <2>1, <2>2
<1>9. CASE Start(f) /\ StillAdmits(d)
  <2>1. Moves(f, "request") /\ Balanced(f, "request")
    BY <1>2, <1>9 DEF Start, Moves
  <2>. QED
    BY <2>1
<1>10. CASE Start(f) /\ ~StillAdmits(d)
  <2>1. Moves(f, "pace") /\ Balanced(f, "pace")
    BY <1>2, <1>10 DEF Start, Moves
  <2>. QED
    BY <2>1
<1>11. CASE Answer(f) \/ CancelFetch(f)
  <2>1. PICK p \in {"ready", "ended", "gone"} : Leave(f, p) /\ at[f] \in InSlot
    BY <1>11 DEF Answer, CancelFetch
  <2>2. Moves(f, p)
    BY <2>1 DEF Leave, Moves
  <2>3. /\ globalFree' = IF at[f] = "request" THEN globalFree + 1 ELSE globalFree
        /\ hostFree' = [hostFree EXCEPT ![d] = IF at[f] \in Holding THEN @ + 1 ELSE @]
        /\ inFlight' = [inFlight EXCEPT ![d] = @ - 1]
    BY <2>1 DEF Leave, HoldsHost
  <2>4. /\ inFlight'[d] = inFlight[d] - 1
        /\ hostFree'[d] = IF at[f] \in Holding THEN hostFree[d] + 1 ELSE hostFree[d]
        /\ \A e \in Domains \ {d} : hostFree'[e] = hostFree[e] /\ inFlight'[e] = inFlight[e]
    BY <1>2, <1>3, <2>3
  <2>5. Balanced(f, p)
    BY <1>2, <2>1, <2>3, <2>4
  <2>. QED
    BY <2>1, <2>2, <2>5
<1>. QED
  BY <1>4, <1>5, <1>6, <1>7, <1>8, <1>9, <1>10, <1>11 DEF FetchStep

\* in_flight is what keeps the state of a fetch in a slot from being evicted.
LEMMA InFlightIsCounted ==
  ASSUME SlotInv, NEW f \in Fetches, at[f] \in InSlot
  PROVE  inFlight[DomainOf[f]] > 0
<1>. DEFINE A == At(InSlot, DomainOf[f])
<1>1. IsFiniteSet(A) /\ f \in A
  BY LimiterAssumption, FS_Subset DEF At
<1>2. Cardinality(A) \in Nat /\ Cardinality(A) # 0
  BY <1>1, FS_CardinalityType, FS_EmptySet
<1>. QED
  BY <1>2, DomainsOfFetches DEF SlotInv, SlotsAccounted, InSlot

LEMMA StepKeepsKnown ==
  ASSUME SlotInv, NEW f \in Fetches, FetchStep(f) \/ CancelFetch(f) PROVE InFlightIsKnown'
<1>1. SUFFICES ASSUME NEW g \in Fetches, at'[g] \in InSlot PROVE DomainOf[g] \in known'
  BY DEF InFlightIsKnown
<1>. USE DEF SlotInv, SlotTypeOK, InSlot, Holding
<1>2. CASE Learn(f) \/ Arrive(f)
  <2>1. PICK evicted \in SUBSET known : State(DomainOf[f], evicted)
    BY <1>2 DEF Learn, Arrive
  <2>2. CASE g = f
    BY <2>1, <2>2 DEF State
  <2>3. CASE g # f
    <3>1. at[g] \in InSlot
      BY <1>1, <1>2, <2>3 DEF Learn, Arrive
    <3>2. DomainOf[g] \in known /\ inFlight[DomainOf[g]] > 0
      BY <3>1, InFlightIsCounted DEF InFlightIsKnown
    <3>. QED
      BY <2>1, <3>2 DEF State, Idle
  <2>. QED
    BY <2>2, <2>3
<1>3. CASE Enter(f) \/ Pace(f) \/ Awake(f) \/ Start(f)
  BY <1>1, <1>3 DEF InFlightIsKnown, Enter, Pace, Awake, Start, domainState
<1>4. CASE Answer(f) \/ CancelFetch(f)
  BY <1>1, <1>4 DEF InFlightIsKnown, Answer, CancelFetch, Leave
<1>. QED
  BY <1>2, <1>3, <1>4 DEF FetchStep

THEOREM SlotInvariant == Spec => []SlotInv
<1>1. Init => SlotInv
  <2>1. SUFFICES ASSUME Init PROVE SlotInv
    OBVIOUS
  <2>2. Requesting = {} /\ \A d \in Domains : At(Holding, d) = {} /\ At(InSlot, d) = {}
    BY <2>1 DEF Init, LimiterInit, Requesting, At, Holding, InSlot
  <2>3. Cardinality({}) = 0 /\ Global \in Nat \ {0} /\ PerHost \in Nat \ {0}
    BY FS_EmptySet, LimiterAssumption
  <2>4. SlotTypeOK
    BY <2>1, <2>3 DEF Init, LimiterInit, SlotTypeOK, FetchPlaces
  <2>5. SlotsAccounted
    <3>1. globalFree = Global - Cardinality(Requesting) /\ globalFree >= 0
      BY <2>1, <2>2, <2>3 DEF Init, LimiterInit
    <3>2. ASSUME NEW d \in Domains
          PROVE  /\ hostFree[d] = PerHost - Cardinality(At(Holding, d))
                 /\ inFlight[d] = Cardinality(At(InSlot, d))
                 /\ hostFree[d] >= 0
      BY <2>1, <2>2, <2>3 DEF Init, LimiterInit
    <3>. QED
      BY <3>1, <3>2 DEF SlotsAccounted, Requesting, InSlot
  <2>6. InFlightIsKnown
    BY <2>1 DEF Init, LimiterInit, InFlightIsKnown, InSlot, Holding
  <2>. QED
    BY <2>4, <2>5, <2>6 DEF SlotInv
<1>2. ASSUME SlotInv, [Next]_vars PROVE SlotInv'
  <2>1. ASSUME UNCHANGED <<domainState, globalFree, at>> PROVE SlotInv'
    BY <1>2, <2>1 DEF SlotInv, SlotTypeOK, SlotsAccounted, InFlightIsKnown, At, domainState
  <2>2. ASSUME NEW f \in Fetches, FetchStep(f) \/ CancelFetch(f) PROVE SlotInv'
    BY <1>2, <2>2, StepKeepsSlotType, StepKeepsSlots, StepKeepsKnown DEF SlotInv
  <2>. QED
    BY <1>2, <2>1, <2>2
       DEF Next, Fetch, Extract, Abandon, LimiterTick, Finished, vars, limiterVars
<1>. QED
  BY <1>1, <1>2, PTL DEF Spec

\* No request, cancelled at whatever await, leaks or steals a permit: a domain
\* never has more than PerHost requests in flight, the process than Global.
THEOREM SlotsAreNeverLeaked == Spec => []SlotsAccounted
<1>1. SlotInv => SlotsAccounted
  BY DEF SlotInv
<1>. QED
  BY <1>1, SlotInvariant, PTL

---------------------------------------------------------------------------
(* The limiter's pace.  A window that remembers a start remembers the last  *)
(* one, under an interval that has only been widened since; one that has    *)
(* forgotten it, or was evicted, did so when the interval was over.         *)

Paced(d) ==
  IF event[d] = Never
  THEN now >= started[d].at + started[d].interval
  ELSE /\ event[d] = started[d].at /\ lastUsed[d] = event[d] /\ event[d] >= 0
       /\ started[d].interval <= interval[d]

PaceTypeOK ==
  /\ now \in Nat
  /\ event \in [Domains -> Int] /\ lastUsed \in [Domains -> Int]
  /\ interval \in [Domains -> 1 .. MaxDelay]
  /\ started \in [Domains -> [at : Int, interval : 0 .. MaxDelay]]

PaceInv ==
  /\ PaceTypeOK
  /\ \A d \in Domains : Paced(d) /\ (d \notin known => event[d] = Never)

LEMMA Bounds ==
  /\ CrawlDelay \in [Fetches -> Nat]
  /\ MinInterval \in Nat \ {0} /\ MaxDelay \in Nat \ {0} /\ MinInterval <= MaxDelay
  /\ Never \in Int /\ Never < 0
  BY LimiterAssumption DEF Never

\* A new state, an evicted one and a widened one keep the pace.
LEMMA StateKeepsPace ==
  ASSUME PaceInv, NEW d \in Domains, NEW evicted \in SUBSET known, State(d, evicted),
         UNCHANGED <<now, started>>, NEW e \in Domains,
         event'[e] = IF e \in Fresh(d, evicted) THEN Never ELSE event[e],
         lastUsed'[e] = IF e \in Fresh(d, evicted) THEN Never ELSE lastUsed[e],
         e \notin Fresh(d, evicted) => interval'[e] >= interval[e],
         interval'[e] \in 1 .. MaxDelay
  PROVE  Paced(e)' /\ (e \notin known' => event'[e] = Never)
<1>. USE Bounds DEF PaceInv, PaceTypeOK
<1>1. Paced(e) /\ (e \notin known => event[e] = Never)
  OBVIOUS
<1>2. e \notin known' => event'[e] = Never
  BY <1>1 DEF State, Fresh
<1>3. CASE e \notin Fresh(d, evicted)
  BY <1>1, <1>2, <1>3 DEF Paced, Never
<1>4. CASE e \in Fresh(d, evicted) /\ event[e] = Never
  BY <1>1, <1>2, <1>4 DEF Paced, Never
<1>5. CASE e \in Fresh(d, evicted) /\ event[e] # Never
  <2>1. e \in evicted
    BY <1>1, <1>5 DEF Fresh
  <2>2. now - lastUsed[e] > MaxDelay
    BY <2>1 DEF State, Idle
  <2>3. event'[e] = Never /\ now' = now /\ started' = started
    BY <1>5
  <2>4. now >= started[e].at + started[e].interval
    BY <1>1, <1>5, <2>2 DEF Paced
  <2>. QED
    BY <1>2, <2>3, <2>4 DEF Paced
<1>. QED
  BY <1>3, <1>4, <1>5

LEMMA WideningWidens ==
  ASSUME NEW pace \in 1 .. MaxDelay, NEW delay \in Nat
  PROVE  Widened(pace, delay) \in 1 .. MaxDelay /\ Widened(pace, delay) >= pace
  BY Bounds DEF Widened, Larger, Sooner

LEMMA LearnKeepsPace ==
  ASSUME PaceInv, NEW f \in Fetches, Learn(f) \/ Arrive(f) PROVE PaceInv'
<1>. DEFINE d == DomainOf[f]
<1>1. PICK evicted \in SUBSET known, kept \in [Domains -> Int] :
        /\ State(d, evicted)
        /\ kept = [e \in Domains |-> IF e \in Fresh(d, evicted) THEN MinInterval ELSE interval[e]]
        /\ \/ interval' = kept
           \/ interval' = [e \in Domains |-> IF e = d THEN Widened(kept[e], CrawlDelay[f])
                                             ELSE kept[e]]
        /\ event' = [e \in Domains |-> IF e \in Fresh(d, evicted) THEN Never ELSE event[e]]
        /\ lastUsed' = [e \in Domains |-> IF e \in Fresh(d, evicted) THEN Never ELSE lastUsed[e]]
        /\ UNCHANGED <<now, started>>
  <2>1. PICK evicted \in SUBSET known :
        /\ State(d, evicted)
        /\ \/ interval' = [e \in Domains |-> IF e \in Fresh(d, evicted) THEN MinInterval
                                             ELSE interval[e]]
           \/ interval' = [e \in Domains |->
                LET k == IF e \in Fresh(d, evicted) THEN MinInterval ELSE interval[e] IN
                IF e = d THEN Widened(k, CrawlDelay[f]) ELSE k]
        /\ event' = [e \in Domains |-> IF e \in Fresh(d, evicted) THEN Never ELSE event[e]]
        /\ lastUsed' = [e \in Domains |-> IF e \in Fresh(d, evicted) THEN Never ELSE lastUsed[e]]
        /\ UNCHANGED <<now, started>>
    BY DEF Learn, Arrive
  <2>. DEFINE kept == [e \in Domains |-> IF e \in Fresh(d, evicted) THEN MinInterval
                                         ELSE interval[e]]
  <2>2. kept \in [Domains -> Int]
    BY Bounds DEF PaceInv, PaceTypeOK
  <2>3. \/ interval' = kept
        \/ interval' = [e \in Domains |-> IF e = d THEN Widened(kept[e], CrawlDelay[f])
                                          ELSE kept[e]]
    BY <2>1
  <2>. QED
    BY <2>1, <2>2, <2>3
<1>2. \A e \in Domains : kept[e] \in 1 .. MaxDelay
  BY <1>1, Bounds DEF PaceInv, PaceTypeOK
<1>3. \A e \in Domains : interval'[e] \in 1 .. MaxDelay /\ interval'[e] >= kept[e]
  <2>1. SUFFICES ASSUME NEW e \in Domains
                 PROVE  interval'[e] \in 1 .. MaxDelay /\ interval'[e] >= kept[e]
    OBVIOUS
  <2>2. interval'[e] = kept[e] \/ interval'[e] = Widened(kept[e], CrawlDelay[f])
    BY <1>1
  <2>3. kept[e] \in 1 .. MaxDelay /\ CrawlDelay[f] \in Nat
    BY <1>2, Bounds
  <2>4. /\ Widened(kept[e], CrawlDelay[f]) \in 1 .. MaxDelay
        /\ Widened(kept[e], CrawlDelay[f]) >= kept[e]
    BY <2>3, WideningWidens
  <2>. QED
    BY <2>2, <2>3, <2>4
<1>4. \A e \in Domains : e \notin Fresh(d, evicted) => interval'[e] >= interval[e]
  BY <1>1, <1>3
<1>5. PaceTypeOK'
  <2>1. interval' \in [Domains -> 1 .. MaxDelay]
    BY <1>1, <1>3
  <2>. QED
    BY <1>1, <2>1, Bounds DEF PaceInv, PaceTypeOK
<1>6. ASSUME NEW e \in Domains PROVE Paced(e)' /\ (e \notin known' => event'[e] = Never)
  BY <1>1, <1>3, <1>4, StateKeepsPace, DomainsOfFetches
<1>. QED
  BY <1>5, <1>6 DEF PaceInv

\* A window forgets a start only when the interval is over.
LEMMA ForgettingKeepsPace ==
  ASSUME PaceInv, NEW d \in Domains, Forget(d) \/ UNCHANGED event,
         UNCHANGED <<now, known, interval, lastUsed, started>>
  PROVE  PaceInv'
<1>. USE Bounds DEF PaceInv, PaceTypeOK
<1>1. event' \in [Domains -> Int]
      /\ \A e \in Domains : \/ event'[e] = event[e]
                            \/ event'[e] = Never /\ event[e] <= now - interval[e]
  <2>1. CASE UNCHANGED event
    BY <2>1
  <2>2. CASE Forget(d)
    BY <2>2 DEF Forget, Expired
  <2>. QED
    BY <2>1, <2>2
<1>2. ASSUME NEW e \in Domains PROVE Paced(e)' /\ (e \notin known' => event'[e] = Never)
  BY <1>1 DEF Paced
<1>. QED
  BY <1>1, <1>2

LEMMA StartKeepsPace ==
  ASSUME PaceInv, SlotInv, NEW f \in Fetches, Start(f) PROVE PaceInv'
<1>. DEFINE d == DomainOf[f]
<1>1. CASE ~StillAdmits(d)
  BY <1>1, ForgettingKeepsPace, DomainsOfFetches DEF Start
<1>2. CASE StillAdmits(d)
  <2>. USE Bounds DEF PaceInv, PaceTypeOK
  <2>1. /\ event' = [event EXCEPT ![d] = now] /\ lastUsed' = [lastUsed EXCEPT ![d] = now]
        /\ started' = [started EXCEPT ![d] = [at |-> now, interval |-> interval[d]]]
        /\ UNCHANGED <<now, known, interval>> /\ at[f] = "global"
    BY <1>2 DEF Start
  <2>2. d \in Domains /\ d \in known
    BY <2>1, DomainsOfFetches DEF SlotInv, InFlightIsKnown, InSlot, Holding
  <2>3. interval[d] \in 0 .. MaxDelay
    BY <2>2
  <2>4. PaceTypeOK'
    BY <2>1, <2>2, <2>3
  <2>5. ASSUME NEW e \in Domains PROVE Paced(e)' /\ (e \notin known' => event'[e] = Never)
    <3>1. CASE e = d
      BY <2>1, <2>2, <2>3, <3>1 DEF Paced
    <3>2. CASE e # d
      BY <2>1, <2>2, <3>2 DEF Paced
    <3>. QED
      BY <3>1, <3>2
  <2>. QED
    BY <2>4, <2>5
<1>. QED
  BY <1>1, <1>2

LEMMA TickKeepsPace ==
  ASSUME PaceInv, LimiterTick PROVE PaceInv'
<1>. USE DEF PaceInv, PaceTypeOK
<1>1. now' = now + 1 /\ UNCHANGED <<domainState, started>>
  BY DEF LimiterTick
<1>2. ASSUME NEW e \in Domains PROVE Paced(e)' /\ (e \notin known' => event'[e] = Never)
  BY <1>1 DEF Paced, domainState
<1>. QED
  BY <1>1, <1>2 DEF domainState

LEMMA StepKeepsPace ==
  ASSUME PaceInv, SlotInv, [Next]_vars PROVE PaceInv'
<1>1. ASSUME UNCHANGED <<now, domainState, started>> PROVE PaceInv'
  BY <1>1 DEF PaceInv, PaceTypeOK, Paced, domainState
<1>2. ASSUME NEW f \in Fetches, FetchStep(f) \/ CancelFetch(f) PROVE PaceInv'
  <2>1. CASE Learn(f) \/ Arrive(f)
    BY <2>1, LearnKeepsPace
  <2>2. CASE Enter(f) \/ Pace(f) \/ Awake(f)
    BY <2>2, ForgettingKeepsPace, DomainsOfFetches DEF Enter, Pace, Awake, domainState
  <2>3. CASE Start(f)
    BY <2>3, StartKeepsPace
  <2>4. CASE Answer(f) \/ CancelFetch(f)
    BY <2>4, ForgettingKeepsPace, DomainsOfFetches DEF Answer, CancelFetch, Leave
  <2>. QED
    BY <1>2, <2>1, <2>2, <2>3, <2>4 DEF FetchStep
<1>. QED
  BY <1>1, <1>2, TickKeepsPace DEF Next, Fetch, Extract, Abandon, Finished, vars, limiterVars

\* Two requests to a domain never start closer to each other than its
\* interval asks for, whatever the sizes and however its state was widened,
\* forgotten or evicted in between.
THEOREM PaceIsKept == Spec => PaceKept
<1>1. Init => PaceInv
  BY Bounds DEF Init, LimiterInit, PaceInv, PaceTypeOK, Paced, Never
<1>2. PaceInv /\ SlotInv /\ [Next]_vars => PaceInv'
  BY StepKeepsPace
<1>3. ASSUME PaceInv, [Next]_vars
      PROVE  [\A d \in Domains : started'[d] # started[d] =>
                 now >= started[d].at + started[d].interval]_limiterVars
  <2>1. ASSUME NEW d \in Domains, started'[d] # started[d]
        PROVE  now >= started[d].at + started[d].interval
    <3>1. PICK f \in Fetches : Start(f)
      BY <1>3, <2>1 DEF Next, Fetch, Extract, Abandon, Finished, vars, limiterVars,
         LimiterTick, FetchStep, Learn, Arrive, Enter, Pace, Awake, Answer, CancelFetch, Leave
    <3>2. d = DomainOf[f] /\ Expired(d)
      BY <1>3, <2>1, <3>1, DomainsOfFetches DEF Start, StillAdmits, PaceInv, PaceTypeOK
    <3>3. /\ event[d] <= now - interval[d] /\ Paced(d)
          /\ event[d] \in Int /\ now \in Nat /\ interval[d] \in Nat
          /\ started[d].at \in Int /\ started[d].interval \in Nat
      BY <1>3, <3>2 DEF Expired, PaceInv, PaceTypeOK
    <3>. QED
      BY <3>3 DEF Paced
  <2>. QED
    BY <2>1
<1>. QED
  BY <1>1, <1>2, <1>3, SlotInvariant, PTL DEF Spec, PaceKept
=============================================================================
