------------------------ MODULE JobSubmissionProofs ------------------------
(***************************************************************************)
(* For every set of requests and every scan limit: a key never has two     *)
(* live jobs.  The argument: generations are numbered without gaps and all *)
(* but the newest have ended, because a request only goes for the number   *)
(* after one it saw ended, and an ended job stays ended.  And nobody is    *)
(* answered with a run that was over before, unless a request was          *)
(* overtaken by a whole scan of later ones: what such an answer needs is a *)
(* newest generation that the order of the scan has put out of its reach.  *)
(***************************************************************************)
EXTENDS JobSubmission, FiniteSetTheorems, TLAPS

\* Below a generation every number is taken, by a job that has ended.
Contiguous ==
  \A g \in Generations : \A h \in Nat \ {0} :
    h < g => h \in Generations /\ ~Live(h)

\* The number a request is about to insert follows an ended generation.
FollowsAnEnded(n) ==
  /\ n \in Nat \ {0}
  /\ n = 1 \/ (n - 1 \in Generations /\ ~Live(n - 1))

Creators(r) == pc[r] = "answered" /\ created[r]

\* A request still in its loop has not used up its attempts.
TriesLeft ==
  \A r \in Requests :
    pc[r] \in {"new", "reading", "inserting"} => tries[r] < EnqueueAttempts

IInv ==
  /\ TypeOK
  /\ TriesLeft
  /\ Contiguous
  /\ \A r \in Requests : pc[r] = "inserting" => FollowsAnEnded(next[r])
  /\ \A r \in Requests : Creators(r) => answer[r] \in Generations
  /\ \A r, s \in Requests :
       Creators(r) /\ Creators(s) /\ answer[r] = answer[s] => r = s

\* The scan finds an existing generation, or none.
LEMMA LatestExists ==
  ASSUME NEW S \in Scans, NEW g, IsLatestOf(g, S)
  PROVE  g = 0 \/ g \in Generations
  BY DEF Scans, IsLatestOf

\* What the type invariant says of one row.
LEMMA GenerationTypes ==
  ASSUME TypeOK, NEW g \in Generations
  PROVE  g \in Nat \ {0} /\ rows[g] \in [live : BOOLEAN, created : Nat]
  BY DEF TypeOK

LEMMA InitIInv == Init => IInv
  BY SubmissionAssumption
     DEF Init, IInv, TypeOK, TriesLeft, Contiguous, FollowsAnEnded, Creators, Generations

\* A step that leaves the table alone and creates nothing only has to give
\* the request it moves a sound number to insert.
LEMMA TableUnchanged ==
  ASSUME IInv, NEW r \in Requests, UNCHANGED rows, TypeOK', TriesLeft',
         \A s \in Requests \ {r} : pc'[s] = pc[s] /\ next'[s] = next[s]
                                   /\ answer'[s] = answer[s]
                                   /\ created'[s] = created[s],
         pc'[r] = "inserting" => FollowsAnEnded(next'[r]),
         ~(pc'[r] = "answered" /\ created'[r])
  PROVE  IInv'
<1>1. Generations' = Generations /\ Contiguous'
  BY DEF IInv, Contiguous, Generations, Live
<1>2. \A s \in Requests : pc'[s] = "inserting" => FollowsAnEnded(next[s])'
  BY DEF IInv, FollowsAnEnded, Generations, Live
<1>3. \A s \in Requests : Creators(s)' => s # r /\ Creators(s) /\ answer'[s] = answer[s]
  BY DEF Creators
<1>. QED
  BY <1>1, <1>2, <1>3 DEF IInv

LEMMA ArriveStep ==
  ASSUME IInv, NEW r \in Requests, Arrive(r) PROVE IInv'
<1>1. TypeOK' /\ TriesLeft'
  BY DEF IInv, TypeOK, TriesLeft, Arrive, Generations
<1>. QED
  BY <1>1, TableUnchanged DEF IInv, TypeOK, Arrive

LEMMA ReadStep ==
  ASSUME IInv, NEW r \in Requests, Read(r) PROVE IInv'
<1>1. PICK S \in Scans, g \in Generations \cup {0} :
        /\ IsLatestOf(g, S)
        /\ \/ /\ MayJoin(g)
              /\ Return(r, g, FALSE)
              /\ atReturn' = [atReturn EXCEPT ![r] = Live(g)]
              /\ UNCHANGED next
           \/ /\ ~MayJoin(g)
              /\ pc' = [pc EXCEPT ![r] = "inserting"]
              /\ next' = [next EXCEPT ![r] = g + 1]
              /\ UNCHANGED <<clock, now, lapsed, answer, created, atReturn>>
  BY DEF Read
<1>2. UNCHANGED <<rows, tries>>
  BY DEF Read
<1>3. g \in Nat
  BY GenerationTypes DEF IInv
<1>4. CASE MayJoin(g) /\ Return(r, g, FALSE)
           /\ atReturn' = [atReturn EXCEPT ![r] = Live(g)] /\ UNCHANGED next
  <2>1. Live(g) = TRUE
    BY <1>1, <1>4 DEF MayJoin, IInv, TypeOK, Live
  <2>2. TypeOK' /\ TriesLeft'
    BY <1>2, <1>3, <1>4, <2>1 DEF IInv, TypeOK, TriesLeft, Return, Generations
  <2>. QED
    BY <1>2, <1>4, <2>2, TableUnchanged DEF IInv, TypeOK, Return
<1>5. CASE /\ ~MayJoin(g)
           /\ pc' = [pc EXCEPT ![r] = "inserting"]
           /\ next' = [next EXCEPT ![r] = g + 1]
           /\ UNCHANGED <<clock, now, lapsed, answer, created, atReturn>>
  <2>1. TypeOK'
    BY <1>2, <1>3, <1>5 DEF IInv, TypeOK, Generations
  <2>3. TriesLeft'
    BY <1>2, <1>5 DEF IInv, TypeOK, TriesLeft, Read
  <2>2. FollowsAnEnded(g + 1)
    BY <1>1, <1>3, <1>5 DEF MayJoin, FollowsAnEnded
  <2>. QED
    BY <1>2, <1>5, <2>1, <2>2, <2>3, TableUnchanged DEF IInv, TypeOK
<1>. QED
  BY <1>1, <1>4, <1>5

LEMMA CollideStep ==
  ASSUME IInv, NEW r \in Requests, Collide(r) PROVE IInv'
<1>1. TypeOK'
  BY SubmissionAssumption DEF IInv, TypeOK, TriesLeft, Collide, AttemptLeft, Generations
<1>2. TriesLeft'
  BY SubmissionAssumption DEF IInv, TypeOK, TriesLeft, Collide, AttemptLeft
<1>. QED
  BY <1>1, <1>2, TableUnchanged DEF IInv, TypeOK, Collide

LEMMA FallbackStep ==
  ASSUME IInv, NEW r \in Requests, Fallback(r) PROVE IInv'
<1>1. PICK g \in Generations :
        /\ Return(r, g, FALSE)
        /\ atReturn' = [atReturn EXCEPT ![r] = Live(g)]
  BY DEF Fallback
<1>2. g \in Nat /\ Live(g) \in BOOLEAN
  BY DEF IInv, TypeOK, Live
<1>3. TypeOK'
  BY <1>1, <1>2 DEF IInv, TypeOK, Fallback, Return, Generations
<1>4. TriesLeft'
  BY <1>1 DEF IInv, TypeOK, TriesLeft, Fallback, Return
<1>5. /\ pc'[r] = "answered" /\ created'[r] = FALSE /\ UNCHANGED rows
      /\ \A s \in Requests \ {r} : /\ pc'[s] = pc[s] /\ next'[s] = next[s]
                                  /\ answer'[s] = answer[s]
                                  /\ created'[s] = created[s]
  BY <1>1 DEF IInv, TypeOK, Fallback, Return
<1>. QED
  BY <1>3, <1>4, <1>5, TableUnchanged

\* What is inserted is newer than every generation there is.
LEMMA InsertedIsNewest ==
  ASSUME IInv, NEW r \in Requests, Insert(r)
  PROVE  \A g \in Generations : g < next[r]
<1>1. /\ next[r] \in Nat \ {0} /\ next[r] \notin Generations
      /\ FollowsAnEnded(next[r])
  BY DEF IInv, Insert, NumberFree, FollowsAnEnded
<1>2. ASSUME NEW g \in Generations, g > next[r] PROVE FALSE
  BY <1>1, <1>2 DEF IInv, Contiguous
<1>. QED
  BY <1>1, <1>2, GenerationTypes DEF IInv

\* The new generation is the newest: the one before it has ended, and so
\* have all before that.
LEMMA InsertStep ==
  ASSUME IInv, NEW r \in Requests, Insert(r) PROVE IInv'
<1>. DEFINE n == next[r]
<1>1. /\ n \in Nat \ {0} /\ n \notin Generations
      /\ FollowsAnEnded(n)
  BY DEF IInv, Insert, NumberFree, FollowsAnEnded
<1>2. /\ Generations' = Generations \cup {n}
      /\ rows'[n] = [live |-> TRUE, created |-> now[r]]
      /\ \A g \in Generations : rows'[g] = rows[g]
  BY <1>1 DEF Insert, Generations
<1>3. TypeOK'
  <2>1. now[r] \in Nat
    BY DEF IInv, TypeOK
  <2>2. \A g \in Generations' : rows'[g] \in [live : BOOLEAN, created : Nat]
    <3>1. [live |-> TRUE, created |-> now[r]] \in [live : BOOLEAN, created : Nat]
      BY <2>1
    <3>2. \A g \in Generations : rows'[g] \in [live : BOOLEAN, created : Nat]
      BY <1>2, GenerationTypes DEF IInv
    <3>. QED
      BY <1>2, <3>1, <3>2
  <2>. QED
    BY <1>1, <1>2, <2>2 DEF IInv, TypeOK, Insert, Return
<1>4. TriesLeft'
  BY DEF IInv, TypeOK, TriesLeft, Insert, Return
<1>5. \A g \in Generations : g < n
  BY InsertedIsNewest
<1>6. \A h \in Nat \ {0} : h < n => h \in Generations /\ ~Live(h)
  <2>1. SUFFICES ASSUME NEW h \in Nat \ {0}, h < n
                 PROVE  h \in Generations /\ ~Live(h)
    OBVIOUS
  <2>2. n - 1 \in Generations /\ ~Live(n - 1)
    BY <1>1, <2>1 DEF FollowsAnEnded
  <2>3. h = n - 1 \/ h < n - 1
    BY <1>1, <2>1
  <2>. QED
    BY <2>2, <2>3 DEF IInv, Contiguous
<1>7. Contiguous'
  BY <1>2, <1>5, <1>6 DEF IInv, Contiguous, Live
<1>8. \A s \in Requests : pc'[s] = "inserting" => FollowsAnEnded(next[s])'
  <2>1. \A s \in Requests : pc'[s] = "inserting" => pc[s] = "inserting"
    BY DEF IInv, TypeOK, Insert, Return
  <2>. QED
    BY <1>2, <2>1 DEF IInv, FollowsAnEnded, Live, Insert
<1>9. \A s \in Requests :
        Creators(s)' => \/ s = r /\ answer'[s] = n
                        \/ s # r /\ Creators(s) /\ answer'[s] = answer[s]
  BY DEF IInv, TypeOK, Creators, Insert, Return
<1>. QED
  BY <1>1, <1>2, <1>3, <1>4, <1>7, <1>8, <1>9 DEF IInv

LEMMA JobEndsStep ==
  ASSUME IInv, NEW g \in Generations, JobEnds(g) PROVE IInv'
<1>1. /\ Generations' = Generations
      /\ \A h \in Generations : Live(h)' => Live(h)
      /\ rows' \in [Generations -> [live : BOOLEAN, created : Nat]]
  BY DEF IInv, TypeOK, JobEnds, Generations, Live
<1>2. TypeOK' /\ TriesLeft'
  BY <1>1 DEF IInv, TypeOK, TriesLeft, JobEnds
<1>3. Contiguous'
  BY <1>1 DEF IInv, Contiguous
<1>4. \A s \in Requests : pc'[s] = "inserting" => FollowsAnEnded(next[s])'
  BY <1>1 DEF IInv, FollowsAnEnded, JobEnds
<1>. QED
  BY <1>1, <1>2, <1>3, <1>4 DEF IInv, Creators, JobEnds

\* The strengthened invariant holds in every reachable state.
THEOREM SubmissionInvariant == Spec => []IInv
<1>1. ASSUME IInv, [Next]_vars PROVE IInv'
  <2>1. CASE \E r \in Requests : Enqueue(r)
    BY <1>1, <2>1, ArriveStep, ReadStep, InsertStep, CollideStep, FallbackStep
       DEF Enqueue
  <2>2. CASE \E g \in Generations : JobEnds(g)
    BY <1>1, <2>2, JobEndsStep
  <2>3. CASE UNCHANGED vars
    BY <1>1, <2>3
       DEF vars, IInv, TypeOK, TriesLeft, Contiguous, FollowsAnEnded, Creators,
           Generations, Live
  <2>. QED
    BY <1>1, <2>1, <2>2, <2>3 DEF Next
<1>. QED
  BY <1>1, InitIInv, PTL DEF Spec

\* However many requests race and whatever the scan limit, a key never has
\* two live jobs and nobody is told twice that they created one.
THEOREM OneLiveJob == Spec => []OneLiveJobPerKey
<1>1. IInv => OneLiveJobPerKey
  <2>1. SUFFICES ASSUME IInv PROVE OneLiveJobPerKey
    OBVIOUS
  <2>2. ASSUME NEW g \in Generations, NEW h \in Generations, Live(g), Live(h)
        PROVE  g = h
    <3>1. g \in Nat \ {0} /\ h \in Nat \ {0}
      BY <2>1, GenerationTypes DEF IInv
    <3>2. ~(g < h) /\ ~(h < g)
      BY <2>1, <2>2, <3>1 DEF IInv, Contiguous
    <3>. QED
      BY <3>1, <3>2
  <2>. QED
    BY <2>1, <2>2 DEF OneLiveJobPerKey, IInv, Creators
<1>. QED
  BY <1>1, SubmissionInvariant, PTL

\* Every variable has its type, and no request inserts more often than
\* _ENQUEUE_ATTEMPTS allows.
THEOREM TypeCorrect == Spec => []TypeOK
<1>1. IInv => TypeOK
  BY DEF IInv
<1>. QED
  BY <1>1, SubmissionInvariant, PTL

---------------------------------------------------------------------------
(* What a request is answered with.  As long as nobody was overtaken by a  *)
(* whole scan of runs, the newest generation is among the rows a scan      *)
(* returns, however many the key has; and it is newer than every run that  *)
(* had ended when the request arrived as soon as one of the request's      *)
(* inserts has collided.                                                   *)

\* There is a newest generation, unless there is none.
Newest(m) == \A h \in Generations : h <= m

Bounded ==
  /\ IsFiniteSet(Generations)
  /\ Generations # {} => \E m \in Generations : Newest(m)

\* A run a request found ended stays ended and is older than any other.
LapsedAreOld(r) ==
  /\ lapsed[r] \subseteq Generations
  /\ \A h \in lapsed[r] : ~Live(h)
  /\ \A h \in lapsed[r], g \in Generations \ lapsed[r] : h < g

\* What a collision tells: there is a run that had not ended.
Collided(r) == Generations \ lapsed[r] # {}

Freshness(r) ==
  /\ pc[r] # "new" => LapsedAreOld(r)
  /\ pc[r] = "inserting" => next[r] \notin lapsed[r]
  /\ pc[r] = "fallback" => Collided(r)
  /\ pc[r] = "answered" => answer[r] \in Generations \ lapsed[r]

FreshInv == NobodyOvertakenByAScan => \A r \in Requests : Freshness(r)

\* A scan that left out the newest generation would be full of runs that
\* overtook it.
LEMMA NewestIsScanned ==
  ASSUME IInv, Bounded, NobodyOvertakenByAScan, NEW S \in Scans,
         NEW m \in Generations, Newest(m)
  PROVE  m \in S
<1>1. SUFFICES ASSUME m \notin S PROVE FALSE
  OBVIOUS
<1>2. S \subseteq Generations /\ Cardinality(S) = GenerationScan
  BY <1>1 DEF Scans
<1>3. S \subseteq Overtook(m)
  <2>1. SUFFICES ASSUME NEW h \in S PROVE h < m /\ rows[h].created >= rows[m].created
    BY <1>2 DEF Overtook
  <2>2. h \in Nat /\ m \in Nat /\ h <= m /\ h # m
    BY <1>1, <1>2, GenerationTypes DEF IInv, Newest
  <2>. QED
    BY <1>1, <2>2 DEF Scans
<1>4. IsFiniteSet(Overtook(m)) /\ Cardinality(Overtook(m)) < GenerationScan
  <2>1. Overtook(m) \subseteq Generations
    BY DEF Overtook
  <2>. QED
    BY <2>1, FS_Subset DEF Bounded, NobodyOvertakenByAScan
<1>5. Cardinality(S) <= Cardinality(Overtook(m)) /\ Cardinality(Overtook(m)) \in Nat
  BY <1>3, <1>4, FS_Subset, FS_CardinalityType
<1>. QED
  BY <1>2, <1>4, <1>5, SubmissionAssumption

\* The highest generation a request reads is the newest there is.
LEMMA LatestIsNewest ==
  ASSUME IInv, Bounded, NobodyOvertakenByAScan,
         NEW S \in Scans, NEW g \in Generations \cup {0}, IsLatestOf(g, S)
  PROVE  /\ g \in Nat /\ g + 1 \notin Generations
         /\ Generations # {} => g \in Generations
         /\ \A h \in Generations : h <= g
<1>1. \A h \in Generations : h \in Nat \ {0}
  BY GenerationTypes DEF IInv
<1>2. CASE Generations = {}
  BY <1>2
<1>3. CASE Generations # {}
  <2>1. PICK m \in Generations : Newest(m)
    BY <1>3 DEF Bounded
  <2>2. m \in S
    BY <2>1, NewestIsScanned
  <2>3. g \in S /\ m <= g /\ S \subseteq Generations
    BY <2>2 DEF IsLatestOf, Scans
  <2>4. g = m
    BY <1>1, <2>1, <2>3 DEF Newest
  <2>. QED
    BY <1>1, <2>1, <2>4 DEF Newest
<1>. QED
  BY <1>2, <1>3

\* A step that keeps the rows, and the place of everybody but one request.
LEMMA OthersStayFresh ==
  ASSUME NEW r \in Requests, FreshInv, NobodyOvertakenByAScan, UNCHANGED rows,
         Freshness(r)',
         \A s \in Requests \ {r} : /\ pc'[s] = pc[s] /\ next'[s] = next[s]
                                   /\ answer'[s] = answer[s] /\ lapsed'[s] = lapsed[s]
  PROVE  FreshInv'
<1>1. SUFFICES ASSUME NEW s \in Requests \ {r} PROVE Freshness(s)'
  BY DEF FreshInv
<1>2. Freshness(s) /\ Generations' = Generations /\ \A h : Live(h)' = Live(h)
  BY DEF FreshInv, Generations, Live
<1>. QED
  BY <1>2 DEF Freshness, LapsedAreOld, Collided

LEMMA ArriveStaysFresh ==
  ASSUME IInv, FreshInv, Bounded, NobodyOvertakenByAScan,
         NEW r \in Requests, Arrive(r)
  PROVE  FreshInv'
<1>1. /\ Generations' = Generations /\ \A h : Live(h)' = Live(h)
      /\ pc'[r] = "reading" /\ lapsed'[r] = {g \in Generations : ~Live(g)}
  BY DEF Arrive, IInv, TypeOK, Generations, Live
<1>2. \A h \in lapsed'[r], g \in Generations \ lapsed'[r] : h < g
  <2>1. SUFFICES ASSUME NEW h \in lapsed'[r], NEW g \in Generations \ lapsed'[r]
                 PROVE  h < g
    OBVIOUS
  <2>2. h \in Nat \ {0} /\ g \in Nat \ {0}
    BY <1>1, <2>1, GenerationTypes DEF IInv
  <2>3. Live(g) /\ ~Live(h) /\ h \in Generations
    BY <1>1, <2>1
  <2>4. ~(g < h)
    BY <2>2, <2>3 DEF IInv, Contiguous
  <2>5. g # h
    BY <2>3
  <2>. QED
    BY <2>2, <2>4, <2>5
<1>3. Freshness(r)'
  BY <1>1, <1>2 DEF Freshness, LapsedAreOld
<1>. QED
  BY <1>3, OthersStayFresh DEF Arrive, IInv, TypeOK

LEMMA ReadStaysFresh ==
  ASSUME IInv, FreshInv, Bounded, NobodyOvertakenByAScan,
         NEW r \in Requests, Read(r)
  PROVE  FreshInv'
<1>1. PICK S \in Scans, g \in Generations \cup {0} :
        /\ IsLatestOf(g, S)
        /\ \/ /\ MayJoin(g)
              /\ Return(r, g, FALSE)
              /\ UNCHANGED next
           \/ /\ pc' = [pc EXCEPT ![r] = "inserting"]
              /\ next' = [next EXCEPT ![r] = g + 1]
              /\ UNCHANGED <<clock, now, lapsed, answer, created>>
  BY DEF Read
<1>2. UNCHANGED rows /\ Generations' = Generations /\ \A h : Live(h)' = Live(h)
  BY DEF Read, Generations, Live
<1>3. Freshness(r) /\ pc[r] = "reading"
  BY DEF FreshInv, Read
<1>4. lapsed' = lapsed /\ LapsedAreOld(r) /\ LapsedAreOld(r)'
  BY <1>1, <1>2, <1>3 DEF Return, Freshness, LapsedAreOld
<1>5. Freshness(r)'
  <2>1. CASE MayJoin(g) /\ Return(r, g, FALSE)
    <3>1. g \in Generations \ lapsed[r]
      BY <1>4, <2>1, GenerationTypes DEF MayJoin, LapsedAreOld
    <3>. QED
      BY <1>2, <1>4, <2>1, <3>1 DEF Freshness, Return, IInv, TypeOK
  <2>2. CASE pc' = [pc EXCEPT ![r] = "inserting"] /\ next' = [next EXCEPT ![r] = g + 1]
    <3>1. g + 1 \notin lapsed[r]
      BY <1>1, <1>4, LatestIsNewest DEF LapsedAreOld
    <3>. QED
      BY <1>4, <2>2, <3>1 DEF Freshness, IInv, TypeOK
  <2>. QED
    BY <1>1, <2>1, <2>2
<1>. QED
  BY <1>1, <1>2, <1>4, <1>5, OthersStayFresh DEF Return, IInv, TypeOK

LEMMA CollideStaysFresh ==
  ASSUME IInv, FreshInv, Bounded, NobodyOvertakenByAScan,
         NEW r \in Requests, Collide(r)
  PROVE  FreshInv'
<1>1. Freshness(r) /\ pc[r] = "inserting" /\ next[r] \in Generations
  BY DEF FreshInv, Collide, NumberFree
<1>2. UNCHANGED <<rows, lapsed>> /\ Generations' = Generations
      /\ \A h : Live(h)' = Live(h)
  BY DEF Collide, Generations, Live
<1>3. LapsedAreOld(r)' /\ Collided(r)'
  BY <1>1, <1>2 DEF Freshness, LapsedAreOld, Collided
<1>4. Freshness(r)'
  BY <1>3 DEF Freshness, Collide, IInv, TypeOK
<1>. QED
  BY <1>4, OthersStayFresh DEF Collide, IInv, TypeOK

LEMMA FallbackStaysFresh ==
  ASSUME IInv, FreshInv, Bounded, NobodyOvertakenByAScan,
         NEW r \in Requests, Fallback(r)
  PROVE  FreshInv'
<1>1. PICK S \in Scans, g \in Generations : IsLatestOf(g, S) /\ Return(r, g, FALSE)
  BY DEF Fallback
<1>2. UNCHANGED <<rows, lapsed, next>> /\ Generations' = Generations
      /\ \A h : Live(h)' = Live(h)
  BY <1>1 DEF Fallback, Return, Generations, Live
<1>3. Freshness(r) /\ LapsedAreOld(r) /\ Collided(r)
  BY DEF FreshInv, Freshness, Fallback
<1>4. PICK h \in Generations : h \notin lapsed[r]
  BY <1>3 DEF Collided
<1>5. g \notin lapsed[r]
  <2>1. SUFFICES ASSUME g \in lapsed[r] PROVE FALSE
    OBVIOUS
  <2>2. g < h /\ h <= g
    BY <1>1, <1>3, <1>4, <2>1, LatestIsNewest DEF LapsedAreOld
  <2>3. g \in Nat /\ h \in Nat
    BY <1>1, <1>4, GenerationTypes DEF IInv
  <2>. QED
    BY <2>2, <2>3
<1>6. Freshness(r)'
  BY <1>1, <1>2, <1>3, <1>5 DEF Freshness, LapsedAreOld, Return, IInv, TypeOK
<1>. QED
  BY <1>1, <1>2, <1>6, OthersStayFresh DEF Return, IInv, TypeOK

LEMMA InsertStaysFresh ==
  ASSUME IInv, FreshInv, Bounded, NobodyOvertakenByAScan,
         NEW r \in Requests, Insert(r)
  PROVE  FreshInv'
<1>1. /\ Generations' = Generations \cup {next[r]} /\ lapsed' = lapsed /\ next' = next
      /\ \A g \in Generations : rows'[g] = rows[g]
      /\ pc' = [pc EXCEPT ![r] = "answered"]
      /\ answer' = [answer EXCEPT ![r] = next[r]]
  <2>1. next[r] \notin Generations
    BY DEF Insert, NumberFree
  <2>2. Generations' = Generations \cup {next[r]}
    BY DEF Insert, Generations
  <2>3. \A g \in Generations : rows'[g] = rows[g]
    BY <2>1 DEF Insert
  <2>. QED
    BY <2>2, <2>3 DEF Insert, Return
<1>2. ASSUME NEW s \in Requests, pc[s] # "new" PROVE LapsedAreOld(s)'
  <2>1. LapsedAreOld(s)
    BY <1>2 DEF FreshInv, Freshness
  <2>2. \A h \in lapsed[s] : h < next[r]
    BY <2>1, InsertedIsNewest DEF LapsedAreOld
  <2>. QED
    BY <1>1, <2>1, <2>2 DEF LapsedAreOld, Live
<1>3. pc[r] = "inserting" /\ next[r] \notin lapsed[r]
  BY DEF Insert, FreshInv, Freshness
<1>4. Freshness(r)'
  BY <1>1, <1>2, <1>3 DEF Freshness, IInv, TypeOK
<1>5. ASSUME NEW s \in Requests \ {r} PROVE Freshness(s)'
  <2>1. Freshness(s) /\ pc'[s] = pc[s] /\ answer'[s] = answer[s]
    BY <1>1 DEF FreshInv, IInv, TypeOK
  <2>. QED
    BY <1>1, <1>2, <2>1 DEF Freshness, Collided
<1>. QED
  BY <1>4, <1>5 DEF FreshInv

LEMMA JobEndsStaysFresh ==
  ASSUME IInv, FreshInv, Bounded, NobodyOvertakenByAScan,
         NEW g \in Generations, JobEnds(g)
  PROVE  FreshInv'
<1>1. /\ Generations' = Generations /\ UNCHANGED <<pc, next, answer, lapsed>>
      /\ \A h \in Generations : Live(h)' => Live(h)
  BY DEF IInv, TypeOK, JobEnds, Generations, Live
<1>2. SUFFICES ASSUME NEW s \in Requests PROVE Freshness(s)'
  BY DEF FreshInv
<1>3. Freshness(s)
  BY DEF FreshInv
<1>. QED
  BY <1>1, <1>3 DEF Freshness, LapsedAreOld, Collided

LEMMA BoundedStep ==
  ASSUME IInv, Bounded, [Next]_vars PROVE Bounded'
<1>1. ASSUME NEW r \in Requests, Insert(r) PROVE Bounded'
  <2>1. Generations' = Generations \cup {next[r]}
    BY <1>1 DEF Insert, Generations
  <2>2. next[r] \in Nat /\ \A g \in Generations : g < next[r] /\ g \in Nat
    BY <1>1, InsertedIsNewest, GenerationTypes DEF IInv, TypeOK
  <2>3. Newest(next[r])'
    BY <1>1, <2>1, <2>2 DEF Newest, Insert
  <2>4. IsFiniteSet(Generations')
    BY <2>1, FS_AddElement DEF Bounded
  <2>5. \E m \in Generations' : Newest(m)'
    <3>1. next' = next
      BY <1>1 DEF Insert
    <3>. QED
      BY <2>1, <2>3, <3>1 DEF Newest
  <2>. QED
    BY <2>4, <2>5 DEF Bounded
<1>2. ASSUME NEW g \in Generations, JobEnds(g) PROVE Generations' = Generations
  BY <1>2 DEF JobEnds, Generations
<1>3. ASSUME UNCHANGED rows PROVE Generations' = Generations
  BY <1>3 DEF Generations
<1>. QED
  BY <1>1, <1>2, <1>3
     DEF Bounded, Newest, Next, Enqueue, Arrive, Read, Collide, Fallback, vars

\* Rows are never deleted and keep their number and their date.
LEMMA OvertakingStays ==
  ASSUME IInv, Bounded, [Next]_vars, NobodyOvertakenByAScan'
  PROVE  NobodyOvertakenByAScan
<1>1. Bounded'
  BY BoundedStep
<1>2. /\ Generations \subseteq Generations'
      /\ \A g \in Generations : rows'[g].created = rows[g].created
  <2>1. ASSUME NEW r \in Requests, Insert(r)
        PROVE  /\ Generations \subseteq Generations'
               /\ \A g \in Generations : rows'[g].created = rows[g].created
    BY <2>1 DEF Insert, NumberFree, Generations
  <2>2. ASSUME NEW g \in Generations, JobEnds(g)
        PROVE  /\ Generations' = Generations
               /\ \A h \in Generations : rows'[h].created = rows[h].created
    <3>1. \A h \in Generations : rows[h] \in [live : BOOLEAN, created : Nat]
      BY GenerationTypes DEF IInv
    <3>. QED
      BY <2>2, <3>1 DEF JobEnds, Generations
  <2>3. ASSUME UNCHANGED rows PROVE Generations' = Generations
    BY <2>3 DEF Generations
  <2>. QED
    BY <2>1, <2>2, <2>3 DEF Next, Enqueue, Arrive, Read, Collide, Fallback, vars
<1>3. SUFFICES ASSUME NEW g \in Generations
               PROVE  Cardinality(Overtook(g)) < GenerationScan
  BY DEF NobodyOvertakenByAScan
<1>4. Overtook(g) \subseteq Overtook(g)'
  BY <1>2 DEF Overtook
<1>5. IsFiniteSet(Overtook(g)')
  <2>1. Overtook(g)' \subseteq Generations'
    BY DEF Overtook
  <2>. QED
    BY <1>1, <2>1, FS_Subset DEF Bounded
<1>6. Cardinality(Overtook(g)') < GenerationScan
  BY <1>2 DEF NobodyOvertakenByAScan
<1>7. /\ Cardinality(Overtook(g)) <= Cardinality(Overtook(g)')
      /\ Cardinality(Overtook(g)) \in Nat /\ Cardinality(Overtook(g)') \in Nat
  BY <1>4, <1>5, FS_Subset, FS_CardinalityType
<1>. QED
  BY <1>6, <1>7, SubmissionAssumption

\* However many runs the key has had, of which a scan returns the last few
\* by created_at: as long as no request was overtaken by a whole scan of
\* later ones, nobody is answered with a run that had ended before.  (With a
\* request that was, somebody may be: created_at does not order the rows as
\* their numbers do.)
THEOREM NeverOld == Spec => []NeverAnsweredWithAnOldRun
<1>1. Init => FreshInv /\ Bounded
  BY FS_EmptySet DEF Init, FreshInv, Freshness, Bounded, Generations
<1>2. ASSUME IInv, Bounded, FreshInv, [Next]_vars PROVE FreshInv'
  <2>1. SUFFICES ASSUME NobodyOvertakenByAScan' PROVE FreshInv'
    BY DEF FreshInv
  <2>2. NobodyOvertakenByAScan
    BY <1>2, <2>1, OvertakingStays
  <2>3. CASE \E r \in Requests : Enqueue(r)
    BY <1>2, <2>2, <2>3, ArriveStaysFresh, ReadStaysFresh, InsertStaysFresh,
       CollideStaysFresh, FallbackStaysFresh DEF Enqueue
  <2>4. CASE \E g \in Generations : JobEnds(g)
    BY <1>2, <2>2, <2>4, JobEndsStaysFresh
  <2>5. CASE UNCHANGED vars
    BY <1>2, <2>2, <2>5
       DEF vars, FreshInv, Freshness, LapsedAreOld, Collided, Generations, Live
  <2>. QED
    BY <1>2, <2>3, <2>4, <2>5 DEF Next
<1>3. FreshInv => NeverAnsweredWithAnOldRun
  BY DEF FreshInv, Freshness, NeverAnsweredWithAnOldRun
<1>. QED
  BY <1>1, <1>2, <1>3, BoundedStep, SubmissionInvariant, PTL DEF Spec
=============================================================================
