--------------------------- MODULE JobSubmission ---------------------------
(***************************************************************************)
(* Concurrent submissions under one idempotency base key                   *)
(* (JobStore.enqueue).  Rows of the key are its generations base#1,        *)
(* base#2, ...; a request joins the live generation or inserts the next    *)
(* one, with the unique constraint as the arbiter.  What happens to a row  *)
(* between its insertion and its end is JobQueue's subject: here a row is  *)
(* live (pending or running) or ended.  Keys are independent of each other.*)
(***************************************************************************)
EXTENDS Integers, FiniteSets

CONSTANTS
  Requests,        \* calls of enqueue for the key
  EnqueueAttempts, \* _ENQUEUE_ATTEMPTS, 2
  GenerationScan   \* _GENERATION_SCAN, 25

ASSUME SubmissionAssumption ==
  /\ EnqueueAttempts \in Nat \ {0}
  /\ GenerationScan \in Nat \ {0}

VARIABLES
  rows,      \* generation |-> [live, created], for the generations that exist
  clock,     \* requests that have arrived: the clock `now` is read from
  pc,        \* where each request is
  now,       \* the request's `now`, read once, before its loop
  tries,     \* inserts that collided
  next,      \* the generation the request is about to insert
  answer,    \* the generation it returned
  created,   \* the flag it returned
  lapsed,    \* generations that had ended when the request arrived
  atReturn   \* whether the returned view was live

vars == <<rows, clock, pc, now, tries, next, answer, created, lapsed, atReturn>>

Generations == DOMAIN rows

Live(g) == rows[g].live

Init ==
  /\ rows = [g \in {} |-> [live |-> TRUE, created |-> 0]]
  /\ clock = 0
  /\ pc = [r \in Requests |-> "new"]
  /\ now = [r \in Requests |-> 0]
  /\ tries = [r \in Requests |-> 0]
  /\ next = [r \in Requests |-> 0]
  /\ answer = [r \in Requests |-> 0]
  /\ created = [r \in Requests |-> FALSE]
  /\ lapsed = [r \in Requests |-> {}]
  /\ atReturn = [r \in Requests |-> TRUE]

Arrive(r) ==
  /\ pc[r] = "new"
  /\ pc' = [pc EXCEPT ![r] = "reading"]
  /\ clock' = clock + 1
  /\ now' = [now EXCEPT ![r] = clock']
  /\ lapsed' = [lapsed EXCEPT ![r] = {g \in Generations : ~Live(g)}]
  /\ UNCHANGED <<rows, tries, next, answer, created, atReturn>>

---------------------------------------------------------------------------
\* The rows the scan may return: the newest ones by created_at, in any order
\* where that ties.
Scans ==
  {S \in SUBSET Generations :
     /\ Cardinality(S) <= GenerationScan
     /\ S # Generations => Cardinality(S) = GenerationScan
     /\ \A g \in S, h \in Generations \ S : rows[g].created >= rows[h].created}

\* Mutant: the row created last is taken for the newest generation.
IsLatestCreatedOf(g, S) ==
  IF S = {} THEN g = 0
  ELSE g \in S /\ \A h \in S : rows[h].created <= rows[g].created

\* The highest generation of a scan; 0 when the key has no row.
IsLatestOf(g, S) ==
  IF S = {} THEN g = 0 ELSE g \in S /\ \A h \in S : h <= g

Return(r, g, new) ==
  /\ pc' = [pc EXCEPT ![r] = "answered"]
  /\ answer' = [answer EXCEPT ![r] = g]
  /\ created' = [created EXCEPT ![r] = new]
  /\ UNCHANGED <<clock, now, lapsed>>

\* Mutant: whatever generation is found is joined.
MayJoinAny(g) == g # 0

\* A job is joined only while it is not terminal.
MayJoin(g) == g # 0 /\ Live(g)

\* Read, and join the live generation or choose the next number.
Read(r) ==
  /\ pc[r] = "reading"
  /\ \E S \in Scans, g \in Generations \cup {0} :
       /\ IsLatestOf(g, S)
       /\ \/ /\ MayJoin(g)
             /\ Return(r, g, FALSE)
             /\ atReturn' = [atReturn EXCEPT ![r] = Live(g)]
             /\ UNCHANGED next
          \/ /\ ~MayJoin(g)
             /\ pc' = [pc EXCEPT ![r] = "inserting"]
             /\ next' = [next EXCEPT ![r] = g + 1]
             /\ UNCHANGED <<clock, now, lapsed, answer, created, atReturn>>
  /\ UNCHANGED <<rows, tries>>

\* Mutant: the insert replaces a row that took the number.
NumberFreeIgnored(g) == TRUE

\* The unique constraint on idempotency_key.
NumberFree(g) == g \notin Generations

Insert(r) ==
  /\ pc[r] = "inserting"
  /\ NumberFree(next[r])
  /\ rows' = [g \in Generations \cup {next[r]} |->
                IF g = next[r] THEN [live |-> TRUE, created |-> now[r]]
                               ELSE rows[g]]
  /\ Return(r, next[r], TRUE)
  /\ UNCHANGED <<tries, next, atReturn>>

AttemptLeft(r) == tries[r] + 1 < EnqueueAttempts

\* IntegrityError: read again, or give up on inserting.
Collide(r) ==
  /\ pc[r] = "inserting"
  /\ ~NumberFree(next[r])
  /\ tries' = [tries EXCEPT ![r] = @ + 1]
  /\ pc' = [pc EXCEPT ![r] =
              IF AttemptLeft(r) THEN "reading" ELSE "fallback"]
  /\ UNCHANGED <<rows, clock, now, next, answer, created, lapsed, atReturn>>

\* Every attempt collided: whatever is newest now is the answer.
Fallback(r) ==
  /\ pc[r] = "fallback"
  /\ \E S \in Scans, g \in Generations :
       /\ IsLatestOf(g, S)
       /\ Return(r, g, FALSE)
       /\ atReturn' = [atReturn EXCEPT ![r] = Live(g)]
  /\ UNCHANGED <<rows, tries, next>>

\* A worker, or a cancel request, ends the job.
JobEnds(g) ==
  /\ Live(g)
  /\ rows' = [rows EXCEPT ![g].live = FALSE]
  /\ UNCHANGED <<clock, pc, now, tries, next, answer, created, lapsed, atReturn>>

Enqueue(r) == Arrive(r) \/ Read(r) \/ Insert(r) \/ Collide(r) \/ Fallback(r)

Next == (\E r \in Requests : Enqueue(r)) \/ (\E g \in Generations : JobEnds(g))

Spec == Init /\ [][Next]_vars

---------------------------------------------------------------------------
(* Properties *)

\* Every variable has its type; no request inserts more often than allowed.
TypeOK ==
  /\ Generations \subseteq Nat \ {0}
  /\ \A g \in Generations : rows[g] \in [live : BOOLEAN, created : Nat]
  /\ clock \in Nat
  /\ pc \in [Requests -> {"new", "reading", "inserting", "fallback", "answered"}]
  /\ now \in [Requests -> Nat]
  /\ tries \in [Requests -> 0 .. EnqueueAttempts]
  /\ next \in [Requests -> Nat]
  /\ answer \in [Requests -> Nat]
  /\ created \in [Requests -> BOOLEAN]
  /\ lapsed \in [Requests -> SUBSET (Nat \ {0})]
  /\ atReturn \in [Requests -> BOOLEAN]

\* However many requests race, a key never has two live jobs, and one request
\* at most is told that it created a given job, so that one caller at most
\* schedules it (enqueue and the unique constraint).
OneLiveJobPerKey ==
  /\ \A g, h \in Generations : Live(g) /\ Live(h) => g = h
  /\ \A r, s \in Requests :
       /\ pc[r] = "answered" /\ created[r]
       /\ pc[s] = "answered" /\ created[s]
       /\ answer[r] = answer[s]
       => r = s

\* The runs asked for after g was, and created before it: those that overtook
\* the request for g between its arrival and its insert.
Overtook(g) == {h \in Generations : h < g /\ rows[h].created >= rows[g].created}

\* Nobody was overtaken by as many runs as a scan returns rows.
NobodyOvertakenByAScan ==
  \A g \in Generations : Cardinality(Overtook(g)) < GenerationScan

\* A request is never answered with a run that had already ended when it was
\* made: what it gets was at work at some time since, even when every insert
\* of it collided and however many runs the scan leaves out, unless some
\* request slept while a whole scan of later ones came and went (enqueue, the
\* re-read, the fallback and the order of _latest_generation).
NeverAnsweredWithAnOldRun ==
  NobodyOvertakenByAScan =>
    \A r \in Requests :
      pc[r] = "answered" => answer[r] \in Generations \ lapsed[r]
=============================================================================
