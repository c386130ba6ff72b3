----------------------------- MODULE WebLimiter -----------------------------
(***************************************************************************)
(* OpenWebLimiter (web_research/limiter.py): the pacing and concurrency of *)
(* open-web requests.  A fetch learns the Crawl-delay of its site, then    *)
(* makes its requests (robots.txt, hops, a retry), each inside a slot:     *)
(* the domain's semaphore, the wait for its window WITHOUT a global slot,  *)
(* the global slot, the second look at the window, the request.  A fetch   *)
(* may be cancelled at every await.                                        *)
(*                                                                         *)
(* Time is discrete and passes when nobody can go on without it.           *)
(***************************************************************************)
EXTENDS Integers, FiniteSets

CONSTANTS
  Fetches,
  Domains,
  DomainOf,      \* fetch |-> registrable domain
  CrawlDelay,    \* fetch |-> what its origin's robots.txt asks for, 0 for nothing
  PerHost, Global,        \* concurrency per domain and of the process
  MinInterval, MaxDelay,  \* MIN_INTERVAL_SECONDS, MAX_CRAWL_DELAY_SECONDS
  MaxDomains,    \* _MAX_DOMAINS
  MaxRequests,   \* bound: fetch |-> its requests
  MaxRequest,    \* bound: how long a request takes
  LastArrival    \* bound: fetch |-> its latest arrival

ASSUME LimiterAssumption ==
  /\ IsFiniteSet(Fetches)
  /\ DomainOf \in [Fetches -> Domains]
  /\ CrawlDelay \in [Fetches -> Nat]
  /\ {PerHost, Global, MinInterval, MaxDelay, MaxDomains, MaxRequest} \subseteq Nat \ {0}
  /\ MinInterval <= MaxDelay
  /\ MaxRequests \in [Fetches -> Nat] /\ LastArrival \in [Fetches -> Nat]

VARIABLES
  now,
  known,     \* the domains of _domains
  interval,  \* domain |-> window.per_seconds
  event,     \* domain |-> the start its window remembers, Never
  lastUsed,  \* domain |-> last_used
  inFlight,  \* domain |-> in_flight
  hostFree,  \* domain |-> permits of its semaphore
  globalFree,\* permits of the global semaphore
  at,        \* fetch |-> idle, ready, enter, pace, sleep, global, request, ended
  wake,      \* fetch |-> when its sleep ends, or its request at the latest
  requests,  \* fetch |-> requests made
  started    \* history: domain |-> its last start and the interval then in force

domainState == <<known, interval, event, lastUsed, inFlight, hostFree>>
limiterVars == <<now, domainState, globalFree, at, wake, requests, started>>

Never == -MaxDelay - 1    \* before any time: None, and last_used = 0.0
Larger(m, n) == IF m >= n THEN m ELSE n
Sooner(m, n) == IF m <= n THEN m ELSE n

LimiterInit ==
  /\ now = 0 /\ known = {}
  /\ interval = [d \in Domains |-> MinInterval]
  /\ event = [d \in Domains |-> Never] /\ lastUsed = [d \in Domains |-> Never]
  /\ inFlight = [d \in Domains |-> 0] /\ hostFree = [d \in Domains |-> PerHost]
  /\ globalFree = Global
  /\ at = [f \in Fetches |-> "idle"]
  /\ wake = [f \in Fetches |-> 0] /\ requests = [f \in Fetches |-> 0]
  /\ started = [d \in Domains |-> [at |-> Never, interval |-> 0]]

---------------------------------------------------------------------------
\* A state nobody uses and whose window no pace can need any more
Idle(d) == inFlight[d] = 0 /\ now - lastUsed[d] > MaxDelay

(* _state: a new domain's state, when there are too many after the idle     *)
(* ones were dropped.  `fresh` are the domains whose state starts over.     *)
State(d, evicted) ==
  /\ evicted = IF d \in known \/ Cardinality(known) < MaxDomains THEN {}
               ELSE {e \in known : Idle(e)}
  /\ known' = (known \ evicted) \cup {d}

Fresh(d, evicted) == evicted \cup ({d} \ known)

\* set_crawl_delay: clamped, and it never narrows
Widened(current, delay) ==
  IF delay = 0 THEN current
  ELSE Larger(current, Larger(MinInterval, Sooner(delay, MaxDelay)))

Learn(f) ==
  LET d == DomainOf[f] IN
  /\ at[f] = "idle"
  /\ \E evicted \in SUBSET known :
       /\ State(d, evicted)
       /\ interval' = [e \in Domains |->
            LET kept == IF e \in Fresh(d, evicted) THEN MinInterval ELSE interval[e] IN
            IF e = d THEN Widened(kept, CrawlDelay[f]) ELSE kept]
       /\ event' = [e \in Domains |-> IF e \in Fresh(d, evicted) THEN Never ELSE event[e]]
       /\ lastUsed' = [e \in Domains |-> IF e \in Fresh(d, evicted) THEN Never ELSE lastUsed[e]]
  /\ at' = [at EXCEPT ![f] = "ready"]
  /\ UNCHANGED <<now, inFlight, hostFree, globalFree, wake, requests, started>>

(* slot, up to the wait for the domain's semaphore *)
Arrive(f) ==
  LET d == DomainOf[f] IN
  /\ at[f] = "ready"
  /\ \E evicted \in SUBSET known :
       /\ State(d, evicted)
       /\ interval' = [e \in Domains |->
            IF e \in Fresh(d, evicted) THEN MinInterval ELSE interval[e]]
       /\ event' = [e \in Domains |-> IF e \in Fresh(d, evicted) THEN Never ELSE event[e]]
       /\ lastUsed' = [e \in Domains |-> IF e \in Fresh(d, evicted) THEN Never ELSE lastUsed[e]]
  /\ inFlight' = [inFlight EXCEPT ![d] = @ + 1]
  /\ at' = [at EXCEPT ![f] = "enter"]
  /\ UNCHANGED <<now, hostFree, globalFree, wake, requests, started>>

Enter(f) ==
  /\ at[f] = "enter" /\ hostFree[DomainOf[f]] > 0
  /\ hostFree' = [hostFree EXCEPT ![DomainOf[f]] = @ - 1]
  /\ at' = [at EXCEPT ![f] = "pace"]
  /\ UNCHANGED <<now, known, interval, event, lastUsed, inFlight, globalFree, wake,
                 requests, started>>

\* wait_seconds: a start as old as the interval leaves the window for good
Expired(d) == event[d] <= now - interval[d]
Forget(d) == event' = [event EXCEPT ![d] = IF Expired(d) THEN Never ELSE @]

(* The pace is waited out without a global slot *)
Pace(f) ==
  LET d == DomainOf[f] IN
  /\ at[f] = "pace"
  /\ Forget(d)
  /\ IF Expired(d)
       THEN at' = [at EXCEPT ![f] = "global"] /\ UNCHANGED wake
       ELSE /\ at' = [at EXCEPT ![f] = "sleep"]
            /\ wake' = [wake EXCEPT ![f] = event[d] + interval[d]]
  /\ UNCHANGED <<now, known, interval, lastUsed, inFlight, hostFree, globalFree,
                 requests, started>>

Awake(f) ==
  /\ at[f] = "sleep" /\ now >= wake[f]
  /\ at' = [at EXCEPT ![f] = "pace"] /\ wake' = [wake EXCEPT ![f] = 0]
  /\ UNCHANGED <<now, domainState, globalFree, requests, started>>

\* Mutant: the window is not looked at again.
StillAdmitsAny(d) == TRUE

StillAdmits(d) == Expired(d)

(* The global slot, and the second look: another request may have started   *)
(* meanwhile                                                                *)
Start(f) ==
  LET d == DomainOf[f] IN
  /\ at[f] = "global" /\ globalFree > 0
  /\ IF StillAdmits(d)
       THEN /\ globalFree' = globalFree - 1
            /\ event' = [event EXCEPT ![d] = now]
            /\ lastUsed' = [lastUsed EXCEPT ![d] = now]
            /\ at' = [at EXCEPT ![f] = "request"]
            /\ wake' = [wake EXCEPT ![f] = now + MaxRequest]
            /\ requests' = [requests EXCEPT ![f] = @ + 1]
            /\ started' = [started EXCEPT ![d] = [at |-> now, interval |-> interval[d]]]
       ELSE /\ at' = [at EXCEPT ![f] = "pace"]
            /\ Forget(d)
            /\ UNCHANGED <<globalFree, lastUsed, wake, requests, started>>
  /\ UNCHANGED <<now, known, interval, inFlight, hostFree>>

(* Leaving the slot gives back what the fetch holds: the domain's permit    *)
(* from "pace" on, the global one during the request                        *)
Holding == {"pace", "sleep", "global", "request"}

\* Mutant: only the request's end gives the domain's permit back.
HoldsHostInRequest(place) == place = "request"

HoldsHost(place) == place \in Holding

Leave(f, place) ==
  LET d == DomainOf[f] IN
  /\ inFlight' = [inFlight EXCEPT ![d] = @ - 1]
  /\ hostFree' = [hostFree EXCEPT ![d] = IF HoldsHost(at[f]) THEN @ + 1 ELSE @]
  /\ globalFree' = IF at[f] = "request" THEN globalFree + 1 ELSE globalFree
  /\ at' = [at EXCEPT ![f] = place] /\ wake' = [wake EXCEPT ![f] = 0]
  /\ UNCHANGED <<now, known, interval, event, lastUsed, requests, started>>

\* The answer is in: another hop or the retry, or the fetch is over
Answer(f) ==
  /\ at[f] = "request"
  /\ \/ requests[f] < MaxRequests[f] /\ Leave(f, "ready")
     \/ Leave(f, "ended")

\* The deadline of the fetch, or its caller gave up
CancelFetch(f) == at[f] \in {"enter", "sleep", "global", "request"} /\ Leave(f, "gone")

---------------------------------------------------------------------------
Runnable(f) ==
  \/ at[f] \in {"ready", "pace"}
  \/ at[f] = "enter" /\ hostFree[DomainOf[f]] > 0
  \/ at[f] = "global" /\ globalFree > 0
  \/ at[f] = "sleep" /\ now >= wake[f]
  \/ at[f] = "request" /\ now >= wake[f]

WaitsForTime(f) ==
  at[f] \in {"sleep", "request"} \/ (at[f] = "idle" /\ now < LastArrival[f])

LimiterTick ==
  /\ \A f \in Fetches : ~Runnable(f) /\ (at[f] = "idle" => now < LastArrival[f])
  /\ \E f \in Fetches : WaitsForTime(f)
  /\ now' = now + 1
  /\ UNCHANGED <<domainState, globalFree, at, wake, requests, started>>

FetchStep(f) ==
  \/ Learn(f) \/ Arrive(f) \/ Enter(f) \/ Pace(f) \/ Awake(f) \/ Start(f)
  \/ Answer(f)

---------------------------------------------------------------------------
At(places, d) == {f \in Fetches : at[f] \in places /\ DomainOf[f] = d}

(* Nothing is leaked on any way out of a slot: the permits are those that   *)
(* no fetch holds, so a domain never has more than PerHost requests in      *)
(* flight and the process never more than Global                            *)
SlotsAccounted ==
  /\ globalFree = Global - Cardinality({f \in Fetches : at[f] = "request"})
  /\ \A d \in Domains :
       /\ hostFree[d] = PerHost - Cardinality(At(Holding, d))
       /\ inFlight[d] = Cardinality(At(Holding \cup {"enter"}, d))
  /\ globalFree >= 0 /\ \A d \in Domains : hostFree[d] >= 0

(* Every request starts at least the domain's interval after the one        *)
(* before it, as the interval was when that one started, whatever is        *)
(* widened, cancelled or evicted in between                                 *)
PaceKept ==
  [][\A d \in Domains : started'[d] # started[d] =>
       now >= started[d].at + started[d].interval]_limiterVars
=============================================================================
