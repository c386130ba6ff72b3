----------------------------- MODULE TokenPacer -----------------------------
(***************************************************************************)
(* TokenBudgetPacer: the sliding window of tokens that the councils of a   *)
(* process share for one provider deployment.  A window is a set of        *)
(* entries, one per lease, each counting its tokens for Window seconds     *)
(* from the time it was leased; `by` tells equal entries apart.            *)
(***************************************************************************)
EXTENDS Integers, FiniteSetsExt

CONSTANTS
  Capacity,      \* capacity_tpm
  Window,        \* window_seconds
  ReserveTokens, \* llm_council_chair_token_reserve
  MaxWait        \* llm_council_pacing_max_wait_seconds

ASSUME PacerAssumption ==
  /\ {Capacity, Window} \subseteq Nat \ {0}
  /\ {ReserveTokens, MaxWait} \subseteq Nat

Lesser(m, n) == IF m <= n THEN m ELSE n

Tokens(entries) == MapThenSumSet(LAMBDA e : e.tokens, entries)

\* _prune: an entry exactly a window old has left it
Live(entries, now) == {e \in entries : e.at > now - Window}

\* What a request may fill: all of the capacity for the chair, the capacity
\* less the reserve (of at most half of it) for the others
Effective(useReserve) ==
  IF useReserve THEN Capacity ELSE Capacity - Lesser(ReserveTokens, Capacity \div 2)

\* A request larger than its slice waits for the best headroom there can be
Needed(est, useReserve) == Lesser(est, Effective(useReserve))

Fits(entries, est, useReserve) ==
  Tokens(entries) + Needed(est, useReserve) <= Effective(useReserve)

\* _seconds_until_fits: the first expiry that frees enough, at most a window
UntilFits(entries, est, useReserve, now) ==
  LET left(e) == {f \in entries : f.at > e.at}
      enough == {e \in entries : Fits(left(e), est, useReserve)}
  IN  Min({e.at + Window - now : e \in enough} \cup {Window})

(* One turn of acquire's loop: how long the request sleeps before it looks  *)
(* again, 0 when it is let through, because it fits or has waited enough    *)
Sleep(entries, est, useReserve, waited, now) ==
  IF Fits(entries, est, useReserve) \/ waited >= MaxWait THEN 0
  ELSE Lesser(UntilFits(entries, est, useReserve, now), MaxWait - waited)
=============================================================================
