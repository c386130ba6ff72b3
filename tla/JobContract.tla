---------------------------- MODULE JobContract ----------------------------
(***************************************************************************)
(* The pure rules of one research job (services/jobs/job_contract.py).     *)
(*                                                                         *)
(* A row is read as a record.  Times are kept only as far as the rules     *)
(* tell them apart: `lease` is "none" for lease_expires_at = NULL, "live"  *)
(* for an expiry in the future and "lapsed" for one that has passed, and   *)
(* `due` says whether available_at has passed.  `result` stands for        *)
(* result_ref, named by the attempt whose handler produced it.             *)
(***************************************************************************)
EXTENDS Integers

CONSTANTS
  MaxAttempts,   \* max_attempts of a job, v3_job_max_attempts
  NoOne          \* lease_owner = NULL

ASSUME MaxAttemptsAssumption == MaxAttempts \in Nat \ {0}

HasResult == {"completed", "completed_with_warnings"}

Terminal == HasResult \cup {"failed", "dead_letter", "cancelled"}

StoredStatuses == {"pending", "running"} \cup Terminal

LegalTransitions ==
  [s \in StoredStatuses |->
     CASE s = "pending" -> {"running", "cancelled"}
       [] s = "running" -> {"running", "pending"} \cup Terminal
       [] OTHER -> {}]

CanTransition(from, to) == to \in LegalTransitions[from]

\* The row enqueue inserts.
FreshRow ==
  [status |-> "pending", attempt |-> 0, owner |-> NoOne, lease |-> "none",
   due |-> TRUE, cancelRequested |-> FALSE, result |-> 0]

---------------------------------------------------------------------------
(* Claiming *)

\* Mutant: the comparison with now is the wrong way round.
LeaseExpiredInverted(v) == v.lease # "lapsed"

\* A running row without a lease counts as expired.
LeaseExpired(v) == v.lease # "live"

AttemptsExhausted(v) == v.attempt >= MaxAttempts

IsAbandoned(v) ==
  v.status = "running" /\ LeaseExpired(v) /\ AttemptsExhausted(v)

\* Mutant: a lapsed job is never reclaimed.
IsClaimablePendingOnly(v) == v.status = "pending" /\ v.due

IsClaimable(v) ==
  /\ v.status \notin Terminal
  /\ v.due
  /\ v.status = "running" => LeaseExpired(v) /\ ~AttemptsExhausted(v)

Claim(v, w) ==
  [v EXCEPT !.status = "running", !.attempt = v.attempt + 1,
            !.owner = w, !.lease = "live"]

MayHeartbeat(v, w) == v.status = "running" /\ v.owner = w

Heartbeat(v) == [v EXCEPT !.lease = "live"]

---------------------------------------------------------------------------
(* Ending an attempt *)

\* Every end of an attempt releases the lease.
Released(v, s) == [v EXCEPT !.status = s, !.owner = NoOne, !.lease = "none"]

Complete(v, withWarnings) ==
  Released(v, IF withWarnings THEN "completed_with_warnings" ELSE "completed")

Cancel(v) == Released(v, "cancelled")

Abandon(v) == Released(v, "dead_letter")

WillRetry(v, transient) == transient /\ ~AttemptsExhausted(v)

\* A retry becomes due only after its backoff.
Fail(v, transient) ==
  IF WillRetry(v, transient)
    THEN [Released(v, "pending") EXCEPT !.due = FALSE]
    ELSE Released(v, IF transient THEN "dead_letter" ELSE "failed")
=============================================================================
