---------------------------- MODULE JobLifecycle ----------------------------
(***************************************************************************)
(* What the job queue promises its callers about one job, with no workers, *)
(* leases or database in sight: a job is attempted at most MaxAttempts     *)
(* times, one attempt at a time, moves only along the table of legal       *)
(* transitions, and its end is final and belongs to the last attempt       *)
(* started.                                                                *)
(***************************************************************************)
EXTENDS JobContract

CONSTANT Jobs

VARIABLES
  status,    \* the stored status
  attempt    \* attempts started so far

lifeVars == <<status, attempt>>

LifeInit ==
  /\ status = [j \in Jobs |-> "pending"]
  /\ attempt = [j \in Jobs |-> 0]

\* An attempt starts, the first one or one that replaces a lost one.
StartAttempt(j) ==
  /\ CanTransition(status[j], "running")
  /\ attempt[j] < MaxAttempts
  /\ status' = [status EXCEPT ![j] = "running"]
  /\ attempt' = [attempt EXCEPT ![j] = @ + 1]

\* The attempt failed and another one remains.
Retry(j) ==
  /\ status[j] = "running"
  /\ attempt[j] < MaxAttempts
  /\ status' = [status EXCEPT ![j] = "pending"]
  /\ UNCHANGED attempt

\* The running attempt ends the job; giving up needs every attempt spent.
EndJob(j, s) ==
  /\ status[j] = "running"
  /\ s = "dead_letter" => attempt[j] = MaxAttempts
  /\ status' = [status EXCEPT ![j] = s]
  /\ UNCHANGED attempt

\* A job nobody is running is called off.
Withdraw(j) ==
  /\ status[j] # "running"
  /\ CanTransition(status[j], "cancelled")
  /\ status' = [status EXCEPT ![j] = "cancelled"]
  /\ UNCHANGED attempt

LifeNext ==
  \E j \in Jobs :
    \/ StartAttempt(j)
    \/ Retry(j)
    \/ \E s \in Terminal : EndJob(j, s)
    \/ Withdraw(j)

LifeSpec == LifeInit /\ [][LifeNext]_lifeVars
=============================================================================
