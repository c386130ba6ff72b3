SPECIFICATION FairSpec
CONSTANTS
  Jobs = {j1, j2}
  Known = {j1}
  Workers = {w1, w2}
  NoOne = NoOne
  NoJob = NoJob
  MaxAttempts = 2
  Candidates = 2
  MaxFaults = 1
INVARIANTS ResultOfLastAttempt CancelledOnlyIfRequested AnnouncedOnceAndTruly
PROPERTIES ImplementsLifecycle TakenOnlyAfterLapse EveryJobEnds
CHECK_DEADLOCK FALSE
