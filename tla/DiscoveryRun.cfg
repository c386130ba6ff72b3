SPECIFICATION FairSpec
CONSTANTS
  Workers = {w1, w2, w3}
  Task = task
  NoOne = NoOne
  Universe = 2
  MaxAttempts = 2
  MaxFaults = 2
  MaxStalls = 1
INVARIANTS CompletedRunListsEveryTicker ExclusiveScansNeverCollide
PROPERTIES EndedRunIsLeftAlone RunWithAJobEnds
CHECK_DEADLOCK FALSE
