SPECIFICATION Spec
CONSTANTS
  Decisions = {d1, d2}
  Legacy = {}
  c1 = c1
  gone = d3
  NoCompany = NoCompany
  Company <- SameCompany
  Sweepers = {s1}
  NoJob = NoJob
  MaxRounds = 1
  MaxFaults = 2
INVARIANT OneOpenDecisionPerCompany
CHECK_DEADLOCK FALSE
