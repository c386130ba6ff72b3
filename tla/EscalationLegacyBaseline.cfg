SPECIFICATION Spec
CONSTANTS
  Decisions = {d1}
  Legacy = {d1}
  c1 = c1
  gone = d3
  NoCompany = NoCompany
  Company <- SameCompany
  Sweepers = {s1}
  NoJob = NoJob
  MaxRounds = 2
  MaxFaults = 0
INVARIANTS BaselinePrecedesTheJob
CHECK_DEADLOCK FALSE
