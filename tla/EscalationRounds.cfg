SPECIFICATION FairSpec
CONSTANTS
  Decisions = {d1}
  Legacy = {}
  c1 = c1
  gone = d3
  NoCompany = NoCompany
  Company <- SameCompany
  Sweepers = {s1, s2}
  NoJob = NoJob
  MaxRounds = 2
  MaxFaults = 2
INVARIANTS TypeOK
PROPERTIES ImplementsDecisionLife ClosedDecisionsStayClosed EveryDecisionCloses
CHECK_DEADLOCK FALSE
