SPECIFICATION Spec
CONSTANTS
  Decisions = {d2, d3}
  Legacy = {d2, d3}
  c1 = c1
  gone = d3
  NoCompany = NoCompany
  Company <- OneWithoutCompany
  Sweepers = {s1}
  NoJob = NoJob
  MaxRounds = 1
  MaxFaults = 0
INVARIANTS FindingsRestOnACompletedRound
CHECK_DEADLOCK FALSE
