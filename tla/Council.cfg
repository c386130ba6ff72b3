SPECIFICATION Spec
CONSTANTS
  Councils = {"first", "second"}
  Order <- Three
  Priority <- Three
  Critical = {"analyst", "red_team"}
  Reserved = {"red_team", "chair"}
  Chair = "chair"
  Estimate <- Estimates
  Capacity = 3
  Window = 2
  ReserveTokens = 1
  MaxWait = 1
  Budget = 7
  Reserve = 4
  Retries = 0
  CriticalRetries = 1
  Pause = 1
  MaxBackoff = 3
  MaxCall = 1
  Overrun = 0
  LastStart = 0
  MaxFaults <- Failures
INVARIANTS TypeOK WithinTheWorstCase ReserveKeepsARetry NoBurst
PROPERTY CompletedStays
