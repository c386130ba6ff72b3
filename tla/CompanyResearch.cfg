SPECIFICATION Spec
CONSTANTS
  Workers = {w1, w2, w3}
  NoOne = NoOne
  MaxAttempts = 3
  Stages = 1
  MaxFaults = 2
  MaxStalls = 1
SYMMETRY Symmetry
INVARIANTS RetriesShareOneRecord ContentAgreesWithTheJob ReaderIsShownTheLastReport CompletedWorkIsAccounted
PROPERTIES CalledOffStaysCalledOff
CHECK_DEADLOCK FALSE
