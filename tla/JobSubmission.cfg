SPECIFICATION Spec
CONSTANTS
  Requests = {r1, r2, r3, r4, r5}
  EnqueueAttempts = 2
  GenerationScan = 2
SYMMETRY RequestSymmetry
INVARIANTS OneLiveJobPerKey NeverAnsweredWithAnOldRun
CHECK_DEADLOCK FALSE
