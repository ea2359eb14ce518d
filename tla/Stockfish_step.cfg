\* The faults of Stockfish_faults.cfg: is the client back in step once it can be?
SPECIFICATION Spec
CONSTANTS
  j1 = j1
  j2 = j2
  j3 = j3
  Jobs <- MCJobs
  MultiPv <- MCMultiPv
  Strength <- MCStrength
  Terminal = {j3}
  MaxWorkers = 2
  None = None
  Rejected = Rejected
  Faults = {"cancel", "slow", "error", "throw"}
CHECK_DEADLOCK FALSE
INVARIANTS
  BackInStep
