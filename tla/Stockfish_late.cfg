SPECIFICATION Spec
CONSTANTS
  j1 = j1
  j2 = j2
  j3 = j3
  Jobs <- MCJobs
  MultiPv <- MCMultiPv
  Strength <- MCStrength
  Terminal = {j3}
  MaxWorkers = 2
  None = None
  Rejected = Rejected
  Faults = {"cancel"}
CHECK_DEADLOCK FALSE
INVARIANTS
  AnswersOwnSearch
