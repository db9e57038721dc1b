CONSTANTS
  r1 = r1
  r2 = r2
  r3 = r3
  k1 = k1
  k2 = k2
  j1 = j1
  j2 = j2
  NoRecord = NoRecord
  NoReq = NoReq
  NoJob = NoJob
  Keys <- MCKeys1
  Reqs <- MCReqs3
  Jobs <- MCJobs1
  Tools <- MCTools
  Callers <- MCCallers
  Inputs <- MCInputs
  Ops <- TwoCallers
  MaxRetries = 1
  BatchSize = 1
SPECIFICATION ExpiredSpec
CHECK_DEADLOCK FALSE
SYMMETRY SymReqs3
INVARIANT ReplayIsOwnResult
