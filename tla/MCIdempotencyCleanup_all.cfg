CONSTANTS
  r1 = r1
  r2 = r2
  r3 = r3
  k1 = k1
  k2 = k2
  j1 = j1
  j2 = j2
  NoRecord = NoRecord
  NoReq = NoReq
  NoJob = NoJob
  Keys <- MCKeys2
  Reqs <- MCReqs2
  Jobs <- MCJobs2
  Tools <- MCTools
  Callers <- MCCallers
  Inputs <- MCInputs
  Ops <- OneOp
  MaxRetries = 2
  BatchSize = 1
SPECIFICATION OverlapSpec
CHECK_DEADLOCK FALSE
INVARIANT BoundedDuplication
PROPERTIES EveryCallAnswered SweepIsComplete
