CONSTANTS
  r1 = r1
  r2 = r2
  r3 = r3
  k1 = k1
  NoRecord = NoRecord
  NoReq = NoReq
  Keys <- MCKeys
  Reqs <- MCReqs3
  Tools <- MCTools
  Callers <- MCCallers
  Inputs <- MCInputs
  Ops <- NearOps
  MaxRetries = 1
SPECIFICATION PairSpec
CHECK_DEADLOCK FALSE
SYMMETRY Symmetry3
INVARIANTS ExecutorOwnsOperation ReplayIsOwnResult AtMostOnce
PROPERTY CompletedIsFinal
