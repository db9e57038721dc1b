CONSTANTS
  r1 = r1
  r2 = r2
  r3 = r3
  k1 = k1
  NoRecord = NoRecord
  NoReq = NoReq
  Keys <- MCKeys
  Reqs <- MCReqs2
  Tools <- MCTools
  Callers <- MCCallers
  Inputs <- MCInputs
  Ops <- OneOp
  MaxRetries = 3
SPECIFICATION Spec
CHECK_DEADLOCK FALSE
INVARIANT LiveClaimLooksFresh
