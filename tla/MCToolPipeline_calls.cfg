SPECIFICATION RaceSpec
CONSTANTS
  c1 = c1
  c2 = c2
  agent = agent
  Human = Human
  Calls <- TwoCalls
  Agents = {agent}
  Tools <- MoreTools
  Gateable <- RiskyTools
  CapSets <- SomeCaps
  TipSets <- FewTips
  Requests <- BothRequests
SYMMETRY Symmetry
CHECK_DEADLOCK FALSE
INVARIANTS
  EveryCallAudited
  PolicyGuardsTheGate
  SuggestionsCallable
  EffectIsAuthorised
  
  RejectionKeepsKey
