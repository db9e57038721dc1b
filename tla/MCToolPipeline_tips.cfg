SPECIFICATION Spec
CONSTANTS
  c1 = c1
  c2 = c2
  agent = agent
  Human = Human
  Calls <- OneCall
  Agents = {agent}
  Tools <- FewTools
  Gateable <- RiskyTools
  CapSets <- SomeCaps
  TipSets <- EveryTip
  Requests <- EveryRequest
CHECK_DEADLOCK FALSE
INVARIANT
  EverySuggestionCallable
