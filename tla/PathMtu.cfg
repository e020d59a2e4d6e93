\* Flows over paths with small links, with one lost write.
CONSTANTS
  Tayga = "tayga"
  Mapping <- MCMapping
  Workers = {1, 2}
  FlowNames = {"a", "b"}
  Scenarios <- MCScenarios
  MaxLoss = 1
  MaxRefusals = 1
SPECIFICATION LiveSpec
INVARIANTS
  EstimateJustified
  ReassembledRight
  LikePackets
  ErrorsKeepMeaning
PROPERTIES
  DeliveredInTheEnd
