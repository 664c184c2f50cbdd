SPECIFICATION Spec
CONSTANTS
  NumBus = 2
  NumDevice = 2
  NumFunction = 2
  Capacity = 4
  ConfigSpaces <- AnyTopology
INVARIANTS
  TypeOK
  DepthBounded
  OnlyVisible
  BridgeFirst
  SuccessMeansAll
PROPERTIES
  FullUnwinds
  Terminates
CHECK_DEADLOCK FALSE
