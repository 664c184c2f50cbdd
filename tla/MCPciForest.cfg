SPECIFICATION Spec
CONSTANTS
  NumBus = 3
  NumDevice = 2
  NumFunction = 3
  Capacity = 4
  ConfigSpaces <- Forests
INVARIANTS
  BusOrder
  FullMeansTooMany
PROPERTIES
  ImplementsEnumeration
CHECK_DEADLOCK FALSE
