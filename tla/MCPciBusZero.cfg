SPECIFICATION Spec
CONSTANTS
  NumBus = 2
  NumDevice = 2
  NumFunction = 2
  Capacity = 4
  ConfigSpaces <- MultiHost
INVARIANTS
  BusZeroListed
CHECK_DEADLOCK FALSE
