SPECIFICATION Spec
CONSTANTS
  Functions <- There
  Locations <- AskedFor
  Readers <- AllReaders
  Values = {}
  Configs <- Marked
  Addresses <- SomeAddresses
INVARIANTS
  DeviceIdRead
