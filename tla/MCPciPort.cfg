SPECIFICATION Spec
CONSTANTS
  Functions <- There
  Locations <- AskedFor
  Readers <- CalledReaders
  Values <- SomeValues
  Configs <- Marked
  Addresses <- SomeAddresses
INVARIANTS
  AddressNames
PROPERTIES
  ImplementsRegisters
