CONSTANTS
  M = 3
  W = 8
  Address <- FourAddresses
  Payload <- LongPayload
  Capacity = 2
  MaxValueBytes = 2
  MaxTime = 1
SPECIFICATION Spec
INVARIANT QueriesAgree
PROPERTIES ImplementsGroupCache PresentAddressesKept
