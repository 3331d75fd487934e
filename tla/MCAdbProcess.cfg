CONSTANTS
  Listings <- MCListings
  Capacity = 2
  ReadSize = 2
  MaxCalls = 2
SPECIFICATION FairProcessSpec
INVARIANTS
  OnlyDeviceIsTheOnly
PROPERTY
  CallsReturn
