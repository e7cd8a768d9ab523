\* Attempt after attempt to pair, with a vehicle that notifies anything.
SPECIFICATION FairSpec
CONSTANTS
  vehicle = vehicle
  other = other
  empty = empty
  None = None
  Empty = empty
  Systems = {"Linux", "Darwin"}
  Ids <- NotifiedIds
  VehicleId = vehicle
INVARIANTS TypeOK ExchangeComplete TrueMeansBonded
PROPERTIES AttemptEnds
