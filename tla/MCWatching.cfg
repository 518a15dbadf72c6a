SPECIFICATION LSpec
CONSTANTS
  MAX_CLIENTS = 2
  MAX_SUPPLY = 2
  MAX_DEMAND = 1
  MAX_WATCH = 2
  Points <- MCPoints
  DemandAmounts <- MCUnitOrNone
  SupplyAmounts <- MCOneOrTwo
  SupplyDistances = {1}
  WatchDistances = {0, 1}
INVARIANTS
  NoOrphanRecords
  EachHearsOnce
  OnlyLiveAreNotified
  ListingIsSnapshot
PROPERTIES
  WatchCommandTakesEffect
  ToldOfTheNewSupply
