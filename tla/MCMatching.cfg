SPECIFICATION Spec
CONSTANTS
  MAX_CLIENTS = 2
  MAX_SUPPLY = 2
  MAX_DEMAND = 2
  MAX_WATCH = 2
  Points <- MCPoints
  DemandAmounts <- MCDemandAmounts
  SupplyAmounts <- MCSupplyAmounts
  SupplyDistances = {1, 2}
  WatchDistances <- MCNoDistances
INVARIANTS
  TypeOK
  NoPendingMatch
  OnlyTheNewcomerMatches
PROPERTIES
  ImplementsMarket
