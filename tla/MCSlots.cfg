SPECIFICATION SlotsSpec
CONSTANTS
  c1 = c1
  c2 = c2
  c3 = c3
  c4 = c4
  c5 = c5
  a1 = a1
  a2 = a2
  Connections <- FiveConnections
  Addresses <- TwoAddresses
  MAX_CONNECTIONS = 4
  MAX_UNAUTHENTICATED = 3
  MAX_UNAUTHENTICATED_PER_ADDRESS = 2
SYMMETRY Symmetry
INVARIANTS CountsExact WithinLimits
