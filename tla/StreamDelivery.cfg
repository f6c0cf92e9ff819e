SPECIFICATION Delivery
CONSTANTS
  MaxItems = 7
  ProbedItems = 4
  PrefixLimit = 2
  EventCap = 1
  MaxCalls = 2
  MaxParts = 2
  Pairs <- MCPairs
INVARIANTS ClientStreamSound TruncationShows
PROPERTY UpstreamReleased
CHECK_DEADLOCK FALSE
