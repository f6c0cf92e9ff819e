SPECIFICATION Spec
CONSTANTS
  Slots = {s1, s2}
  Keys = {k}
  NoKey = noKey
  Candidates <- MCCandidates
  Provider <- MCProvider
  Weight <- MCWeight
  Rules <- MCRules
  TicksPerSecond = 2
  IdleTimeout = 2
  PruneInterval = 1
  MaxRequests = 4
  MaxClock = 2
  MaxFailures = 1
SYMMETRY MCSymmetry
INVARIANTS
  FairShare
  WithinRate
PROPERTIES
  SessionStays
CHECK_DEADLOCK FALSE
