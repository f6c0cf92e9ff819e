SPECIFICATION Spec
CONSTANTS
  Requests = {r1, r2}
  AllowUnauthenticatedLoopback = FALSE
  StartDisks <- MCStartDisks
  Kinds <- MCKinds
  MaxGrants = 3
  MaxFaults = 1
  ExpiresIn = 4
  Intervals = {1, 3}
  SlowDownMaxInterval = 2
INVARIANTS
  RefreshTokenOnce
  RetriedOnFreshToken
  PollsPaced
PROPERTIES
  LoginUsable
  AllEnd
CHECK_DEADLOCK FALSE
