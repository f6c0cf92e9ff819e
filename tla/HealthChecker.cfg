SPECIFICATION Spec
CONSTANTS
  k1 = k1
  k2 = k2
  Keys = {k1, k2}
  Threshold = 3
  Cooldown = 1
  QuotaBase = 2
  QuotaMax = 5
  PinFor = 7
  AgeCap = 8
INVARIANTS OverrideOrThreshold
PROPERTIES EscalatesOncePerWindow ImplementsBreaker
