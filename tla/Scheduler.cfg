SPECIFICATION Spec
CONSTANTS
  a = a
  b = b
  c = c
  g = g
  k1 = k1
  k2 = k2
  Cands = {a, b, c, g}
  Groups = {g}
  Families = {{a, b, c}, {a, b, g}}
  Keys = {k1, k2}
  Contended = {k1}
  Threshold = 1
  KeyOf <- MCKeyOf
  Order <- MCOrder
  Retries <- MCRetries
  Unsteady = {a}
INVARIANTS RequestsArePaid SoftStreamsReleased AbortIsExplained NobodyPassedOver
PROPERTIES AbortIsNobodysFault KeepsContract Answered
CHECK_DEADLOCK FALSE
