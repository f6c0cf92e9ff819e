SPECIFICATION Spec
CONSTANTS
  a = a
  b = b
  g = g
  c = c
  k = k
  Cands = {a, b, c, g}
  Groups = {g}
  Families = {{a, b, c}, {a, g}}
  Keys = {k}
  Contended = {}
  Threshold = 1
  KeyOf <- MCKeyOf
INVARIANT OneStreamLeft
PROPERTIES KeepsContract AllEnd
CHECK_DEADLOCK FALSE
