SPECIFICATION Spec
CONSTANTS
  s = s
  n = n
  Jobs = {s, n}
  Streams = {s}
  MaxChunks = 2
INVARIANTS StreamIntact JobsSettled
CHECK_DEADLOCK FALSE
