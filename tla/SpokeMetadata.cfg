SPECIFICATION MetadataSpec
CONSTANTS
  MaxConns = 1
  MaxChanges = 3
  Bad = {1, 2}
  Retries = 3
INVARIANT PublisherBounded
PROPERTIES NeverOlder ComesToRest
CHECK_DEADLOCK FALSE
