SPECIFICATION MCSpec
CONSTANTS
  Threads = {2, 3}
  Size = 8
  Wrap = 32
  Payloads = {1, 2}
  c1 = c1
  c2 = c2
  none = none
INVARIANTS
  QueueKeepsMessages
  SamplesAreAccountedFor
CONSTRAINT
  Bounded
CHECK_DEADLOCK FALSE
