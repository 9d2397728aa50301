CONSTANTS
  b1 = b1
  u1 = u1
  u2 = u2
  p1 = p1
  p2 = p2
  Handlers = {h1, h2}
  Jobs = {j1}
  Batches = {b1}
  Units = {u1}
  Paks = {p1}
  Slots = {1}
  BatchOf <- OneUnit
  Sessions = {1, 2}
  MaxSteps = 1
  Checks = {c1}
  ReopenAfter = 1
  SessionTtl = 2
  ExpireLimit = 1
  MaxClock = 2
  Operations = {"open"}
SPECIFICATION Spec
PROPERTY SameSlotIsResumed
CHECK_DEADLOCK FALSE
