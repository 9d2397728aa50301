CONSTANTS
  Units = {1}
  Shipments = {s1, s2}
  Receipts = {c1}
  Quantities = {1}
  Planned = 1
  Handlers = {q1, q2}
  Offered <- AddingOnly
SPECIFICATION Spec
INVARIANTS ConcurrentAddIsSkipped
CHECK_DEADLOCK FALSE
