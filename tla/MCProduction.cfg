CONSTANTS
  DevEuiPrefixes = {"a"}
  MaxSerial = 4
  Quantities = {1, 2}
  Versions = {"v"}
  Requests = {r1, r2, r3}
  MaxRows = 2
  Units = {1, 2}
  Shipments = {s1, s2}
  Receipts = {c1, c2}
  ReceiptQuantities = {1, 2}
  Planned = 2
  Handlers = {q1, q2}
  Offered <- ShippingAndReceiving
  Groups = {g1, g2}
  Types = {t1}
  Checks = {k1}
  Codes = {"A", "B"}
SPECIFICATION MCSpec
INVARIANTS ShippedWithItsShipment ReceiptsWithinPlan
PROPERTIES SerialsAreExact CreatedOfCurrent LeavesAsConfirmed ArchivedIsFrozen GroupsCanBeReliedOn
SYMMETRY Symmetry
CHECK_DEADLOCK FALSE
