CONSTANTS
  b1 = b1
  u1 = u1
  u2 = u2
  p1 = p1
  p2 = p2
  Handlers = {h1, h2}
  Jobs = {j1}
  Batches = {b1}
  Units = {u1, u2}
  Paks = {p1, p2}
  Slots = {1}
  BatchOf <- TwoUnits
  Sessions = {1, 2, 3}
  MaxSteps = 2
  Checks = {c1, c2}
  ReopenAfter = 1
  SessionTtl = 2
  ExpireLimit = 1
  MaxClock = 2
  Operations <- AllOperations
  Scenarios <- SafetyScenarios
SPECIFICATION MCSpec
INVARIANT TypeOK
INVARIANT UnitRunsOneSession
INVARIANT SlotRunsOneSession
INVARIANT RunningStartedLast
INVARIANT NoDeadlock
INVARIANT PackedUnitsPassed
INVARIANT OtkStatusIsLatestResult
INVARIANT StepsFollowSession
PROPERTY ArchivedBatchIsLeftAlone
PROPERTY FinishedSessionsNeverChange
PROPERTY SessionsCloseForAReason
PROPERTY FollowsLifecycle
SYMMETRY Symmetry
CHECK_DEADLOCK FALSE
