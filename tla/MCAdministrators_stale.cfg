CONSTANTS
  Users = {1, 2}
  Requests = {"q1", "q2", "q3"}
  Cases <- StaleCases
SPECIFICATION Spec
INVARIANTS OneRemains
CHECK_DEADLOCK FALSE
