CONSTANTS
  Requests = {"p1", "p2"}
  Cases <- UndoneCases
  MaxSecret = 2
SPECIFICATION Spec
INVARIANTS PreviousSecretStops
CHECK_DEADLOCK FALSE
