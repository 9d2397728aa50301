CONSTANTS
  Users = {1, 2, 3}
  Requests = {"q1", "q2", "q3"}
  Cases <- UsualCases
  PakRequests = {"p1", "p2"}
  PakCases <- UsualPakCases
  MaxSecret = 2
SPECIFICATION MCSpec
INVARIANTS OneRemains ActiveCanSignIn DeadlocksOnlyOverTargets KeysWork RotationModes
