CONSTANTS
  Uses <- AllUses
  Words = {"w"}
  Sizes = {1, 2}
  Paths = {"/", "/p", "/q"}
  Home = "/"
  MaxRequests = 3
  OtherTabs = TRUE
  MaxMishaps = 5
SPECIFICATION MCSpec
INVARIANTS SearchIsSound ViewIsTrue
PROPERTIES ListSettles SignInReturns FormIsReached
CHECK_DEADLOCK FALSE
