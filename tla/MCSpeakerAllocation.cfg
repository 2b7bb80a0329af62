SPECIFICATION Spec
CONSTANTS
  Members = {"ann", "bob", "cat", "dan", "eve"}
  Teams = {"prop"}
  Panel = Panel
  NoSignup = NoSignup
  NoPartner = NoPartner
  Unsolved = Unsolved
INVARIANTS
  FeasibleExactlyByCounting
  ChecksAlwaysSuffice
CHECK_DEADLOCK FALSE
