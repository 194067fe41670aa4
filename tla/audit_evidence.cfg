SPECIFICATION Spec
CONSTANTS
  Absent = Absent
  Refused = Refused
  NoApp = NoApp
  Unread = Unread
  NoBundle = NoBundle
  None = None
  OwnerType = "organization"
  ThisRef = {"~DEFAULT_BRANCH", "~ALL"}
  ThisRepo = {"~ALL"}
  BadPattern = {"bad"}
  c1 = c1
  c2 = c2
  c3 = c3
  r1 = r1
  r2 = r2
  ciApp = ciApp
  slugApp = slugApp
  RulesetId = {r1, r2}
  MaxEdits = 4
  Cases <- MCCases
  Tree <- MCTree
  Forgeries <- MCForgeries
INVARIANTS
  FactsHeldTogether
  PassMeansProtected
  LosesNothingSeen
  LeavesNothingUnreported
  ReviewIsRight
CHECK_DEADLOCK FALSE
