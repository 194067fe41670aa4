CONSTANTS
  NoApp = NoApp
  Pending = Pending
  NoTime = NoTime
  BadTime = BadTime
  Incomplete = Incomplete
  None = None
  MaxCheckRuns = 2
  MaxFragment = 2
  Hits <- MCHits
  Person <- MCPerson
  Maintainer <- MCMaintainer
  Cases <- MCCases
  RunName = {"test"}
  StatusName = {"test", "lint", "docs"}
  State = {"success", "error", "pending"}
  App = {"ci", "bot"}
  Login = {"u", "U", "v"}
  LineKinds <- MCLineKinds
  FirstLines <- MCFirstLines
  MaxRecords = 3
  MaxReviews = 3
  MaxLines = 3
  MaxClock = 2
SPECIFICATION Spec
VIEW View
INVARIANTS
  GreenIsNewest
  ApprovalsAreLastWords
  HiddenNeverCounts
  MatchedRulesHold
  PublishedTogether
CHECK_DEADLOCK FALSE
