CONSTANTS
  Issues <- Three
  Graphs <- ThreeGraphs
  MaxIssues = 2
  Heuristic = TRUE
  Outcomes = {"ready", "draft", "failed", "no-changes", "error-branch"}
  Trips = TRUE
  Fails = TRUE
  MaxInterrupts = 1
  Reviewers = {"merge", "close"}
SPECIFICATION Spec
INVARIANTS TypeOK EveryIssueAccounted
PROPERTIES StacksAreSound ReviewedWorkIsKept
