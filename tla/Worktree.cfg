SPECIFICATION FairSpec
CONSTANTS
  Files = {"a", "b", "ignored"}
  Ignored = {"ignored"}
  Branches = {"main", "other"}
  Main = "main"
  Contents = {3}
  MaxCommits = 12
  MaxActs = 3
CONSTRAINT Uncrossed
INVARIANT
  CleanUnlessCrossed
PROPERTIES
  CommitsAddUnlessBehind
  EditsReachTheTip
