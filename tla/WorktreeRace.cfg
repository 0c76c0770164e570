SPECIFICATION Spec
CONSTANTS
  Files = {"a", "b", "ignored"}
  Ignored = {"ignored"}
  Branches = {"main", "other"}
  Main = "main"
  Contents = {3}
  MaxCommits = 7
  MaxActs = 4
INVARIANT
  CleanMeansCommitted
