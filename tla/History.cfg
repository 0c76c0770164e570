SPECIFICATION FairSpec
CONSTANTS
  Files = {"a", "b"}
  Ignored = {}
  Branches = {"main", "other", "rebase-scratch", "bisect-scratch"}
  Main = "main"
  RebaseBranch = "rebase-scratch"
  ScratchBranch = "bisect-scratch"
  TagNames = {"v1"}
  Versions = {5}
  Starts <- MCStarts
  MaxCommits = 8
  MaxCommands = 3
  MaxEdits = 1
  MaxMishaps = 1
INVARIANTS
  TipsSurvive
  RebaseInOrder
  FilesFollowHead
  BisectKeepsCulprit
PROPERTIES
  BisectRunEnds
  ShelvesKept
CHECK_DEADLOCK FALSE
