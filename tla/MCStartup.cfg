SPECIFICATION Spec
CONSTANTS
  Commits = {c1, c2}
  Tip = c1
  None = None
  Mixed = Mixed
  Walks <- MCWalks
  Dirs = {1, 2}
  MaxFiles = 3
INVARIANTS
  BuiltFromWanted
  GraphsShowLastGood
