CONSTANTS
  Dir = {d1, d2}
  Path = {p1}
  None = None
  Settle = 1
  Recheck = 1
  OrphanAge = 1
  MaxHold = 2
  MaxOps = 3
SPECIFICATION FairSpec
CHECK_DEADLOCK FALSE
INVARIANTS NothingLost NoteExact
PROPERTIES PathsReleased LiveGitSeen
