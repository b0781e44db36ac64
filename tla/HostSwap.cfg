CONSTANTS
  a = a
  display = display
  partial = partial
  full = full
  bad = bad
  r1 = r1
  r2 = r2
  Config = {a, partial, full, bad}
  Invalid = {bad}
  Inputs <- MCInputs
  Patterns <- MCPatterns
  Missing = Missing
  Unreadable = Unreadable
  None = None
  Request = {r1}
  MayPanic = FALSE
  MaySpawnFail = TRUE
  NState = 3
  MaxConfigEdits = 2
  MaxTreeEdits = 1
SPECIFICATION FairSpec
CHECK_DEADLOCK FALSE
INVARIANTS ServedAsConfigured NoStrayWatcher
PROPERTIES ConfigFollowed
