CONSTANTS
  a = a
  display = display
  partial = partial
  full = full
  bad = bad
  r1 = r1
  r2 = r2
  Config = {a, display, bad}
  Invalid = {bad}
  Inputs <- MCInputs
  Patterns <- MCPatterns
  Missing = Missing
  Unreadable = Unreadable
  None = None
  Request = {r1, r2}
  MayPanic = TRUE
  MaySpawnFail = FALSE
  NState = 3
  MaxConfigEdits = 2
  MaxTreeEdits = 0
SPECIFICATION Spec
CHECK_DEADLOCK FALSE
SYMMETRY Symmetric
INVARIANTS BookKept StatusSettles
