SPECIFICATION Spec
CONSTANTS
  p1 = p1  p2 = p2  c1 = c1  c2 = c2  o1 = o1
  Process = {p1, p2}
  Call = {c1, c2}
  OldCall = {o1}
  None = None
  Rotten = Rotten
  AuditEnabled = TRUE
  Governed = {c2}
  ReadMode = "EnforceRefusal"
  Bounded <- MCBounded
SYMMETRY Symm
CHECK_DEADLOCK FALSE
INVARIANTS VerdictExact CallsRecordedOnce MigratedWhenReady
