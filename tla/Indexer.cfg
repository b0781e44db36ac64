SPECIFICATION Spec
CONSTANTS
  p1 = p1  p2 = p2  a = a  b = b  big = big  bin = bin  w1 = w1  w2 = w2
  Path = {p1, p2}
  Plain = {a, b}
  Oversized = {big}
  Guarded = {}
  Governor <- NoGovernor
  NoPath = NoPath
  Gone = Gone
  Worker = {w1, w2}
  Main = Main
  NoWorker = NoWorker
  ParseFails = {"reload"}
  AliasRaces = FALSE
  MaxEdits = 2
SYMMETRY Symmetry
CHECK_DEADLOCK FALSE
INVARIANTS TypeOK PendingOwned RestIsHonest
