SPECIFICATION FairSpec
CONSTANTS
  p1 = p1  p2 = p2  a = a  b = b  big = big  bin = bin  w1 = w1  w2 = w2
  Path = {p1}
  Plain = {a}
  Oversized = {big}
  Guarded = {bin}
  Governor <- NoGovernor
  NoPath = NoPath
  Gone = Gone
  Worker = {w1}
  Main = Main
  NoWorker = NoWorker
  ParseFails = {"reload"}
  AliasRaces = FALSE
  MaxEdits = 3
CHECK_DEADLOCK FALSE
INVARIANTS StatSound
PROPERTIES Converges FactsNeverRegress FollowsFiles
