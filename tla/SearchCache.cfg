SPECIFICATION Spec
CONSTANTS
  short = short  none = none  c1 = c1  c2 = c2
  sym = sym  fuz = fuz  route = route
  Gone = Gone
  Size <- Sizes
  None = None
  NFile = 2
  Hit = {short}
  Other = {none}
  Budget = 1
  Client = {c1, c2}
  Query = {sym, fuz, route}
  Kind <- Kinds
  MaxEntries = 1
  MaxEdits = 1
  MaxInstalls = 1
SYMMETRY Symmetry
INVARIANTS TypeOK GenerationSound FreshPageExact
PROPERTIES CacheNeverGoesBack
