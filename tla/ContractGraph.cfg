SPECIFICATION Spec
CONSTANTS
  Files <- MCFiles
  Attr <- MCAttr
  Contents <- MCContents
  Extracted <- MCExtracted
  NoFile = NoFile
  Sorted <- MCSorted
  Builtins = {}
  FirstSeen <- MCFirstSeen
  WildcardCap = 1
  Targets <- MCTargets
  ShortNames = {}
  TestFiles <- MCTestFiles
  MaxImpactDepth = 3
  PrefixConfig <- MCPrefixConfig
  RouteQuestions <- MCRouteQuestions
  MaxRouteEntries = 2
  MaxNearest = 2
  GeneratedFiles = {"c"}
  MaxRepresentatives = 2
  GroupOrder <- MCGroupOrder
  MaxGroups = 4
  MaxContracts = 4
  MaxReloads = 2
  MaxBatch = 2
CHECK_DEADLOCK FALSE
INVARIANTS GraphFollowsFiles GraphExact DerivationsConverge AnswersAgree RoutesAnswered DiagramFaithful
