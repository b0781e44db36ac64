SPECIFICATION Spec
CONSTANTS
  MaxResolveDepth = 24
  MaxPrefixes = 4
  MaxMountsPerRouter = 64
  MaxRouteNodes = 5000
  MaxConstRecords = 4000
  MaxMisses = 8
  MaxExtendsDepth = 8
  Roots <- MCRoots
  Blank <- Blanks
  Fragments <- AllFragments
  MaxFragments = 4
  Config <- Settings
  Patterns <- BusPattern
  Openers <- OpenerKinds
  Disk <- MCDisk
  AliasScripts <- MCAliasScripts
  AliasSpecifiers <- MCAliasSpecifiers
  Scanners = {s1, s2}
  MaxAsked = 2
  FirstSchema <- MCFirstSchema
  SchemaItems <- MCSchemaItems
  MaxRevisions = 4
CHECK_DEADLOCK FALSE
INVARIANTS EventsAreTheFiles PlacesAreTheFiles AliasMemoAgrees SchemaStepsSafe
