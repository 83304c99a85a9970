SPECIFICATION Spec
CONSTANTS
  None = None
  Bad = Bad
  Malformed = Malformed
  GoNames = {"b.go", "c.go"}
  Hidden = {".git"}
  Arguments <- SomeCommandLines
  Configs <- SomeConfigs
  Tree <- SomeTree
  Named <- SomeNamed
  Patterns <- SomePatterns
  Versions <- SomeVersions
  GoMods <- SomeGoMods
  Batches <- SomeBatches
  PathText <- SomePathText
  NameText <- SomeNameText
  Lines = {1}
  Narrow = 2
CHECK_DEADLOCK FALSE
INVARIANTS
  TypeOK
  FlagsMeanWhatTheySay
  ReportIsExact
  OnlyFixWrites
  FixesAreIndependent
