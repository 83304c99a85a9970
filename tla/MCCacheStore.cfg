SPECIFICATION FairSpec
CONSTANTS
  w1 = w1
  w2 = w2
  path = path
  Workers = {w1, w2}
  Paths = {path}
  PathOf <- SamePath
  Size <- OneSize
  Inodes = {1, 2, 3, 4}
  None = None
  MaxFaults = 2
INVARIANTS
  TypeOK
  ReturnsOwnIssues
  SettledEntryUsable
PROPERTIES
  CacheHeals
  QuietScansSettle
