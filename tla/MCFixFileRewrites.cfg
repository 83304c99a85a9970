SPECIFICATION Spec
CONSTANTS
  x = x
  m = m
  p = p
  limit = limit
  Names = {x, m, p, limit}
  Params = {p, limit}
  Sized = {x, m, p}
  Ints = {limit}
  Other = Other
  Call = Call
  Odd = Odd
  StructNames = {"T"}
  Types = {"bool", "once", "int64", "named"}
  Statements <- SomeStatements
  Inserted <- SomeInserted
  StructShapes <- SomeStructs
  MaxStatements = 5
  MaxFields = 5
  MixedBody = 3
  MaxRuns = 2
CHECK_DEADLOCK FALSE
INVARIANT EveryDeclarationRewritten
