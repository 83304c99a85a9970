SPECIFICATION Spec
CONSTANTS
  MemPrealloc = MemPrealloc
  StructAlign = StructAlign
  Misspelt = Misspelt
  BadDate = BadDate
  Checkers = {MemPrealloc, StructAlign}
  Names = {MemPrealloc, StructAlign, Misspelt}
  Comments <- SomeComments
  None = None
  MaxRows = 3
  MaxDay = 2
INVARIANTS
  TypeOK
  AuditExact
  NothingResurfaces
  HidesOnlyByJoining
  CleanAfterRemoval
PROPERTIES
  HiddenThroughItsDate
