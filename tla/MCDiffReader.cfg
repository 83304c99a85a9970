SPECIFICATION Spec
CONSTANTS
  f = f
  g = g
  Files = {f, g}
  Forms <- AllForms
  Plain = Plain
  PlusPlus = PlusPlus
  Texts <- AllTexts
  None = None
  Places = {FALSE, TRUE}
  MaxStart = 3
  MaxLines = 13
INVARIANTS
  TypeOK
  EveryFileHasItsSet
  CounterTracksFile
  HarmIsBounded
  PureDiffExact
CHECK_DEADLOCK FALSE
