SPECIFICATION Spec
CONSTANTS
  f = f
  g = g
  Files = {f, g}
  Forms = {"plain"}
  Plain = Plain
  PlusPlus = PlusPlus
  Texts <- SkippedText
  None = None
  Places = {FALSE}
  MaxStart = 3
  MaxLines = 10
INVARIANTS
  ReturnsAddedLines
CHECK_DEADLOCK FALSE
