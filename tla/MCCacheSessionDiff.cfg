SPECIFICATION Spec
CONSTANTS
  p = p
  q = q
  Paths = {p, q}
  Versions <- OnlySlow
  Missing = Missing
  Configs = {"all", "io"}
  Modes = {"dir", "diff"}
  MaxDay = 1
  Absent = Absent
  NoRun = NoRun
INVARIANTS
  DiffReportsChangedIssues
