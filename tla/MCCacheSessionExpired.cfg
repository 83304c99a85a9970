SPECIFICATION Spec
CONSTANTS
  p = p
  q = q
  Paths = {p, q}
  Versions <- OnlySnoozed
  Missing = Missing
  Configs = {"all", "io"}
  Modes = {"dir", "file"}
  MaxDay = 1
  Absent = Absent
  NoRun = NoRun
INVARIANTS
  ExpiredResurfaces
