CONSTANTS
  Command = {c1, c2}
  NULL = NULL
  DepthLimit = 0
  AddressReuse = FALSE
  MaxHistory = 2
  Path = {p, q}
  Text = {t1, t2}
  Absent = Absent
  Torn = Torn
  NoEntry = NoEntry
  Nothing = Nothing
  CrashIn = {"idle"}
  MaySaveAs = FALSE
  UndoMisleads = TRUE
  ToggleModified = FALSE
SPECIFICATION Spec
PROPERTIES
  StartEnds
  WorkIsKept
INVARIANT UnmodifiedIsClean
