CONSTANTS
  Command = {c1, c2, c3}
  NULL = NULL
  DepthLimit = 0
  AddressReuse = FALSE
  MaxHistory = 3
  Path = {p, q}
  Text = {t1, t2}
  Absent = Absent
  Torn = Torn
  NoEntry = NoEntry
  Nothing = Nothing
  CrashIn = {"idle", "prompt", "save", "unclean", "restore", "autosave"}
  MaySaveAs = TRUE
  UndoMisleads = FALSE
  ToggleModified = TRUE
SPECIFICATION Spec
SYMMETRY Symmetry
INVARIANTS
  TypeOK
  KeptIsRecoverable
PROPERTY TornIsRecoverable
