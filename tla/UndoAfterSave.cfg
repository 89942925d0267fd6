CONSTANTS
  Command = {c1, c2, c3}
  NULL = NULL
  DepthLimit = 0
  AddressReuse = FALSE
  MaxHistory = 3
  Top = top
  Entity = {entity}
  Included = {included}
  Text = {t1, t2}
  Absent = Absent
  Torn = Torn
  Place = {"beside"}
  Protected = {}
  OpenFails = {}
  WriteFails = {}
  UndoWritten = TRUE
SPECIFICATION Spec
SYMMETRY Symmetry
INVARIANT UnmodifiedIsOnDisk
