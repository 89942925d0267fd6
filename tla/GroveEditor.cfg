SPECIFICATION Spec
CONSTANTS
  MaxElements = 12
  MaxTexts = 12
  Name <- MCName
  Char <- MCChar
  Documents <- MCDocuments
  Clips <- MCClips
  NewName = {"t"}
  NewChar = {"x"}
  MaxHistory <- MCMaxHistory
INVARIANTS
  UndoRestores
  CursorInGrove
  DoneAsWanted
  CopiesSelection
  PartsFit
