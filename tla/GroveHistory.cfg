SPECIFICATION Spec
CONSTANTS
  MaxElements = 5
  MaxTexts = 4
  Name <- MCName
  Char <- MCChar
  Documents <- MCDocuments
  NewChar = {"x"}
  MaxParts <- MCMaxParts
INVARIANTS
  TypeOK
  ForestKept
  UndoRestores
  RedoSucceeds
