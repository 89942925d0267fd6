CONSTANTS
  Command = {c1, c2, c3, c4}
  NULL = NULL
  Doc = {d1, d2, d3}
  DepthLimit = 2
  AddressReuse = FALSE
  RewriteLast = TRUE
  MaxHistory = 4
SPECIFICATION Spec
SYMMETRY Symmetry
INVARIANTS
  TypeOK
  ExecutedPrefix
  CommandsInContext
  DepthBound
  MarkIsSaved
PROPERTY KeepsPromise
