CONSTANTS
  Command = {c1, c2, c3}
  NULL = NULL
  DepthLimit = 1
  AddressReuse = FALSE
  MaxHistory = 2
  Char = {x, y}
  NoText = NoText
  MaxText = 2
  Interrupts = {"shortcut", "cancel", "strict"}
SPECIFICATION Spec
SYMMETRY Symmetry
INVARIANT MergeSeesDone
