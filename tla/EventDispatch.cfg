SPECIFICATION Spec
CONSTANTS
  Context = {1, 2, 3}
  Factory = {f1, f2}
  MaxTickets = 4
  MaxCalls = 2
SYMMETRY Symmetry
INVARIANTS
  TypeOK
  Registered
  IteratorValid
  ToldOnce
