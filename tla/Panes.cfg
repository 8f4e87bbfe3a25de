SPECIFICATION Spec
CONSTANTS
  Ctxs = {c0, c1}
  Vals = {0, 1}
  None = None
  LineWords = 2
  DataWords = 4
  DataStart = 2
  StackTop = 8
  StackStart = 4
  Sps = {3, 4, 5, 8}
  MaxEdits = 3
SYMMETRY Symmetric
INVARIANTS
  TypeOK
  ShownIsMemory
PROPERTIES
  MarksTellChanges
