SPECIFICATION FairSpec
CONSTANTS
  Ctxs = {c0, c1}
  BufferSize = 2
  Talking = {c0}
  MaxChars = 3
INVARIANTS
  TypeOK
  StdoutExact
  StderrComplete
  PaneIsTail
PROPERTIES
  LinesArrive
