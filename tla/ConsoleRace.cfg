\* The reports at the end of a cycle and a breakpoint set by the page meet in one stream.
SPECIFICATION Spec
CONSTANTS
  Ctxs = {c0}
  BufferSize = 2
  Talking = {c0}
  MaxChars = 3
INVARIANTS
  OneAtATime
