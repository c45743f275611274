\* An inner join on two threads.
CONSTANTS
  r = r
  a = a
  b = b
  c = c
  f = f
  w1 = w1
  w2 = w2
  None = None
  Node <- DiamondNode
  Deps <- LadderDeps
  Final = f
  Required <- DiamondNode
  CancelIf = {}
  IfErrored = {}
  IfFailed = {}
  Worker = {w1, w2}
  SizeMax = 7

SPECIFICATION Spec
INVARIANTS
  InvokedAfterDependencies
