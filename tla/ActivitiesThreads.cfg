\* A fork that only joins in the final callback, on two threads.
CONSTANTS
  r = r
  a = a
  b = b
  c = c
  f = f
  w1 = w1
  w2 = w2
  None = None
  Node <- DiamondNode
  Deps <- ForkDeps
  Final = f
  Required <- OptionalB
  CancelIf = {a}
  IfErrored = {}
  IfFailed = {}
  Worker = {w1, w2}
  SizeMax = 7

SPECIFICATION FairSpec
INVARIANTS
  IInv
  FinalSeesOutcomes
  NothingLost
  NoStandstill
PROPERTIES
  FinalEventually
