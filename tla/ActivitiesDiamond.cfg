\* The diamond on one thread with an optional subtask and all predicates.
CONSTANTS
  r = r
  a = a
  b = b
  c = c
  f = f
  w1 = w1
  w2 = w2
  None = None
  Node <- DiamondNode
  Deps <- DiamondDeps
  Final = f
  Required <- OptionalB
  CancelIf = {a, b}
  IfErrored = {a, b}
  IfFailed = {c}
  Worker = {w1}
  SizeMax = 7

SPECIFICATION FairSpec
INVARIANTS
  InvokedAfterDependencies
  RunsOnceOrNever
  SkipsAreExplained
  AnalyzerTells
PROPERTIES
  ImplementsTaskGraph
