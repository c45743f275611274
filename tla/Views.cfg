SPECIFICATION Spec
CONSTANTS
  None = None
  Keys <- MCKeys
  Name = {"paper", "thesis", "who", "no", "town"}
  Refs <- MCRefs
  Depths = {0, 1}
  Levels = 8
  Uses = 3
  Index <- MCIndex
  KeyOf <- MCKeyOf
  Largest = 200
  Documents <- MCDocuments
  Node <- MCNode
  Height <- MCHeight
  Object <- MCObject
  Tree <- MCTree
  Depth <- MCDepth
  Collections <- MCCollections
  Groups <- MCGroups
  Pages <- MCPages
  Expressions <- MCExpressions
INVARIANTS
  ScopesOK
  EvaluatesAsWritten
  CountsWhatIsFound
  RendersAsWritten
  LeavesItsScopes
PROPERTIES
  ScopesRestore
