SPECIFICATION Spec
CONSTANTS
  Boundary <- MCBoundary
  Number <- MCNumber
  Moment <- MCMoment
  Unset = Unset
  None = None
  Form <- MCForm
  Requests <- MCRequests
  Object = {"o1", "o2", "o3"}
  Declarations <- MCDeclarations
  Constraint <- MCConstraint
  Later <- MCLater
  Wordings = {"no"}
  Calls = 3
INVARIANTS
  IInv
  FirstFailureExplains
  VerdictHolds
  SeesWhatWasSent
PROPERTIES
  FetchedOnce
