\* Polite callables, reroutes that end.
SPECIFICATION FairSpec
CONSTANTS
  Requests = 3
  Method = {"get", "post"}
  Path <- MCPath
  Rules <- MCRules
  Callable <- MCCallable
  Deferred <- MCDeferred
  Alternatives <- Onward
  Rewritten <- Literally
  Status = {"ok", "other", "error"}
  Ok = "ok"
  Error = "error"
  Polite = TRUE
  None = None
INVARIANTS
  IInv
  InOrder
  NothingForgotten
  ReturnsItsStatus
PROPERTIES
  EveryRequestEnds
  ImplementsExchange
\* A connection ends: its client goes, or its last answer closes it.
CHECK_DEADLOCK FALSE
