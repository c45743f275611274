\* A deferred callable asks for a status and responds.
SPECIFICATION FairSpec
CONSTANTS
  Requests = 1
  Method = {"get", "post"}
  Path <- MCPath
  Rules <- MCRules
  Callable <- MCCallable
  Deferred <- MCDeferred
  Alternatives <- Onward
  Rewritten <- Literally
  Status = {"ok", "other", "error"}
  Ok = "ok"
  Error = "error"
  Polite = TRUE
  None = None
INVARIANT
  RespondsWithStatus
CHECK_DEADLOCK FALSE
