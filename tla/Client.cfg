\* A request and two redirects; a third one is not followed.
CONSTANTS
  Attempts = 4
SPECIFICATION FairSpec
INVARIANTS
  IInv
  OneVerdict
  CallbacksInTime
PROPERTIES
  VerdictEventually
CHECK_DEADLOCK FALSE
