\* One thread.
CONSTANTS
  w1 = w1
  w2 = w2
  k1 = k1
  k2 = k2
  t1 = t1
  t2 = t2
  All = All
  None = None
  Watch = {w1, w2}
  Key <- OwnKeys
  Duration = 2
  Calls = 3
  Worker = {t1}

SPECIFICATION FairSpec
INVARIANTS
  OneThreadInv
