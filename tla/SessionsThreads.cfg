\* Two threads, both storages, a crash.
CONSTANTS
  c1 = c1
  c2 = c2
  v1 = v1
  v2 = v2
  w1 = w1
  A = A
  t1 = t1
  t2 = t2
  Master = Master
  Issued = Issued
  Absent = Absent
  Torn = Torn
  None = None
  Client = {c1, c2}
  Type = {A}
  Value = {v1, v2, w1}
  Author <- Authors
  Worker = {t1, t2}
  Ids = 2
  Requests = 3
  Crashes = 1
  Storages = {"memory", "disk"}

SYMMETRY Interchangeable
SPECIFICATION Spec
INVARIANTS
  IInv
  Isolation
  TakesEffect
  SessionsLast
PROPERTIES
  DeadStaysDead
\* Every request may have been made.
CHECK_DEADLOCK FALSE
