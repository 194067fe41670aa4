\* Every interleaving of one load with two changes of the repository.
CONSTANTS
  h1 = h1
  t1 = t1
  t2 = t2
  v1 = v1
  Head = {h1, h2}
  Text = {t1, t2}
  Login = {l1, l2}
  Value = {v1, v2}
  NeedsOf <- MCNeeds
  InitialWorlds <- MCWorlds
  MaxLookups = 1
  MaxAttempts = 2
  MaxChanges = 2
  Nothing = Nothing
SPECIFICATION Spec
INVARIANTS
  AtomicSnapshot
  PairedWithHead
PROPERTIES
  RetryIsJustified
  LoadEnds
CHECK_DEADLOCK FALSE
