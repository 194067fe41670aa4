SPECIFICATION IntakeSpec
CONSTANTS
  t1 = t1
  p1 = p1
  v1 = v1
  v2 = v2
  d1 = d1
  d2 = d2
  b1 = b1
  b2 = b2
  Tenant = {t1}
  Pull = {p1}
  Revision = {v1, v2}
  DeliveryId = {d1, d2}
  Body = {b1, b2}
  Digest = {}
  DeliveriesOf <- MCDeliveries
  Request <- MCRequest
  Handler = {h1, h2}
  MaxSends = 3
  ReplayAge = 1
  FutureSkew = 0
  LeaseTerm = {1}
  Retention = 2
  MaxAttempts = 1
  MaxClock = 2
  InitialModes = {"required"}
  InjectedFaults = {"unknown-before-commit", "unknown-after-commit"}
  MaxGeneration = 4
  None = None
  NoEntry = NoEntry
SYMMETRY MCSymmetry
INVARIANTS
  AnsweredIsHeld
  NotRefusedForItself
  AcceptedOnce
CHECK_DEADLOCK FALSE
