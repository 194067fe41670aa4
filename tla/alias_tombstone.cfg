\* Claims, aliases and cleanup over more than two retention periods.
CONSTANTS
  Tenant = {t1}
  Pull = {p1}
  Revision = {v1}
  DeliveryId = {d1, d2}
  Body = {b1, b2}
  Digest = {}
  DeliveriesOf <- MCSharedDeliveries
  ReplayAge = 1
  FutureSkew = 0
  LeaseTerm = {1}
  Retention = 2
  MaxAttempts = 1
  InitialModes = {"shadow"}
  InjectedFaults = {}
  MaxClock = 4
  MaxGeneration = 3
  None = None
  NoEntry = NoEntry
SPECIFICATION HSpec
SYMMETRY MCSymmetry
PROPERTY
  TombstoneOutlivesWindow
CHECK_DEADLOCK FALSE
