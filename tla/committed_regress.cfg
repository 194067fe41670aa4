\* One pull request of one tenant: leases, reclaims, superseding deliveries.
CONSTANTS
  Tenant = {t1}
  Pull = {p1}
  Revision = {v1}
  DeliveryId = {d1, d2}
  Body = {b1, b2}
  Digest = {x1, x2}
  DeliveriesOf <- MCSharedDeliveries
  ReplayAge = 0
  FutureSkew = 0
  LeaseTerm = {1}
  Retention = 9
  MaxAttempts = 2
  MaxClock = 2
  InitialModes = {"required"}
  InjectedFaults = {"unknown-before-commit"}
  MaxGeneration = 3
  None = None
  NoEntry = NoEntry
SPECIFICATION Spec
SYMMETRY MCSymmetry
PROPERTY
  CommittedResultStands
CHECK_DEADLOCK FALSE
