\* Two reads of each kind of list with two changes under them.
CONSTANTS
  Records = 7
  MaxEdits = 2
  PageSize = 2
  MaxItems = 6
  MaxRetries = 1
  None = None
SPECIFICATION Spec
INVARIANTS
  TypeOK
  GrowingReadWasHeld
  StandingItemsRead
  OneSidedReadWasHeld
  AgreeingReadsWereHeld
  QuietReadIsExact
PROPERTIES
  ReadsEnd
CHECK_DEADLOCK FALSE
