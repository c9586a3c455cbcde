SPECIFICATION LiveSpec
CONSTANTS
  Process = {p1, p2}
  NoProcess = NoProcess
  Account = {1, 2}
  QuotasOf <- MCQuotas
  PageSize = 1
  Interval = 1
  MaxReset = 1
  MaxFaults = 1
INVARIANTS TypeOK ScanExclusive
PROPERTIES DueIsServed PauseEnds RecoveryIsReal
