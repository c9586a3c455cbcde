SPECIFICATION LiveSpec
CONSTANTS
  Caller = {c1, c2}
  NoCaller = NoCaller
  MaxTries = 2
  MaxEvents = 1
  MaxCrashes = 1
INVARIANT TypeOK
PROPERTIES ClearsOnlySeen PriorityNeverLowered RequestServed
