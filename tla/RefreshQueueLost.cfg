SPECIFICATION Spec
CONSTANTS
  Caller = {c1, c2}
  NoCaller = NoCaller
  MaxTries = 2
  MaxEvents = 1
  MaxCrashes = 0
INVARIANT ForcedHasJob
