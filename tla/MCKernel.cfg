SPECIFICATION LiveSpec
CONSTANTS
  r1 = r1
  r2 = r2
  Request = {r1, r2}
  MaxInflight = 1
  DropsStalled = TRUE
  KindsOf <- MCKinds
  MaxLines <- MCLines
INVARIANTS TypeOK OneReply FailureShows CompletionIsReal WellFormed UpstreamStopped InflightExact
 
