SPECIFICATION GatewaySpec
CONSTANTS
  Account = {a1}
  Request = {r1, r2}
  Token <- MCToken
  Session = {}
  SessionOf <- Sessionless
  NoAccount = NoAccount
  NoSession = NoSession
  LeaseTicks = 4
  RenewTicks = 1
  RenewTimeoutTicks = 1
  ReplyTicks = 1
  MaxCooldown = 1
  MaxLimit <- SingleLimit
  MaxGlobal = 1
  MaxFaults = 1
  StreamModes = {TRUE}
SYMMETRY Symmetry
INVARIANTS HeldLeaseIsLive LeaseAge UpstreamConcurrency NoLeaseLeak
