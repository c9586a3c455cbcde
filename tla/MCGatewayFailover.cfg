SPECIFICATION LiveGatewaySpec
CONSTANTS
  Account = {a1, a2}
  Request = {r1}
  Token <- MCToken
  Session = {s1}
  SessionOf <- OneSession
  NoAccount = NoAccount
  NoSession = NoSession
  LeaseTicks = 4
  RenewTicks = 1
  RenewTimeoutTicks = 1
  ReplyTicks = 1
  MaxCooldown = 1
  MaxLimit <- SingleLimit
  MaxGlobal = 1
  MaxFaults = 2
  StreamModes = {FALSE,TRUE}
INVARIANTS GatewayTypeOK ResponseIntegrity
PROPERTIES NoTruncatedEnd ImplementsDispatch RequestEnds CapacityReturns
