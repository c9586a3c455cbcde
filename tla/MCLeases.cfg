SPECIFICATION Spec
CONSTANTS
  a1 = a1
  a2 = a2
  Account = {a1, a2}
  Token = {t1, t2, t3}
  Session = {s1}
  NoAccount = NoAccount
  NoSession = NoSession
  LeaseTicks = 2
  MaxCooldown = 2
  MaxLimit <- MCMaxLimit
  MaxGlobal = 2
SYMMETRY Symmetry
INVARIANTS TypeOK Capacity
PROPERTIES Admission CooldownHolds
