\* Requests about one account, and one address nobody has, from two places.
CONSTANTS
  Accounts = {"kim"}
  Strangers = {"nobody"}
  Addresses = {"lobby", "office"}
  Chosen = {old, new}
  Temps = {"temp"}
  Tokens = {t1, t2}
  Requests = {r1, r2}
  MaxAttempts = 2
  MaxFailed = 3
  EmailIpLimit = 1
  IpLimit = 2
  Ttl = 3
  SlideUnder = 2
  Workloads <- MCWorkloads
  Null = Null
SYMMETRY Interchangeable
SPECIFICATION Spec
INVARIANTS
  TypeOK
  NoSessionIsLeftBehind
  GateHolds
  CostStaysWithItsMaker
  LockIsEarned
  UseKeepsTheSession
PROPERTY TemporaryIsReplaced
