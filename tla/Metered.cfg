CONSTANTS
  t1 = t1
  t2 = t2
  c1 = c1
  c2 = c2
  Threads = {t1, t2}
  Names = {"me"}
  NoHandle = NoHandle
  Anon = "@anon"
  NoToken = NoToken
  Idle = Idle
  FreeLimit = 2
  HasSecret = TRUE
  MaxTime = 1
  Tabs = {c1}
  Profiles = {"home"}
  ProfileOf <- OneProfile
  Account = "me"
  NoThread = NoThread
  Faults = {"encode", "button", "expire", "timeout", "restart"}
  MaxAsks = 4
  MaxFaults = 2
SPECIFICATION MeteredFairSpec
INVARIANTS
  MirrorsServer
  LocalRefusalIsDoomed
  CountsDeliveries
  CountsExact
PROPERTIES
  ComposeFrees
CHECK_DEADLOCK FALSE
