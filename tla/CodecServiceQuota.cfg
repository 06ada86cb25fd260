CONSTANTS
  Encoders = {t1, t2}
  Names = {"me"}
  NoHandle = NoHandle
  Anon = "@anon"
  NoToken = NoToken
  Idle = Idle
  FreeLimit = 1
  HasSecret = TRUE
  MaxTime = 1
  Threads = {s1, s2}
  Payments = {"p"}
  NoPayment = NoPayment
  Ttl = 0
  Faults = {"invalid", "outage", "lost", "anonymous"}
  MaxFaults = 1
SPECIFICATION ServiceSpec
SYMMETRY ServiceSymmetry
INVARIANTS
  OneTokenPerPayment
PROPERTIES
  ImplementsQuota
