CONSTANTS
  People = {alice}
  NoOne = NoOne
  Gateway = Gateway
  MaxWrites = 3
  MaxSignIns = 3
  EnsFaults = {}
SPECIFICATION RecSpec
INVARIANTS SignInFindsHandle
CHECK_DEADLOCK FALSE
