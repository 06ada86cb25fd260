CONSTANTS
  a1 = a1
  a2 = a2
  ann = ann
  bob = bob
  lentil = lentil
  theirs = {a2}
  Attempts = {a1, a2}
  Buyers = {ann, bob}
  BuyerOf <- CallOf
  Labels = {lentil}
  LabelOf <- NameOf
  None = None
  EarlyCount = 1
  Confirmations = 3
  Faults = {"ens", "answer", "worker", "rpc", "crash"}
  MaxHead = 5
  MaxReorgs = 1
  MaxPolls = 2
  MaxFaults = 2
SPECIFICATION FairSpec
INVARIANTS
  IssuedIsBought
  BuyerIsServed
  DoneIsOwned
PROPERTY CallerIsTold
CHECK_DEADLOCK FALSE
