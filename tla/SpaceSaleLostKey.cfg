CONSTANTS
  a1 = a1
  a2 = a2
  ann = ann
  bob = bob
  lentil = lentil
  theirs = {}
  Attempts = {a1, a2}
  Buyers = {ann}
  BuyerOf <- CallOf
  Labels = {lentil}
  LabelOf <- NameOf
  None = None
  EarlyCount = 1
  Confirmations = 3
  Faults = {}
  MaxHead = 5
  MaxReorgs = 0
  MaxPolls = 2
  MaxFaults = 0
SPECIFICATION Spec
INVARIANT KeyIsKept
CHECK_DEADLOCK FALSE
