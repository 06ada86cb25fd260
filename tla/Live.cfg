CONSTANTS
  a = a
  b = b
  Peers = {a, b}
  NoPub = NoPub
  Backlog = 15
  Faults = {"decode"}
  MaxKeys = 2
  MaxChat = 6
  MaxMsgs = 0
  MaxClicks = 2
  MaxFaults = 1
  Devices = {"a", "b"}
  Attempts = 1
  MaxSends = 1
  MaxHeads = 1
  StoreFaults = {"net", "scan", "lag", "keys", "expiry", "chain"}
SPECIFICATION LiveSpec
PROPERTIES
  Converges
  
CHECK_DEADLOCK FALSE
