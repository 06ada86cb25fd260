CONSTANTS
  a = a
  b = b
  Peers = {a, b}
  NoPub = NoPub
  Backlog = 15
  Faults = {"restart"}
  MaxKeys = 2
  MaxChat = 5
  MaxMsgs = 0
  MaxClicks = 1
  MaxFaults = 1
SPECIFICATION SceneSpec
SYMMETRY PeerSymmetry
INVARIANTS
  OneKeyAtRest
CHECK_DEADLOCK FALSE
