CONSTANTS
  a = a
  b = b
  Peers = {a, b}
  NoPub = NoPub
  Backlog = 15
  Faults = {"encode", "decode", "expire", "reload"}
  MaxKeys = 2
  MaxChat = 5
  MaxMsgs = 0
  MaxClicks = 3
  MaxFaults = 1
SPECIFICATION SceneSpec
SYMMETRY PeerSymmetry
INVARIANTS
  TypeOK
  NoStaleVerdict
  OneKeyAtOnce
  AckPerOfferAtOnce
PROPERTIES
  ConsentFirstAtOnce
  LiveFramesOnly
CHECK_DEADLOCK FALSE
