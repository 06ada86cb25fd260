CONSTANTS
  Phrases = {"p1", "p2"}
  People = {"x"}
  NoOne = NoOne
  PolicyTrees <- MCTrees
  MaxDepth = 2
  MaxLeaves = 4
  MaxChildren = 3
  MaxCandidates = 4
  Slots = 2
  MaxShares = 4
  Table <- MCTable
  Chunks <- Plain
  MaxChunks = 6
  Places = {1, 2, 3}
  Content <- MCContent
  MaxBlocks = 3
  MaxFinds = 2
  MaxScans = 2
  PageFaults = {"codec", "gate", "worker"}
  Words = {"p"}
  MaxHandlers = 3
  MaxTabs = 1
  KeyringKinds = {"add", "remove", "view", "forget", "world", "wallet"}
  KeyringFaults = {"worker", "expiry", "gateDown"}
  CardPolicies <- RevealPolicies
  MaxAttempts = 2
  MaxWidgets = 2
  Labels = {"ghost"}
  Known = {"guild"}
  Collections = {}
  Passphrases = {"w1"}
  Texts = {"hi"}
  Boxes = {"b1"}
  GateRuns = {"human"}
  Ready = {"humanOrPass", "after", "spacehumans"}
  MaxRules = 2
  MaxMoves = 3
  MaxFrames = 2
  SheetFaults = {"ens", "gate", "codec", "editor"}
  Joinable = {"dao", "club"}
  Pseudonyms = {"ann", "bob"}
  Editors = {"owner", "mod"}
  MaxJoins = 3
  MaxAtOnce = 2
  MaxBans = 3
  SpaceFaults = {"answer", "rpc"}
  Inputs = {"name", "collection", "rule"}
  Guarded = {"name", "rule"}
  Entries = {"good", "bad"}
  Right = {"good"}
  Origins = {"site1", "site2"}
  MaxKeystrokes = 4
  MaxClicks = 2
  HomeFaults = {"network", "worker", "close"}
  PostLimit = 280
  TagCost = 13
  Safety = 78
  MaxParts = 16
  CipherSizes = {24, 60, 90, 900}
  Costs = {6, 8, 11}
  MaxSwaps = 2
  MaxEdits = 2
  OwnThreads = TRUE
  XFaults = {"codec", "ens", "append", "deaf", "mount", "undo"}
  Articles = {1, 2}
  Posts <- FeedPosts
  MaxThreads = 1
  MaxRestarts = 1
  MaxMutations = 2
  MaxKeyMoves = 1
  MaxBacklog = 2
  FeedFaults = {"codec"}
  Models <- MCModels
  ByteBits = 2
  Precision = 6
  K = 2
  TopN = 4
  Nonce = 2
  MaxPayload = 15
  Datas <- MCDatas
  Foreign = 99
  MaxStarts = 2
  Visitors = {"v1", "v2"}
  Holders = {"a", "b"}
  Zero = "zero"
  PerRequest = 2
  PerIpHour = 2
  PerDay = 3
  Hour = 2
  Day = 2
  MaxRequests = 3
  MaxTick = 3
  MaxPasses = 3
SPECIFICATION Spec
INVARIANTS
  PostsSound ReadingSound KeyringSound WritingSound SpacesSound HomeSound
   
CHECK_DEADLOCK FALSE
