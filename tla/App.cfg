CONSTANTS
  Devices = {"a", "b"}
  Attempts = 2
  MaxSends = 2
  MaxHeads = 2
  StoreFaults = {"walrus", "chain", "lost", "scan"}
  Peers = {p1, p2}
  NoPeer = NoPeer
  History = 1
  MaxIn = 2
  MaxTexts = 2
  InboxFaults = {"list", "empty", "send"}
  Phones = {"d1"}
  Answers = {"yes"}
  NoAnswer = "none"
  MaxPerHandle = 2
  RatePerMin = 2
  MaxKnocks = 3
  MaxPublishes = 1
  KnockFaults = {"crash", "disk", "lost", "ttl"}
  People = {alice}
  NoOne = NoOne
  Gateway = Gateway
  MaxWrites = 3
  MaxSignIns = 3
  EnsFaults = {"logs", "rpc", "write", "lost"}
  Chats = {"u"}
  XHandles = {"x1"}
  Null = Null
  Tapped = {"run", "raffle"}
  MaxUpdates = 3
  Callers = {"c"}
  Emails = {"e"}
  Telegrams = {"t1", "t2"}
  RateMax <- MCRate
  MaxForms = 3
  MaxTime = 3
  Prices = {100, 150}
  Gas = 1
  StartFunds = {85}
  SourceFunds = {0, 400}
  Probe = 112
  Slip = 90
  MaxPays = 2
  MaxBridges = 2
  MaxPrices = 1
  Owners = {alice, bob}
  NoMember = NoMember
  UnlockFaults = {"relayer", "answer", "private"}
  MaxPosts = 2
  MaxLoads = 3
  PopupFaults = {"gone", "inject"}
  MaxInLine = 2
  MaxOpens = 2
  h1 = h1
  w1 = w1
  t1 = t1
  r1 = r1
  Nobody = Nobody
  Humans = {h1}
  Wallets = {w1}
  Keys = {k1}
  Tokens = {t1, t2}
  Nonces = {n1, n2}
  Refs = {r1}
  Calls = {q1, q2}
  Policies <- MCPolicies
  EnsTtl = 1
  YesTtl = 2
  NoTtl = 1
  SessionTtl = 8
  NonceTtl = 1
  RpcMax = 1
  MaxClock = 7
SPECIFICATION Spec
SYMMETRY Alike
INVARIANTS
  StoreIsSound UnreadIsHonest FailureStays  
  SoundGrants
PROPERTIES
  BanIsObeyed HolderWindow ExpiredClaimsDie
CHECK_DEADLOCK FALSE
