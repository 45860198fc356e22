SPECIFICATION StreamSpec
CONSTANTS
  s1 = s1
  s2 = s2
  chainsub = chainsub
  requested = "requested"
  fulfilled = "fulfilled"
  eth = eth
  nil = nil
  NoAsset = nil
  Subs = {s1}
  Publishers = {chainsub}
  Ingester = chainsub
  Kinds = {"requested", "fulfilled"}
  Assets = {eth}
  Filters <- TwoFilters
  BufSize = 1
  MaxSubs = 1
  MaxEvents = 4
  Chain <- TiedChain
  Orders <- TiedEitherWay
  HalfLong = 16
  MaxLate = 1
  FromBlocks = {0, 2, 3}
  ReplayLimit = 2
  ListLimit = 2
  DefaultLimit = 1
INVARIANT StreamTypeOK
INVARIANT NoBoundaryLoss
INVARIANT LiveExtends
INVARIANT OnePageInOrder
PROPERTY EventuallySent
