SPECIFICATION StreamSpec
CONSTANTS
  s1 = s1
  s2 = s2
  chainsub = chainsub
  requested = "requested"
  fulfilled = "fulfilled"
  eth = eth
  nil = nil
  NoAsset = nil
  Subs = {s1}
  Publishers = {chainsub}
  Ingester = chainsub
  Kinds = {"requested", "fulfilled"}
  Assets = {eth}
  Filters <- OneFilter
  BufSize = 1
  MaxSubs = 1
  MaxEvents = 4
  Chain <- ShortChain
  Orders <- OnlyOrder
  HalfLong = 16
  MaxLate = 0
  FromBlocks = {1}
  ReplayLimit = 2
  ListLimit = 2
  DefaultLimit = 1
INVARIANT ReplayChronological
