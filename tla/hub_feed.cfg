SPECIFICATION FairSpec
CONSTANTS
  s1 = s1
  s2 = s2
  s3 = s3
  p1 = p1
  p2 = p2
  requested = requested
  fulfilled = fulfilled
  eth = eth
  btc = btc
  nil = nil
  NoAsset = nil
  Subs = {s1, s2}
  Publishers = {p1}
  Kinds = {requested}
  Assets = {eth, btc}
  Filters <- OneAsset
  BufSize = 1
  MaxSubs = 2
  MaxEvents = 3
INVARIANT GapFree
INVARIANT OnlyWanted
PROPERTY ImplementsFeed
PROPERTY PublishReturns
PROPERTY DropIsSignalled
PROPERTY ShutdownSignals
