SPECIFICATION Spec
CONSTANTS
  s1 = s1
  s2 = s2
  s3 = s3
  p1 = p1
  p2 = p2
  requested = requested
  fulfilled = fulfilled
  eth = eth
  btc = btc
  nil = nil
  NoAsset = nil
  Subs = {s1}
  Publishers = {p1}
  Kinds = {requested}
  Assets = {eth}
  Filters <- OneFilter
  BufSize = 1
  MaxSubs = 1
  MaxEvents = 1
INVARIANT GoroutineSafe
