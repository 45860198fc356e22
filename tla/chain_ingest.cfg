SPECIFICATION Spec
CONSTANTS
  registry = registry
  weth = weth
  usdc = usdc
  link = link
  eth = eth
  usd = usd
  lnk = lnk
  nil = nil
  Registry = registry
  Aggregators = {weth, usdc, link}
  Assets = {eth, usd, lnk}
  NoAsset = nil
  Seeds <- TwoSeeds
  Chain <- MixedChain
  MaxAgain = 1
  MaxRestarts = 1
INVARIANT TypeOK
INVARIANT PricesResolved
INVARIANT NoneSkipped
INVARIANT StoredAnnounced
INVARIANT ListedAggregators
INVARIANT CountsPublished
PROPERTY OrderedIngest
PROPERTY ImplementsLedger
PROPERTY ChannelDrained
PROPERTY RunStops
