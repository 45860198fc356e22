SPECIFICATION Spec
CONSTANTS
  registry = registry
  weth = weth
  usdc = usdc
  link = link
  eth = eth
  usd = usd
  lnk = lnk
  nil = nil
  Registry = registry
  Aggregators = {weth, usdc, link}
  Assets = {eth, usd, lnk}
  NoAsset = nil
  Seeds <- TwoSeeds
  Chain <- ShortChain
  MaxAgain = 0
  MaxRestarts = 1
INVARIANT PersistsEveryObserved
