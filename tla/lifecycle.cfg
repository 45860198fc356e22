SPECIFICATION Spec
CONSTANTS
  c1 = c1
  c2 = c2
  weth = weth
  link = link
  eth = eth
  lnk = lnk
  registry = registry
  DefaultAssets <- Deployed
  DefaultRegistry <- RegistryAddress
  Calls <- TwoCalls
  Environments <- AnyEnvironment
INVARIANT TypeOK
INVARIANT ConfiguredAssets
INVARIANT CallsHavePool
INVARIANT ReadyMeansBound
INVARIANT StopIsComplete
PROPERTY SignalEndsProcess
