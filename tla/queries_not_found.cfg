SPECIFICATION Spec
CONSTANTS
  weth = weth
  link = link
  eth = eth
  alice = alice
  zero = zero
  Chain <- OneRequest
  ZeroHash = zero
  HalfWord = 16
  HalfLong = 16
  WireKinds <- SomeKinds
  Ranges <- AllBlocksAndSome
  PageSizes = {0, 1, 3}
  ListLimit = 3
  DefaultLimit = 2
  Orders <- NewestFirst
  MaxGot = 2
CHECK_DEADLOCK FALSE
INVARIANT NotFoundUntilRequested
