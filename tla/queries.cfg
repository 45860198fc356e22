SPECIFICATION Spec
CONSTANTS
  weth = weth
  link = link
  eth = eth
  alice = alice
  zero = zero
  Chain <- TwoAggregators
  ZeroHash = zero
  HalfWord = 16
  HalfLong = 16
  WireKinds <- SomeKinds
  Ranges <- AllBlocksAndSome
  PageSizes <- SizesAround
  ListLimit = 3
  DefaultLimit = 2
  Orders <- SeedsEitherWay
  MaxGot = 7
CHECK_DEADLOCK FALSE
INVARIANT TypeOK
INVARIANT WalkComplete
INVARIANT WalkDescends
INVARIANT AnsweredAsObserved
PROPERTY AnswersGrow
