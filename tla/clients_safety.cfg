SPECIFICATION FairSpec
CONSTANTS
  Indexes = {1, 2, 3}
  SetupConcurrency = 2
  OrderConcurrency = 2
  Pairs = 2
  MaxRuns = 2
  MaxOrders = 4
  People = {"ann", "bea"}
  Developer = "dev-user"
  None = None
  MaxFlows = 1
  MaxSends = 2
  Replicas = {"p1", "p2"}
  Addresses = {"ip"}
  Emails = {"a@x", "b@x"}
  Credentials = {"key"}
  Limit = 1
  GlobalLimit = 2
  Duration = 2
  MaxBuckets = 4
  MaxTime = 3
  MaxChecks = 5
  Refs = {1, 2}
  Sizes <- MCSizes
  Quotes <- MCQuotes
  Unpriced = Unpriced
  RuleBook <- MCRuleBook
  FeeRate <- MCFeeRate
  FeeScale = 3
  Wallet <- MCWallet
  MaxVersions = 2
  MaxClock = 1
  MaxFills = 1
  Finest = 6
  Openers = {1, 2, 3}
  Openings <- MCOpenings
  Nobody = Nobody
  MaxOpenings = 3
CHECK_DEADLOCK FALSE
INVARIANTS
  
  SpanBound
  ExactMoney
  OpenedWhole
PROPERTY StopTakesEffect
