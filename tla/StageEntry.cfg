CONSTANTS
  MaxHeight = 5
  MaxRestarts = 2
  NoLimbo = NoLimbo
  NoUnwind = NoUnwind
SPECIFICATION FairSpec
INVARIANTS ResequenceMeetsNoLimbo PanicOnlyAfterCrash
PROPERTIES LimboEventuallyRecovered
