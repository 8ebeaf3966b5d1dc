\* One order of any type meets a feed that fails, lags and is half rewritten.
SPECIFICATION Spec
CONSTANTS
  btc = btc
  Symbols = {btc}
  Tops <- EmptyLowHigh
  MetadataMaxAge = 2
  BookMaxAge = 1
  MaxLatency = 1
  MaxTime = 4
  Requests = {r1}
  Intents <- MarketAndLimit
  Rules <- Filters
INVARIANTS TypeOK LimitBuyCovered
PROPERTIES HaltRespected PricesAreRecent
