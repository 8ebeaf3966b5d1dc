\* A market order that carries a price.
SPECIFICATION Spec
CONSTANTS
  btc = btc
  Symbols = {btc}
  Tops <- EmptyLowHigh
  MetadataMaxAge = 2
  BookMaxAge = 1
  MaxLatency = 1
  MaxTime = 4
  Requests = {r1}
  Intents <- PricedMarket
  Rules <- Filters
PROPERTIES MarketOrderSizedAtMarket
