\* What single-trade checks add up to, over every sequence of small trades.
SPECIFICATION Spec
CONSTANTS
  btc = btc
  eth = eth
  doge = doge
  Symbols = {btc, eth, doge}
  Quantities = {1, 2, 3}
  Prices = {1, 2}
  Configs <- TwoConfigs
  Groupings <- TwoCorrelated
  Equities = {0, 4, 6}
  MaxLoss = 2
  MaxQuantity = 3
INVARIANTS TypeOK PositionCapKept ReductionsPass MoreEquityNeverHurts
PROPERTIES ExposureKept TripLastsTheDay
