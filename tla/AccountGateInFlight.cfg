\* Two orders are placed before the first of them is filled.
SPECIFICATION Spec
CONSTANTS
  o1 = o1
  o2 = o2
  btc = btc
  eth = eth
  Orders = {o1, o2}
  Symbols = {btc, eth}
  Symbol <- TwoSymbols
  Clients = {c1}
  Configs <- OnlyTight
  Groupings <- ApartOrTogether
  Equities = {4, 8}
  InitialConfig <- Tight
  MaxVersion = 3
  MaxEngages = 2
  Days = {0, 1}
  MaxLoss = 1
INVARIANTS OpenWithinCap
