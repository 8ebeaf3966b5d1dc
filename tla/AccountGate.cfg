\* Two requests race over one account, from its creation.
SPECIFICATION Spec
CONSTANTS
  o1 = o1
  o2 = o2
  btc = btc
  eth = eth
  Orders = {o1, o2}
  Symbols = {btc, eth}
  Symbol <- TwoSymbols
  Clients = {c1, c2}
  Configs <- LooseAndTight
  Groupings <- ApartOrTogether
  Equities = {4, 8}
  InitialConfig <- Loose
  MaxVersion = 2
  MaxEngages = 2
  Days = {0, 1}
  MaxLoss = 1
SYMMETRY ClientSymmetry
INVARIANTS TypeOK RequestsAreCurrent KillSwitchAudited TripsAudited ConfigChain
PROPERTIES PlacedWithinLimits OnlyFirstPutStrands ImplementsRules
