\* A trip is found before midnight and stored after it.
SPECIFICATION Spec
CONSTANTS
  o1 = o1
  o2 = o2
  btc = btc
  eth = eth
  Orders = {o1, o2}
  Symbols = {btc, eth}
  Symbol <- TwoSymbols
  Clients = {c1}
  Configs <- LooseAndTight
  Groupings <- ApartOrTogether
  Equities = {4, 8}
  InitialConfig <- Loose
  MaxVersion = 3
  MaxEngages = 2
  Days = {0, 1}
  MaxLoss = 1
PROPERTIES TripsOnTheDayOfTheLoss
