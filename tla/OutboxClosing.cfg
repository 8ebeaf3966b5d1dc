\* A sell that closes what a buy opened.
SPECIFICATION Spec
CONSTANTS
  o1 = o1
  o2 = o2
  o3 = o3
  btc = btc
  eth = eth
  Orders = {o1, o2}
  Symbols = {btc}
  Workers = {w1}
  Symbol <- OneSymbol
  Side <- BuyThenSell
  Quantity <- Two
  Mode <- AllPaper
  Cancellable = {}
  AdapterModes <- Paper
  Rejecting = FALSE
  BatchSize = 2
  FaultKinds = {}
  MaxFaults = 0
PROPERTIES ClosingFillCloses
