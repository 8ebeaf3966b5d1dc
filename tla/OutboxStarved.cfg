\* A closing fill that never commits comes before every later command.
SPECIFICATION FairSpec
CONSTANTS
  o1 = o1
  o2 = o2
  o3 = o3
  btc = btc
  eth = eth
  Orders = {o1, o2, o3}
  Symbols = {btc}
  Workers = {w1}
  Symbol <- OneSymbol
  Side <- BuySellBuy
  Quantity <- Two
  Mode <- AllPaper
  Cancellable = {}
  AdapterModes <- Paper
  Rejecting = FALSE
  BatchSize = 1
  FaultKinds = {}
  MaxFaults = 0
PROPERTIES SubmittedOrSetAside
