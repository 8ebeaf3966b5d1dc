\* Two passes fill two orders of one symbol.
SPECIFICATION Spec
CONSTANTS
  o1 = o1
  o2 = o2
  o3 = o3
  btc = btc
  eth = eth
  Orders = {o1, o2, o3}
  Symbols = {btc}
  Workers = {w1, w2}
  Symbol <- OneSymbol
  Side <- AllBuy
  Quantity <- Two
  Mode <- AllPaper
  Cancellable = {}
  AdapterModes <- Paper
  Rejecting = FALSE
  BatchSize = 1
  FaultKinds = {}
  MaxFaults = 0
INVARIANTS PositionMatchesFills
