\* Two orders are let through as reductions of one position.
SPECIFICATION GatedSpec
CONSTANTS
  o1 = o1
  o2 = o2
  o3 = o3
  o4 = o4
  btc = btc
  eth = eth
  Orders = {o1, o2, o3}
  Symbols = {btc, eth}
  Workers = {w1}
  Symbol <- OneOfEth
  Side <- Sides
  Quantity <- Quantities
  Mode <- AllPaper
  Cancellable = {}
  AdapterModes <- Paper
  Rejecting = FALSE
  BatchSize = 1
  FaultKinds = {}
  MaxFaults = 0
  Equity = 10
  Limits <- OnePosition
PROPERTIES ReductionsReduce
