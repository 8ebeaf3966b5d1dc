\* Orders decided by the risk engine and filled by a pass that may die, stall
\* or fail.
SPECIFICATION GatedSpec
CONSTANTS
  o1 = o1
  o2 = o2
  o3 = o3
  o4 = o4
  btc = btc
  eth = eth
  Orders = {o1, o2, o3, o4}
  Symbols = {btc, eth}
  Workers = {w1}
  Symbol <- OneOfEth
  Side <- Sides
  Quantity <- Quantities
  Mode <- AllPaper
  Cancellable = {}
  AdapterModes <- Paper
  Rejecting = FALSE
  BatchSize = 1
  FaultKinds = {"crash", "db"}
  MaxFaults = 1
  Equity = 10
  Limits <- OnePosition
INVARIANTS SerialOrdersKeepCap
PROPERTIES LoneReductionsReduce
