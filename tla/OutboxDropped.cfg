\* An order cannot be locked, and the pass dies before it says so.
SPECIFICATION FairSpec
CONSTANTS
  o1 = o1
  o2 = o2
  o3 = o3
  btc = btc
  eth = eth
  Orders = {o1}
  Symbols = {btc}
  Workers = {w1}
  Symbol <- OneSymbol
  Side <- AllBuy
  Quantity <- Two
  Mode <- AllPaper
  Cancellable = {}
  AdapterModes <- Paper
  Rejecting = FALSE
  BatchSize = 4
  FaultKinds = {"crash", "lock"}
  MaxFaults = 2
PROPERTIES SubmittedOrEscalated
