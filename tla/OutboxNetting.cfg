\* Two orders net against each other on one symbol; no order is lost for good
\* while commands keep being claimed.
SPECIFICATION FairSpec
CONSTANTS
  o1 = o1
  o2 = o2
  o3 = o3
  btc = btc
  eth = eth
  Orders = {o1, o2}
  Symbols = {btc}
  Workers = {w1, w2}
  Symbol <- OneSymbol
  Side <- BuyThenSell
  Quantity <- TwoThenThree
  Mode <- AllPaper
  Cancellable = {}
  AdapterModes <- Paper
  Rejecting = FALSE
  BatchSize = 4
  FaultKinds = {"crash", "lock", "db", "ack"}
  MaxFaults = 2
INVARIANTS PositionMatchesFills
PROPERTIES SubmittedOrSetAside
