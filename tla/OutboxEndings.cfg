\* No adapter for one order, a rejecting exchange and a cancel for the other;
\* no pass dies.
SPECIFICATION FairSpec
CONSTANTS
  o1 = o1
  o2 = o2
  o3 = o3
  btc = btc
  eth = eth
  Orders = {o1, o2}
  Symbols = {btc, eth}
  Workers = {w1, w2}
  Symbol <- TwoSymbols
  Side <- AllBuy
  Quantity <- Two
  Mode <- PaperAndLive
  Cancellable = {o1}
  AdapterModes <- Paper
  Rejecting = TRUE
  BatchSize = 4
  FaultKinds = {}
  MaxFaults = 0
PROPERTIES ParkedIsAudited RejectionReachesOrder CancelEndsOrder
